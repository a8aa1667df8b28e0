------------------------- MODULE PipeControlProofs --------------------------
(***************************************************************************)
(* The control messages in a pipe stay whole, for any threads, any size of *)
(* the buffer and any size of the messages.                                *)
(*                                                                         *)
(* Whole says of a row of cells that every control message is followed by  *)
(* its descriptors, but for the one that a writer is putting at the end and*)
(* the one that a reader is taking at the start.  The first lemmas show it *)
(* kept by what sendmsg and recvmsg do to a row, the next ones that the    *)
(* steps of the threads do just that.  They rest on PipeInv of PipeProofs: *)
(* that the headers cover the row, that the first segment is the one the   *)
(* reader read and the last the one the writer adds to.                    *)
(***************************************************************************)
EXTENDS PipeProofs

\* Control messages in the u cells of C are whole, but for the one at s, the last
\* one, that is being sent, and the descriptors up to r, the first ones, that are
\* being received.
Whole(C, u, s, r) ==
  /\ \A p \in 0..u - 1 : C[p].kind = "cmsg" =>
       \A k \in 1..C[p].a : IF p + k < u THEN C[p + k] = Cell("fd", k, 0) ELSE p = s
  /\ \A p \in 0..u - 1 : C[p].kind = "fd" =>
       IF C[p].a < p THEN C[p - C[p].a].kind = "cmsg" /\ C[p].a <= C[p - C[p].a].a
       ELSE p <= r

\* What a whole row says of one cell, with the positions named.
LEMMA WholeCmsg ==
  ASSUME NEW C, NEW u \in Nat, NEW s, NEW r, Whole(C, u, s, r), IsRow(C, u),
         NEW p \in 0..u - 1, C[p].kind = "cmsg", NEW k \in 1..C[p].a, NEW q, q = p + k
  PROVE  IF q < u THEN q \in 0..u - 1 /\ C[q] = Cell("fd", k, 0) ELSE p = s
<1>1. C[p].a \in Nat
  BY Zenon, CellFields
<1>2. IF p + k < u THEN C[p + k] = Cell("fd", k, 0) ELSE p = s
  BY Zenon DEF Whole
<1> QED
  BY <1>1, <1>2

LEMMA WholeFd ==
  ASSUME NEW C, NEW u \in Nat, NEW s, NEW r, Whole(C, u, s, r), IsRow(C, u),
         NEW p \in 0..u - 1, C[p].kind = "fd", NEW a, a = C[p].a
  PROVE  /\ a \in Nat
         /\ IF a < p THEN p - a \in 0..u - 1 /\ C[p - a].kind = "cmsg" /\ a <= C[p - a].a
            ELSE p <= r
<1>1. a \in Nat
  BY Zenon, CellFields
<1>2. IF a < p THEN C[p - a].kind = "cmsg" /\ a <= C[p - a].a ELSE p <= r
  BY Zenon DEF Whole
<1> QED
  BY <1>1, <1>2

LEMMA CellFacts ==
  ASSUME NEW kind, NEW a, NEW b
  PROVE  Cell(kind, a, b).kind = kind /\ Cell(kind, a, b).a = a
BY Zenon DEF Cell

\* A descriptor stays with its message where the cells up to v do, but for headers.
LEMMA FdStays ==
  ASSUME NEW C, NEW u \in Nat, IsRow(C, u), NEW s, NEW r, Whole(C, u, s, r),
         NEW D, NEW v \in Nat, v <= u,
         \A q \in 0..v - 1 : D[q] = C[q] \/ (C[q].kind = "header" /\ D[q].kind = "header"),
         NEW p \in 0..v - 1, D[p].kind = "fd"
  PROVE  IF D[p].a < p THEN D[p - D[p].a].kind = "cmsg" /\ D[p].a <= D[p - D[p].a].a
         ELSE p <= r
<1>1. p \in 0..u - 1
  OBVIOUS
<1>2. PICK a : a = C[p].a
  BY Zenon
<1>3. D[p] = C[p] /\ C[p].kind = "fd" /\ D[p].a = a
  BY Zenon, <1>1, <1>2
<1>4. /\ a \in Nat
      /\ IF a < p THEN p - a \in 0..u - 1 /\ C[p - a].kind = "cmsg" /\ a <= C[p - a].a
         ELSE p <= r
  BY Zenon, <1>1, <1>2, <1>3, WholeFd
<1>5. CASE a < p
  <2>1. PICK q \in 0..v - 1 : q = p - a
    BY <1>4, <1>5
  <2>2. C[q].kind = "cmsg" /\ a <= C[q].a
    BY Zenon, <1>4, <1>5, <2>1
  <2>3. D[q] = C[q]
    BY Zenon, <2>1, <2>2
  <2> QED
    BY Zenon, <1>3, <1>5, <2>1, <2>2, <2>3
<1>6. CASE ~(a < p)
  BY Zenon, <1>3, <1>4, <1>6
<1> QED
  BY Zenon, <1>5, <1>6

\* A row that grows by no control data, while headers change.
LEMMA AddWhole ==
  ASSUME NEW C, NEW u \in Nat, IsRow(C, u), NEW r, Whole(C, u, u, r),
         NEW D, NEW v \in Nat, u <= v,
         \A q \in 0..u - 1 : D[q] = C[q] \/ (C[q].kind = "header" /\ D[q].kind = "header"),
         \A q \in u..v - 1 : D[q].kind \notin {"cmsg", "fd"}
  PROVE  Whole(D, v, v, r)
<1>1. ASSUME NEW p \in 0..v - 1, D[p].kind = "cmsg", NEW k \in 1..D[p].a
      PROVE  IF p + k < v THEN D[p + k] = Cell("fd", k, 0) ELSE p = v
  <2>1. p \in 0..u - 1
    BY <1>1
  <2>2. D[p] = C[p] /\ C[p].kind = "cmsg" /\ k \in 1..C[p].a /\ C[p].a \in Nat
    BY Zenon, <1>1, <2>1, CellFields
  <2>3. PICK q : q = p + k
    BY Zenon
  <2>4. IF q < u THEN q \in 0..u - 1 /\ C[q] = Cell("fd", k, 0) ELSE p = u
    BY <2>1, <2>2, <2>3, WholeCmsg
  <2>5. q \in 0..u - 1 /\ C[q] = Cell("fd", k, 0) /\ q < u
    BY <2>1, <2>4
  <2>6. D[q] = C[q]
    BY <2>5, CellFacts
  <2> QED
    BY <2>3, <2>5, <2>6
<1>2. ASSUME NEW p \in 0..v - 1, D[p].kind = "fd"
      PROVE  IF D[p].a < p THEN D[p - D[p].a].kind = "cmsg" /\ D[p].a <= D[p - D[p].a].a
             ELSE p <= r
  <2>1. p \in 0..u - 1
    BY <1>2
  <2> QED
    BY <1>2, <2>1, FdStays
<1> QED
  BY Zenon, <1>1, <1>2 DEF Whole

\* sendmsg enqueues the header of a control message: its descriptors follow.
LEMMA CmsgWhole ==
  ASSUME NEW C, NEW u \in Nat, IsRow(C, u), Whole(C, u, u, 0),
         NEW D, NEW s \in Nat, u <= s, NEW v, v = s + 1, IsRow(D, v),
         \A q \in 0..u - 1 : D[q] = C[q] \/ (C[q].kind = "header" /\ D[q].kind = "header"),
         \A q \in u..s - 1 : D[q].kind = "header",
         D[s].kind = "cmsg"
  PROVE  Whole(D, v, s, 0)
<1>1. Whole(D, s, s, 0)
  BY Zenon, AddWhole
<1>2. ASSUME NEW p \in 0..v - 1, D[p].kind = "cmsg", NEW k \in 1..D[p].a
      PROVE  IF p + k < v THEN D[p + k] = Cell("fd", k, 0) ELSE p = s
  <2>1. D[p].a \in Nat /\ k \in Nat /\ k >= 1
    BY <1>2, CellFields
  <2>2. CASE p = s
    BY <2>1, <2>2
  <2>3. CASE p # s
    <3>1. p \in 0..s - 1
      BY <2>3
    <3>2. PICK q : q = p + k
      BY Zenon
    <3>3. IF q < s THEN D[q] = Cell("fd", k, 0) ELSE p = s
      BY Zenon, <1>1, <1>2, <3>1, <3>2 DEF Whole
    <3> QED
      BY <2>1, <3>1, <3>2, <3>3
  <2> QED
    BY Zenon, <2>2, <2>3
<1>3. ASSUME NEW p \in 0..v - 1, D[p].kind = "fd"
      PROVE  IF D[p].a < p THEN D[p - D[p].a].kind = "cmsg" /\ D[p].a <= D[p - D[p].a].a
             ELSE p <= 0
  <2>1. p \in 0..s - 1
    BY <1>3
  <2> QED
    BY Zenon, <1>1, <1>3, <2>1 DEF Whole
<1> QED
  BY Zenon, <1>2, <1>3 DEF Whole

\* sendmsg enqueues the next descriptor of the message at s.
LEMMA FdWhole ==
  ASSUME NEW C, NEW u \in Nat, IsRow(C, u), NEW i \in Nat, i + 1 < u,
         NEW s, s = u - 1 - i, Whole(C, u, s, 0),
         C[s].kind = "cmsg", i < C[s].a,
         NEW D, NEW v, v = u + 1, IsRow(D, v),
         \A q \in 0..u - 1 : D[q] = C[q] \/ (C[q].kind = "header" /\ D[q].kind = "header"),
         D[u] = Cell("fd", i + 1, 0)
  PROVE  Whole(D, v, s, 0)
<1>0. s \in 0..u - 1 /\ s > 0 /\ s + i + 1 = u /\ D[s] = C[s]
  <2>1. s \in 0..u - 1 /\ s > 0 /\ s + i + 1 = u
    OBVIOUS
  <2> QED
    BY Zenon, <2>1
<1>1. ASSUME NEW p \in 0..v - 1, D[p].kind = "cmsg", NEW k \in 1..D[p].a
      PROVE  IF p + k < v THEN D[p + k] = Cell("fd", k, 0) ELSE p = s
  <2>1. p \in 0..u - 1
    BY <1>1, CellFacts
  <2>2. D[p] = C[p] /\ C[p].kind = "cmsg" /\ k \in 1..C[p].a /\ C[p].a \in Nat
    BY Zenon, <1>1, <2>1, CellFields
  <2>3. PICK q : q = p + k
    BY Zenon
  <2>4. IF q < u THEN q \in 0..u - 1 /\ C[q] = Cell("fd", k, 0) ELSE p = s
    BY SMTT(30), <1>0, <2>1, <2>2, <2>3, WholeCmsg
  <2>5. CASE q < u
    <3>1. D[q] = C[q]
      BY <2>4, <2>5, CellFacts
    <3> QED
      BY <2>3, <2>4, <2>5, <3>1
  <2>6. CASE q = u
    <3>1. p = s
      BY <2>1, <2>2, <2>3, <2>4, <2>6
    <3>2. k = i + 1
      BY SMTT(30), <1>0, <2>2, <2>3, <2>6, <3>1
    <3> QED
      BY Zenon, <2>3, <2>6, <3>1, <3>2
  <2>7. CASE q > u
    BY <2>1, <2>2, <2>3, <2>4, <2>7
  <2> QED
    BY SMTT(30), <2>1, <2>2, <2>3, <2>5, <2>6, <2>7
<1>2. ASSUME NEW p \in 0..v - 1, D[p].kind = "fd"
      PROVE  IF D[p].a < p THEN D[p - D[p].a].kind = "cmsg" /\ D[p].a <= D[p - D[p].a].a
             ELSE p <= 0
  <2>1. CASE p = u
    <3>1. D[p].a = i + 1
      BY <2>1, CellFacts
    <3>2. C[s].a \in Nat
      BY Zenon, <1>0, CellFields
    <3>3. p - D[p].a = s /\ D[p].a < p /\ i + 1 <= C[s].a
      BY SMTT(30), <1>0, <2>1, <3>1, <3>2
    <3> QED
      BY Zenon, <1>0, <3>1, <3>3
  <2>2. CASE p # u
    <3>1. p \in 0..u - 1
      BY <2>2
    <3> QED
      BY SMTT(30), <1>2, <3>1, FdStays
  <2> QED
    BY Zenon, <2>1, <2>2
<1> QED
  BY Zenon, <1>1, <1>2 DEF Whole

\* sendmsg takes back the last descriptor of the message at s.
LEMMA UndoFdWhole ==
  ASSUME NEW C, NEW u \in Nat, IsRow(C, u), NEW i \in Nat, i > 0, i + 1 < u,
         NEW s, s = u - 1 - i, Whole(C, u, s, 0), C[s].kind = "cmsg", i <= C[s].a,
         NEW D, NEW v, v = u - 1,
         \A q \in 0..v - 1 : D[q] = C[q] \/ (C[q].kind = "header" /\ D[q].kind = "header")
  PROVE  Whole(D, v, s, 0)
<1>0. s \in 0..u - 1 /\ s + i = u - 1 /\ v \in Nat /\ v = u - 1
  OBVIOUS
<1>1. C[v] = Cell("fd", i, 0)
  <2>1. C[s].a \in Nat /\ i \in 1..C[s].a
    BY <1>0, CellFields
  <2>2. v = s + i /\ v < u
    BY <1>0
  <2> QED
    BY <1>0, <2>1, <2>2, WholeCmsg
<1>2. ASSUME NEW p \in 0..v - 1, D[p].kind = "cmsg", NEW k \in 1..D[p].a
      PROVE  IF p + k < v THEN D[p + k] = Cell("fd", k, 0) ELSE p = s
  <2>1. p \in 0..u - 1
    BY <1>0
  <2>2. D[p] = C[p] /\ C[p].kind = "cmsg" /\ k \in 1..C[p].a /\ C[p].a \in Nat
    BY Zenon, <1>2, <2>1, CellFields
  <2>3. PICK q : q = p + k
    BY Zenon
  <2>4. IF q < u THEN q \in 0..u - 1 /\ C[q] = Cell("fd", k, 0) ELSE p = s
    BY SMTT(30), <1>0, <2>1, <2>2, <2>3, WholeCmsg
  <2>5. CASE q < v
    <3>1. q \in 0..v - 1 /\ C[q] = Cell("fd", k, 0)
      BY SMTT(30), <1>0, <2>2, <2>3, <2>4, <2>5
    <3>2. D[q] = C[q]
      BY <3>1, CellFacts
    <3> QED
      BY Zenon, <2>3, <2>5, <3>1, <3>2
  <2>6. CASE q = v
    <3>1. Cell("fd", k, 0) = Cell("fd", i, 0)
      BY SMTT(30), <1>0, <1>1, <2>4, <2>6
    <3>2. k = i
      BY <3>1, CellFacts
    <3> QED
      BY SMTT(30), <1>0, <2>1, <2>3, <2>6, <3>2
  <2>7. CASE q > v
    BY SMTT(30), <1>0, <2>1, <2>2, <2>3, <2>4, <2>7
  <2> QED
    BY SMTT(30), <1>0, <2>1, <2>2, <2>3, <2>5, <2>6, <2>7
<1>3. ASSUME NEW p \in 0..v - 1, D[p].kind = "fd"
      PROVE  IF D[p].a < p THEN D[p - D[p].a].kind = "cmsg" /\ D[p].a <= D[p - D[p].a].a
             ELSE p <= 0
  BY SMTT(30), <1>0, <1>3, FdStays
<1> QED
  BY Zenon, <1>2, <1>3 DEF Whole

\* sendmsg takes back the control message itself, and the header it brought.
LEMMA UndoCmsgWhole ==
  ASSUME NEW C, NEW u \in Nat, IsRow(C, u), NEW s \in Nat, s = u - 1, Whole(C, u, s, 0),
         NEW D, NEW v \in Nat, v < u,
         \A q \in v..u - 1 : C[q].kind # "fd",
         \A q \in 0..v - 1 : D[q] = C[q] \/ (C[q].kind = "header" /\ D[q].kind = "header")
  PROVE  Whole(D, v, v, 0)
<1>1. ASSUME NEW p \in 0..v - 1, D[p].kind = "cmsg", NEW k \in 1..D[p].a
      PROVE  IF p + k < v THEN D[p + k] = Cell("fd", k, 0) ELSE p = v
  <2>1. p \in 0..u - 1 /\ p # s
    OBVIOUS
  <2>2. D[p] = C[p] /\ C[p].kind = "cmsg" /\ k \in 1..C[p].a /\ C[p].a \in Nat
    BY Zenon, <1>1, <2>1, CellFields
  <2>3. PICK q : q = p + k
    BY Zenon
  <2>4. q \in 0..u - 1 /\ C[q] = Cell("fd", k, 0)
    BY <2>1, <2>2, <2>3, WholeCmsg
  <2>5. q \in 0..v - 1
    BY <2>4, CellFacts
  <2>6. D[q] = C[q]
    BY SMTT(30), <2>4, <2>5, CellFacts
  <2> QED
    BY <2>3, <2>4, <2>5, <2>6
<1>2. ASSUME NEW p \in 0..v - 1, D[p].kind = "fd"
      PROVE  IF D[p].a < p THEN D[p - D[p].a].kind = "cmsg" /\ D[p].a <= D[p - D[p].a].a
             ELSE p <= 0
  BY <1>2, FdStays
<1> QED
  BY Zenon, <1>1, <1>2 DEF Whole

\* recvmsg takes n cells off the front.
LEMMA TakeWhole ==
  ASSUME NEW C, NEW u \in Nat, IsRow(C, u), NEW r, Whole(C, u, u, r),
         NEW n \in Nat \ {0}, NEW D, NEW v \in Nat, v = u - n, NEW r2,
         v > 0 => D[0].kind = "header",
         \A q \in 1..v - 1 : D[q] = C[q + n],
         \A p \in 1..v - 1 : C[p + n].kind = "fd" /\ ~(C[p + n].a < p) => p <= r2
  PROVE  Whole(D, v, v, r2)
<1>1. ASSUME NEW p \in 0..v - 1, D[p].kind = "cmsg", NEW k \in 1..D[p].a
      PROVE  IF p + k < v THEN D[p + k] = Cell("fd", k, 0) ELSE p = v
  <2>1. p \in 1..v - 1
    BY <1>1
  <2>2. PICK x : x = p + n
    BY Zenon
  <2>3. x \in 0..u - 1 /\ D[p] = C[x]
    BY <2>1, <2>2
  <2>4. C[x].kind = "cmsg" /\ k \in 1..C[x].a /\ C[x].a \in Nat
    BY Zenon, <1>1, <2>3, CellFields
  <2>5. PICK y : y = x + k
    BY Zenon
  <2>6. y \in 0..u - 1 /\ C[y] = Cell("fd", k, 0)
    BY SMTT(30), <2>3, <2>4, <2>5, WholeCmsg
  <2>7. PICK q : q = p + k
    BY Zenon
  <2>8. q \in 1..v - 1 /\ q + n = y
    BY SMTT(30), <2>1, <2>2, <2>4, <2>5, <2>6, <2>7
  <2>9. D[q] = C[y]
    BY Zenon, <2>8
  <2> QED
    BY SMTT(30), <2>6, <2>7, <2>8, <2>9
<1>2. ASSUME NEW p \in 0..v - 1, D[p].kind = "fd"
      PROVE  IF D[p].a < p THEN D[p - D[p].a].kind = "cmsg" /\ D[p].a <= D[p - D[p].a].a
             ELSE p <= r2
  <2>1. p \in 1..v - 1
    BY <1>2
  <2>2. PICK x : x = p + n
    BY Zenon
  <2>3. x \in 0..u - 1 /\ D[p] = C[x] /\ C[x].kind = "fd"
    BY <1>2, <2>1, <2>2
  <2>4. PICK a : a = C[x].a
    BY Zenon
  <2>5. /\ a \in Nat
        /\ IF a < x THEN x - a \in 0..u - 1 /\ C[x - a].kind = "cmsg" /\ a <= C[x - a].a
           ELSE x <= r
    BY Zenon, <2>3, <2>4, WholeFd
  <2>6. D[p].a = a
    BY Zenon, <2>3, <2>4
  <2>7. CASE a < p
    <3>1. PICK q \in 1..v - 1 : q = p - a
      BY <2>1, <2>5, <2>7
    <3>2. q + n = x - a /\ a < x
      BY <2>1, <2>2, <2>5, <2>7, <3>1
    <3>3. D[q] = C[x - a]
      BY Zenon, <3>1, <3>2
    <3> QED
      BY Zenon, <2>5, <2>6, <2>7, <3>1, <3>2, <3>3
  <2>8. CASE ~(a < p)
    BY Zenon, <2>1, <2>2, <2>3, <2>4, <2>6, <2>8
  <2> QED
    BY Zenon, <2>7, <2>8
<1> QED
  BY Zenon, <1>1, <1>2 DEF Whole

\* The steps of a call that are in the middle of control data.
InControl == {"send_fd", "send_undo", "recv_ancillary"}

\* Control data is whole while nobody is in the middle of it.  For a writer only
\* the last message is not, with local.i of its descriptors put; for a reader what
\* is left of the first segment's local.i cells may begin amid a message.
ControlAt(step, l) ==
  IF step \in {"send_fd", "send_undo"}
  THEN /\ l.i + 1 < buffer_used
       /\ Cells[buffer_used - 1 - l.i] = Cell("cmsg", l.fds, 0)
       /\ Whole(Cells, buffer_used, buffer_used - 1 - l.i, 0)
  ELSE Whole(Cells, buffer_used, buffer_used, IF step = "recv_ancillary" THEN l.i ELSE 0)

AllWhole == Whole(Cells, buffer_used, buffer_used, 0)

ControlInv ==
  IF pipe_lock = NULL THEN AllWhole ELSE ControlAt(pc[pipe_lock], local[pipe_lock])

LEMMA WholeBefore ==
  ASSUME ControlInv, NEW t \in Threads, pipe_lock \in {t, NULL},
         pipe_lock = t => pc[t] \notin InControl
  PROVE  AllWhole
BY Zenon DEF ControlInv, ControlAt, AllWhole, InControl

LEMMA WholeAfter ==
  ASSUME AllWhole', NEW t \in Threads, pipe_lock' \in {t, NULL},
         pipe_lock' = t => pc'[t] \notin InControl
  PROVE  ControlInv'
BY Zenon DEF ControlInv, ControlAt, AllWhole, InControl

LEMMA QuietWhole ==
  ASSUME PipeInv, AllWhole, UNCHANGED ring
  PROVE  AllWhole'
BY Zenon, QuietRing DEF AllWhole, ring

\* A step that leaves the ring alone and is not among control data.
LEMMA QuietControl ==
  ASSUME PipeInv, ControlInv, NEW t \in Threads, UNCHANGED ring,
         pipe_lock \in {t, NULL}, pipe_lock = t => pc[t] \notin InControl,
         pipe_lock' \in {t, NULL}, pipe_lock' = t => pc'[t] \notin InControl
  PROVE  ControlInv'
BY Zenon, WholeBefore, QuietWhole, WholeAfter

LEMMA RecvFirstControl ==
  ASSUME PipeInv, ControlInv, NEW r \in Readers, RecvFirst(r)
  PROVE  ControlInv'
<1>1. /\ r \in Threads /\ pc[r] = "recv_first" /\ pipe_lock = r /\ r # NULL
      /\ pc \in [Threads -> Steps] /\ local[r] \in LocalType
      /\ local \in [Threads -> LocalType]
      /\ UNCHANGED ring
  BY Zenon, PipeAssumption
  DEF RecvFirst, YieldRead, WaitRead, Threads, Unlocked, RecvPledged, SendPledged, PipeInv,
      Types, Locked
<1>2. CASE pipe_lock' = NULL
  BY Zenon, <1>1, <1>2, QuietControl DEF InControl
<1>3. CASE /\ buffer_used > 0
           /\ Goto(r, "recv_ancillary", [local[r] EXCEPT !.normal = ReadBuffer(0).b,
                                                         !.i = ReadBuffer(0).a])
  <2>1. PICK i : i = ReadBuffer(0).a
    BY Zenon
  <2>2. i \in Nat
    BY Zenon, <1>3, <2>1, FirstHeader
  <2>3. pc'[r] = "recv_ancillary" /\ local'[r].i = i /\ pipe_lock' = r
    BY Zenon, <1>1, <1>3, <2>1 DEF Goto, LocalType
  <2>4. AllWhole'
    BY Zenon, <1>1, WholeBefore, QuietWhole DEF InControl
  <2>5. Whole(Cells, buffer_used, buffer_used, i)'
    BY <2>2, <2>4 DEF AllWhole, Whole
  <2> QED
    BY Zenon, <1>1, <2>3, <2>5 DEF ControlInv, ControlAt
<1> QED
  BY Zenon, <1>2, <1>3 DEF RecvFirst, Return, Release, YieldRead, WaitRead

LEMMA ResumeControl ==
  ASSUME PipeInv, ControlInv, NEW t \in Threads,
         \/ RecvFirstResume(t) \/ RecvNormalResume(t)
         \/ SendRoomResume(t) \/ SendNormalResume(t)
  PROVE  ControlInv'
<1>1. /\ pipe_lock = NULL /\ UNCHANGED ring /\ pc \in [Threads -> Steps] /\ t # NULL
  BY Zenon, PipeAssumption
  DEF RecvFirstResume, RecvNormalResume, SendRoomResume, SendNormalResume, Reenter, PipeInv,
      Types, Threads
<1>2. /\ pipe_lock' \in {t, NULL} /\ (pipe_lock' = t => pc'[t] \notin InControl)
  BY Zenon, <1>1
    DEF RecvFirstResume, RecvNormalResume, SendRoomResume, SendNormalResume, Return,
    Release, InControl
<1> QED
  BY Zenon, <1>1, <1>2, QuietControl

\* After one cell of the first segment's control data is taken, a descriptor whose
\* message was there is still within that control data.
LEMMA AncillaryFront ==
  ASSUME NEW C, NEW u \in Nat, IsRow(C, u), Segment(C, u, 0),
         NEW i \in Nat \ {0}, NEW m \in Nat, C[0].a = i, C[0].b = m, Whole(C, u, u, i),
         NEW n \in Nat, n = IF i - 1 + m > 0 THEN 1 ELSE 2,
         NEW p \in Nat \ {0}, p + n < u, C[p + n].kind = "fd", ~(C[p + n].a < p)
  PROVE  p <= i - 1
<1>1. PICK e : e = i + 1
  BY Zenon
<1>2. e < u => C[e].kind \in {"byte", "header"}
  <2>1. CASE m > 0
    <3>1. e \in 0 + C[0].a + 1..End(C, 0) - 1
      BY <1>1, <2>1 DEF End
    <3> QED
      BY Zenon, <3>1 DEF Segment
  <2>2. CASE m = 0
    <3>1. End(C, 0) = e
      BY <1>1, <2>2 DEF End
    <3> QED
      BY Zenon, <3>1 DEF Segment, IsHeader
  <2> QED
    BY <2>1, <2>2
<1>3. PICK x : x = p + n
  BY Zenon
<1>4. PICK a : a = C[x].a
  BY Zenon
<1>5. /\ x \in 0..u - 1 /\ C[x].kind = "fd" /\ ~(a < p) /\ n \in {1, 2}
  BY <1>3, <1>4
<1>6. /\ a \in Nat
      /\ IF a < x THEN x - a \in 0..u - 1 /\ C[x - a].kind = "cmsg" /\ a <= C[x - a].a
         ELSE x <= i
  BY Zenon, <1>4, <1>5, WholeFd
<1>7. CASE ~(a < x)
  BY <1>3, <1>5, <1>6, <1>7
<1>8. CASE a < x
  <2>1. PICK y \in 1..n : y = x - a
    BY <1>3, <1>5, <1>6, <1>8
  <2>2. y \in 0..u - 1 /\ C[y].kind = "cmsg" /\ a <= C[y].a /\ C[y].a \in Nat
    BY Zenon, <1>6, <1>8, <2>1, CellFields
  <2>3. CASE y = 1
    <3>1. SUFFICES ASSUME p >= i
                   PROVE  FALSE
      OBVIOUS
    <3>2. e < u /\ e = y + i /\ i <= a
      BY SMTT(30), <1>1, <1>3, <1>5, <1>6, <2>1, <2>3, <3>1
    <3>3. i \in 1..C[y].a
      BY SMTT(30), <1>6, <2>2, <3>2
    <3>4. C[e] = Cell("fd", i, 0)
      BY <2>2, <3>2, <3>3, WholeCmsg
    <3> QED
      BY SMTT(30), <1>2, <3>2, <3>4, CellFacts
  <2>4. CASE y # 1
    <3>1. y = e /\ e < u
      BY SMTT(30), <1>1, <1>5, <2>1, <2>2, <2>4
    <3> QED
      BY Zenon, <1>2, <2>2, <3>1
  <2> QED
    BY Zenon, <2>3, <2>4
<1> QED
  BY Zenon, <1>7, <1>8

\* The bytes that are taken hold no control message.
LEMMA BytesFront ==
  ASSUME NEW C, NEW u \in Nat, IsRow(C, u), Segment(C, u, 0),
         NEW m \in Nat, C[0].a = 0, C[0].b = m, Whole(C, u, u, 0),
         NEW k \in 1..m, NEW n \in Nat, n = IF m - k > 0 THEN k ELSE k + 1,
         NEW p \in Nat \ {0}, p + n < u, C[p + n].kind = "fd", ~(C[p + n].a < p)
  PROVE  FALSE
<1>1. PICK x : x = p + n
  BY Zenon
<1>2. PICK a : a = C[x].a
  BY Zenon
<1>3. /\ x \in 0..u - 1 /\ C[x].kind = "fd" /\ ~(a < p) /\ ~(x <= 0)
  BY <1>1, <1>2
<1>4. /\ a \in Nat
      /\ IF a < x THEN x - a \in 0..u - 1 /\ C[x - a].kind = "cmsg" /\ a <= C[x - a].a
         ELSE x <= 0
  BY Zenon, <1>2, <1>3, WholeFd
<1>5. PICK y \in 1..n : y = x - a
  BY <1>1, <1>3, <1>4
<1>6. y \in 0..u - 1 /\ C[y].kind = "cmsg"
  BY Zenon, <1>3, <1>4, <1>5
<1>7. CASE y <= m
  <2>1. y \in 0 + C[0].a + 1..End(C, 0) - 1
    BY <1>5, <1>7 DEF End
  <2> QED
    BY Zenon, <1>6, <2>1 DEF Segment
<1>8. CASE y > m
  <2>1. End(C, 0) = y /\ y < u
    BY <1>5, <1>6, <1>8 DEF End
  <2> QED
    BY Zenon, <1>6, <2>1 DEF Segment, IsHeader
<1> QED
  BY <1>5, <1>7, <1>8

LEMMA RecvAncillaryControl ==
  ASSUME PipeInv, ControlInv, NEW r \in Readers, RecvAncillary(r)
  PROVE  ControlInv'
<1>1. /\ r \in Threads /\ pc[r] = "recv_ancillary" /\ pipe_lock = r /\ r # NULL
      /\ pc \in [Threads -> Steps] /\ local[r] \in LocalType
      /\ local \in [Threads -> LocalType]
  BY Zenon, PipeAssumption
  DEF RecvAncillary, Threads, Unlocked, RecvPledged, SendPledged, PipeInv, Types, Locked
<1>2. PICK i \in Nat, m \in Nat : i = local[r].i /\ m = local[r].normal
  BY Zenon, <1>1, LocalFields
<1>3. /\ Whole(Cells, buffer_used, buffer_used, i)
      /\ i + m > 0 => buffer_used > 0 /\ Cells[0] = Header(i, m)
  BY Zenon, <1>1, <1>2 DEF ControlInv, ControlAt, PipeInv, CountsOn, Receiving
<1>4. CASE i > 0 /\ Dequeue(1)
  <2>1. /\ buffer_used > 0 /\ Cells[0].a = i /\ Cells[0].b = m
        /\ Less(Cells[0], 1) = Header(i - 1, m)
    BY SMTT(30), <1>3, <1>4, HeaderFields DEF Less
  <2>2. /\ Types /\ Parsed(Cells, buffer_used, last_header_position)
        /\ 1 \in Nat \ {0} /\ 1 <= IF Cells[0].a > 0 THEN Cells[0].a ELSE Cells[0].b
    BY <1>4, <2>1 DEF PipeInv
  <2>3. PICK n : n = Shift(1)
    BY Zenon
  <2>4. /\ n \in 1..buffer_used /\ buffer_used' = buffer_used - n
        /\ Parsed(Cells', buffer_used', last_header_position')
        /\ \A q \in 0..buffer_used' - 1 :
              (NonEmpty(Less(Cells[0], 1)) => q # 0) => Cells'[q] = Cells[q + n]
    BY Zenon, <1>4, <2>1, <2>2, <2>3, DequeueRow
  <2>5. n = IF i - 1 + m > 0 THEN 1 ELSE 2
    BY SMTT(30), <1>4, <2>1, <2>3, HeaderFields DEF Shift, NonEmpty
  <2>6. /\ buffer_used \in Nat /\ IsRow(Cells, buffer_used) /\ Segment(Cells, buffer_used, 0)
    BY <2>1, <2>2 DEF Parsed
  <2>7. /\ buffer_used' \in Nat /\ (buffer_used' > 0 => Cells'[0].kind = "header")
        /\ n \in Nat \ {0}
    BY <2>4, <2>6 DEF Parsed, IsHeader
  <2>8. \A q \in 1..buffer_used' - 1 : Cells'[q] = Cells[q + n]
    BY <2>4, <2>7
  <2>9. ASSUME NEW p \in 1..buffer_used' - 1, Cells[p + n].kind = "fd", ~(Cells[p + n].a < p)
        PROVE  p <= i - 1
    <3>1. p \in Nat \ {0} /\ p + n < buffer_used
      BY <2>4, <2>6, <2>7
    <3>2. PICK C, u : C = Cells /\ u = buffer_used
      BY Zenon
    <3>3. /\ u \in Nat /\ IsRow(C, u) /\ Segment(C, u, 0) /\ Whole(C, u, u, i)
          /\ C[0].a = i /\ C[0].b = m /\ i \in Nat \ {0} /\ n \in Nat
          /\ p + n < u /\ C[p + n].kind = "fd" /\ ~(C[p + n].a < p)
      BY SMTT(30), <1>3, <1>4, <2>1, <2>6, <2>7, <2>9, <3>1, <3>2
    <3> QED
      BY Zenon, <2>5, <3>1, <3>3, AncillaryFront
  <2>10. PICK C, D, u, v, j : /\ C = Cells /\ D = Cells' /\ u = buffer_used /\ v = buffer_used'
                              /\ j = i - 1
    BY Zenon
  <2>11. Whole(D, v, v, j)
    BY Zenon, <1>3, <2>4, <2>6, <2>7, <2>8, <2>9, <2>10, TakeWhole
  <2>12. Whole(Cells, buffer_used, buffer_used, j)'
    BY Zenon, <2>10, <2>11 DEF Whole
  <2>13. CASE Goto(r, "recv_ancillary", [local[r] EXCEPT !.i = @ - 1])
    <3>1. pc'[r] = "recv_ancillary" /\ local'[r].i = j /\ pipe_lock' = r
      BY Zenon, <1>1, <1>2, <2>10, <2>13 DEF Goto, LocalType
    <3> QED
      BY Zenon, <1>1, <2>12, <3>1 DEF ControlInv, ControlAt
  <2>14. CASE i = 1 /\ Return(r)
    <3>1. pipe_lock' = NULL /\ j = 0
      BY <2>10, <2>14 DEF Return, Release
    <3> QED
      BY Zenon, <2>12, <3>1 DEF ControlInv, AllWhole
  <2> QED
    BY SMTT(30), <1>2, <1>4, <2>13, <2>14 DEF RecvAncillary
<1>5. CASE i = 0 /\ Goto(r, "recv_normal", local[r]) /\ UNCHANGED ring
  <2>1. AllWhole
    BY Zenon, <1>3, <1>5 DEF AllWhole
  <2>2. pc'[r] = "recv_normal" /\ pipe_lock' = r
    BY Zenon, <1>1, <1>5 DEF Goto
  <2> QED
    BY Zenon, <1>1, <1>5, <2>1, <2>2, QuietWhole, WholeAfter DEF InControl
<1> QED
  BY Zenon, <1>2, <1>4, <1>5 DEF RecvAncillary

LEMMA RecvNormalControl ==
  ASSUME PipeInv, ControlInv, NEW r \in Readers, RecvNormal(r)
  PROVE  ControlInv'
<1>1. /\ r \in Threads /\ pc[r] = "recv_normal" /\ pipe_lock = r /\ r # NULL
      /\ pc \in [Threads -> Steps] /\ local[r] \in LocalType
  BY Zenon, PipeAssumption
  DEF RecvNormal, Threads, Unlocked, RecvPledged, SendPledged, PipeInv, Types, Locked
<1>2. CASE pipe_lock' = NULL /\ UNCHANGED ring
  BY Zenon, <1>1, <1>2, QuietControl DEF InControl
<1>3. CASE /\ local[r].count > 0 /\ local[r].normal > 0
           /\ Dequeue(Smaller(local[r].count, local[r].normal))
           /\ pc' = [pc EXCEPT ![r] = "recv_normal"] /\ UNCHANGED pipe_lock
  <2>1. PICK m \in Nat \ {0} : m = local[r].normal
    BY <1>1, <1>3, LocalFields
  <2>2. PICK k : k = Smaller(local[r].count, local[r].normal)
    BY Zenon
  <2>3. k \in 1..m /\ k \in Nat \ {0} /\ Dequeue(k)
    BY SMTT(30), <1>1, <1>3, <2>1, <2>2, LocalFields DEF Smaller
  <2>4. /\ buffer_used > 0 /\ Cells[0].a = 0 /\ Cells[0].b = m
        /\ Less(Cells[0], k) = Header(0, m - k)
    BY SMTT(30), <1>1, <1>3, <2>1, <2>3, HeaderFields
       DEF Less, PipeInv, CountsOn, Receiving
  <2>5. /\ Types /\ Parsed(Cells, buffer_used, last_header_position)
        /\ k <= IF Cells[0].a > 0 THEN Cells[0].a ELSE Cells[0].b
    BY <2>3, <2>4 DEF PipeInv
  <2>6. PICK n : n = Shift(k)
    BY Zenon
  <2>7. /\ n \in 1..buffer_used /\ buffer_used' = buffer_used - n
        /\ Parsed(Cells', buffer_used', last_header_position')
        /\ \A q \in 0..buffer_used' - 1 :
              (NonEmpty(Less(Cells[0], k)) => q # 0) => Cells'[q] = Cells[q + n]
    BY Zenon, <2>3, <2>4, <2>5, <2>6, DequeueRow
  <2>8. n = IF m - k > 0 THEN k ELSE k + 1
    BY SMTT(30), <2>3, <2>4, <2>6, HeaderFields DEF Shift, NonEmpty
  <2>9. /\ buffer_used \in Nat /\ IsRow(Cells, buffer_used) /\ Segment(Cells, buffer_used, 0)
    BY <2>4, <2>5 DEF Parsed
  <2>10. /\ buffer_used' \in Nat /\ (buffer_used' > 0 => Cells'[0].kind = "header")
         /\ n \in Nat \ {0}
    BY <2>7, <2>9 DEF Parsed, IsHeader
  <2>11. PICK C, D, u, v : C = Cells /\ D = Cells' /\ u = buffer_used /\ v = buffer_used'
    BY Zenon
  <2>12. Whole(C, u, u, 0)
    BY Zenon, <1>1, <2>11, WholeBefore DEF InControl, AllWhole
  <2>13. /\ u \in Nat /\ IsRow(C, u) /\ Segment(C, u, 0) /\ C[0].a = 0 /\ C[0].b = m
         /\ v \in Nat /\ v = u - n /\ (v > 0 => D[0].kind = "header")
    BY Zenon, <2>4, <2>7, <2>9, <2>10, <2>11
  <2>14. \A q \in 1..v - 1 : D[q] = C[q + n]
    BY <2>7, <2>10, <2>11
  <2>15. ASSUME NEW p \in 1..v - 1, C[p + n].kind = "fd", ~(C[p + n].a < p)
         PROVE  FALSE
    <3>1. p \in Nat \ {0} /\ p + n < u
      BY <2>10, <2>13
    <3> QED
      BY ZenonT(30), <2>1, <2>3, <2>8, <2>10, <2>12, <2>13, <2>15, <3>1, BytesFront
  <2>16. PICK j : j = 0
    BY Zenon
  <2>17. Whole(D, v, v, j)
    BY SMTT(30), <2>10, <2>12, <2>13, <2>14, <2>15, TakeWhole
  <2>18. AllWhole'
    BY Zenon, <2>11, <2>16, <2>17 DEF AllWhole, Whole
  <2> QED
    BY Zenon, <1>1, <1>3, <2>18, WholeAfter DEF InControl
<1> QED
  BY Zenon, <1>2, <1>3
     DEF RecvNormal, Return, Release, YieldRead, WaitRead, Goto

LEMMA SendRoomControl ==
  ASSUME PipeInv, ControlInv, NEW w \in Writers, SendRoom(w)
  PROVE  ControlInv'
<1>1. /\ w \in Threads /\ pc[w] = "send_room" /\ pipe_lock = w /\ w # NULL
      /\ pc \in [Threads -> Steps] /\ UNCHANGED ring
  BY Zenon, PipeAssumption
  DEF SendRoom, Threads, Unlocked, RecvPledged, SendPledged, PipeInv, Types, Locked
<1>2. /\ pipe_lock' \in {w, NULL} /\ (pipe_lock' = w => pc'[w] \notin InControl)
  BY Zenon, <1>1 DEF SendRoom, Return, Release, Goto, InControl
<1> QED
  BY Zenon, <1>1, <1>2, QuietControl DEF InControl

\* All descriptors of the last message are sent.
LEMMA SentWhole ==
  ASSUME NEW C, NEW u \in Nat, NEW i \in Nat, i + 1 < u, NEW s, s = u - 1 - i,
         Whole(C, u, s, 0), C[s].a = i
  PROVE  Whole(C, u, u, 0)
<1>1. ASSUME NEW p \in 0..u - 1, C[p].kind = "cmsg", NEW k \in 1..C[p].a
      PROVE  IF p + k < u THEN C[p + k] = Cell("fd", k, 0) ELSE p = u
  <2>1. IF p + k < u THEN C[p + k] = Cell("fd", k, 0) ELSE p = s
    BY Zenon, <1>1 DEF Whole
  <2> QED
    BY <2>1
<1> QED
  BY Zenon, <1>1 DEF Whole

LEMMA SendCmsgControl ==
  ASSUME PipeInv, ControlInv, NEW w \in Writers, SendCmsg(w)
  PROVE  ControlInv'
<1>1. /\ w \in Threads /\ pc[w] = "send_cmsg" /\ pipe_lock = w /\ w # NULL
      /\ pc \in [Threads -> Steps] /\ local[w] \in LocalType /\ sent' = sent
      /\ local \in [Threads -> LocalType]
  BY Zenon, PipeAssumption
  DEF SendCmsg, Threads, Unlocked, RecvPledged, SendPledged, PipeInv, Types, Locked
<1>2. /\ local[w].fds \in Nat /\ local[w].i = 0 /\ local[w].fds > 0
      /\ local[w].fds + 2 + (IF NeedsHeader(local[w].fds) THEN 1 ELSE 0)
           <= buffer_size - buffer_used
  BY Zenon, <1>1, LocalFields DEF PipeInv, CountsOn, Reserved
<1>3. /\ buffer_used \in Nat /\ last_header_position \in Nat /\ buffer_size \in Nat
      /\ buffer_used <= buffer_size
  BY Zenon, LastHeader
<1>4. PICK h \in Nat : h = IF JoinsControl THEN 0 ELSE 1
  BY Zenon
<1>5. h = (IF NeedsHeader(local[w].fds) THEN 1 ELSE 0)
  BY SMTT(30), <1>2, <1>4, LastHeader DEF JoinsControl, NeedsHeader
<1>6. buffer_used + 1 + h <= buffer_size
  <2>1. local[w].fds + 2 + h <= buffer_size - buffer_used
    BY Zenon, <1>2, <1>5
  <2> QED
    BY <1>2, <1>3, <2>1
<1>7. PICK a \in Nat, kind \in {"cmsg", "fd"} : a = local[w].fds /\ kind = "cmsg"
  BY Zenon, <1>2
<1>8. PICK cells : cells = <<Cell(kind, a, 0)>>
  BY Zenon
<1>9. Enqueue(cells, TRUE)
  BY Zenon, <1>7, <1>8 DEF SendCmsg
<1>10. /\ RingOK' /\ buffer_used' = buffer_used + 1 + h
       /\ last_header_position' = IF h = 0 THEN last_header_position ELSE buffer_used
       /\ \A q \in 0..buffer_used - 1 :
            q # last_header_position' => Cells'[q] = Cells[q]
       /\ Cells'[buffer_used + h] = Cell(kind, a, 0)
  BY Zenon, <1>1, <1>4, <1>6, <1>8, <1>9, EnqueueControl
<1>11. PICK C, D, u, v, l, s :
         /\ C = Cells /\ D = Cells' /\ u = buffer_used /\ v = buffer_used'
         /\ l = last_header_position' /\ s = buffer_used + h
  BY Zenon
<1>12. /\ u \in Nat /\ IsRow(C, u) /\ Whole(C, u, u, 0)
  BY ZenonT(30), <1>1, <1>3, <1>11, WholeBefore
     DEF InControl, AllWhole, PipeInv, Parsed
<1>13. /\ s \in Nat /\ u <= s /\ v = s + 1 /\ D[s] = Cell("cmsg", a, 0)
       /\ h \in {0, 1} /\ s = u + h /\ s > 0
  <2>1. u = 0 => h = 1
    BY <1>4, <1>11 DEF JoinsControl
  <2>2. h \in {0, 1}
    BY Zenon, <1>4
  <2> QED
    BY SMTT(30), <1>3, <1>7, <1>10, <1>11, <2>1, <2>2
<1>14. IsRow(D, v) /\ IsHeader(D, l)
  BY SMTT(30), <1>3, <1>10, <1>11, <1>13 DEF RingOK, Parsed
<1>15. l \in 0..u - 1 => IsHeader(C, l)
  BY <1>10, <1>11, LastHeader
<1>16. \A q \in 0..u - 1 : D[q] = C[q] \/ (C[q].kind = "header" /\ D[q].kind = "header")
  <2>1. \A q \in 0..u - 1 : q # l => D[q] = C[q]
    BY Zenon, <1>10, <1>11
  <2>2. ASSUME NEW q \in 0..u - 1, q = l
        PROVE  C[q].kind = "header" /\ D[q].kind = "header"
    BY Zenon, <1>14, <1>15, <2>2 DEF IsHeader
  <2> QED
    BY Zenon, <2>1, <2>2
<1>17. \A q \in u..s - 1 : D[q].kind = "header"
  <2>1. /\ l = (IF h = 0 THEN last_header_position ELSE u) /\ u \in Nat /\ s = u + h
        /\ h \in {0, 1}
    BY Zenon, <1>10, <1>11, <1>12, <1>13
  <2>2. ASSUME NEW q \in u..s - 1
        PROVE  q = l
    BY SMTT(30), <2>1
  <2> QED
    BY Zenon, <1>14, <2>2 DEF IsHeader
<1>18. Whole(D, v, s, 0)
  BY SMTT(30), <1>12, <1>13, <1>14, <1>16, <1>17, CellFacts, CmsgWhole
<1>19. /\ pc'[w] = "send_fd" /\ local'[w].i = 0 /\ local'[w].fds = a /\ pipe_lock' = w
  BY Zenon, <1>1, <1>2, <1>7 DEF SendCmsg, Goto, LocalType
<1>20. /\ local'[w].i + 1 < buffer_used' /\ buffer_used' - 1 - local'[w].i = s
  BY SMTT(30), <1>11, <1>13, <1>19
<1>21. /\ Cells'[buffer_used' - 1 - local'[w].i] = Cell("cmsg", local'[w].fds, 0)
       /\ Whole(Cells, buffer_used, buffer_used - 1 - local[w].i, 0)'
  BY <1>11, <1>13, <1>18, <1>19, <1>20 DEF Whole
<1> QED
  BY Zenon, <1>1, <1>19, <1>20, <1>21 DEF ControlInv, ControlAt

LEMMA SendFdControl ==
  ASSUME PipeInv, ControlInv, NEW w \in Writers, SendFd(w)
  PROVE  ControlInv'
<1>1. /\ w \in Threads /\ pc[w] = "send_fd" /\ pipe_lock = w /\ w # NULL
      /\ pc \in [Threads -> Steps] /\ local[w] \in LocalType /\ sent' = sent
      /\ local \in [Threads -> LocalType]
  BY Zenon, PipeAssumption
  DEF SendFd, Threads, Unlocked, RecvPledged, SendPledged, PipeInv, Types, Locked
<1>2. PICK i \in Nat, fds \in Nat : i = local[w].i /\ fds = local[w].fds
  BY Zenon, <1>1, LocalFields
<1>3. /\ buffer_used \in Nat /\ last_header_position \in Nat /\ buffer_size \in Nat
      /\ buffer_used <= buffer_size
  BY Zenon, LastHeader
<1>4. PICK C, u, s : C = Cells /\ u = buffer_used /\ s = buffer_used - 1 - i
  BY Zenon
<1>5. /\ u \in Nat /\ IsRow(C, u) /\ i + 1 < u /\ s = u - 1 - i
      /\ Whole(C, u, s, 0) /\ C[s] = Cell("cmsg", fds, 0)
  BY Zenon, <1>1, <1>2, <1>3, <1>4 DEF ControlInv, ControlAt, PipeInv, Parsed
<1>6. C[s].kind = "cmsg" /\ C[s].a = fds
  BY <1>5, CellFacts
<1>7. CASE i < fds /\ Enqueue(<<Cell("fd", i + 1, 0)>>, TRUE)
           /\ Goto(w, "send_fd", [local[w] EXCEPT !.i = @ + 1])
  <2>1. PICK h \in Nat : h = IF JoinsControl THEN 0 ELSE 1
    BY Zenon
  <2>2. /\ buffer_used > 0 /\ Cells[last_header_position].b = 0
        /\ fds - i + 1 <= buffer_size - buffer_used
    BY Zenon, <1>1, <1>2 DEF PipeInv, CountsOn, Undoable, Reserved
  <2>3. h = 0
    BY <2>1, <2>2, LastHeader DEF JoinsControl
  <2>4. PICK a \in Nat, kind \in {"cmsg", "fd"} : a = i + 1 /\ kind = "fd"
    OBVIOUS
  <2>5. PICK cells : cells = <<Cell(kind, a, 0)>>
    BY Zenon
  <2>6. Enqueue(cells, TRUE)
    BY Zenon, <1>7, <2>4, <2>5
  <2>7. buffer_used + 1 + h <= buffer_size
    BY <1>3, <1>7, <2>2, <2>3
  <2>8. /\ RingOK' /\ buffer_used' = buffer_used + 1 + h
        /\ last_header_position' = IF h = 0 THEN last_header_position ELSE buffer_used
        /\ \A q \in 0..buffer_used - 1 :
             q # last_header_position' => Cells'[q] = Cells[q]
        /\ Cells'[buffer_used + h] = Cell(kind, a, 0)
    BY ZenonT(30), <1>1, <2>1, <2>5, <2>6, <2>7, EnqueueControl
  <2>9. PICK D, v, l : D = Cells' /\ v = buffer_used' /\ l = last_header_position'
    BY Zenon
  <2>10. v = u + 1 /\ D[u] = Cell("fd", i + 1, 0) /\ l = last_header_position
    BY <1>3, <1>4, <2>3, <2>4, <2>8, <2>9
  <2>11. IsRow(D, v) /\ IsHeader(D, l)
    BY SMTT(30), <1>3, <1>4, <2>8, <2>9, <2>10 DEF RingOK, Parsed
  <2>12. IsHeader(C, l)
    BY Zenon, <1>4, <2>2, <2>10, LastHeader
  <2>13. \A q \in 0..u - 1 : D[q] = C[q] \/ (C[q].kind = "header" /\ D[q].kind = "header")
    <3>1. \A q \in 0..u - 1 : q # l => D[q] = C[q]
      BY Zenon, <1>4, <2>8, <2>9
    <3>2. ASSUME NEW q \in 0..u - 1, q = l
          PROVE  C[q].kind = "header" /\ D[q].kind = "header"
      BY Zenon, <2>11, <2>12, <3>2 DEF IsHeader
    <3> QED
      BY Zenon, <3>1, <3>2
  <2>14. Whole(D, v, s, 0)
    BY ZenonT(30), <1>5, <1>6, <1>7, <2>10, <2>11, <2>13, FdWhole
  <2>15. D[s] = C[s]
    BY <1>5, <1>6, <2>13
  <2>16. /\ pc'[w] = "send_fd" /\ local'[w].i = i + 1 /\ local'[w].fds = fds
         /\ pipe_lock' = w
    BY Zenon, <1>1, <1>2, <1>7 DEF Goto, LocalType
  <2>17. /\ local'[w].i + 1 < buffer_used' /\ buffer_used' - 1 - local'[w].i = s
    BY SMTT(30), <1>5, <2>9, <2>10, <2>16
  <2>18. /\ Cells'[buffer_used' - 1 - local'[w].i] = Cell("cmsg", local'[w].fds, 0)
         /\ Whole(Cells, buffer_used, buffer_used - 1 - local[w].i, 0)'
    BY Zenon, <1>5, <2>9, <2>14, <2>15, <2>16, <2>17 DEF Whole
  <2> QED
    BY Zenon, <1>1, <2>16, <2>17, <2>18 DEF ControlInv, ControlAt
<1>8. CASE Goto(w, "send_undo", local[w]) /\ UNCHANGED ring
  <2>1. /\ Cells' = Cells /\ buffer_used' = buffer_used
    BY Zenon, <1>8, QuietRing DEF ring
  <2>2. pc'[w] = "send_undo" /\ local'[w] = local[w] /\ pipe_lock' = w
    BY Zenon, <1>1, <1>8 DEF Goto
  <2>3. ControlAt("send_undo", local[w])
    BY Zenon, <1>1 DEF ControlInv, ControlAt
  <2>4. ControlAt(pc[w], local[w])'
    BY Zenon, <2>1, <2>2, <2>3 DEF ControlAt
  <2> QED
    BY Zenon, <1>1, <2>2, <2>4 DEF ControlInv
<1>9. CASE i = fds /\ Goto(w, "send_normal", local[w]) /\ UNCHANGED ring
  <2>1. Whole(C, u, u, 0)
    BY Zenon, <1>5, <1>6, <1>9, SentWhole
  <2>2. AllWhole
    BY Zenon, <1>4, <2>1 DEF AllWhole
  <2>3. pc'[w] = "send_normal" /\ pipe_lock' = w
    BY Zenon, <1>1, <1>9 DEF Goto
  <2> QED
    BY Zenon, <1>1, <1>9, <2>2, <2>3, QuietWhole, WholeAfter DEF InControl
<1> QED
  BY Zenon, <1>2, <1>7, <1>8, <1>9 DEF SendFd

LEMMA SendUndoControl ==
  ASSUME PipeInv, ControlInv, NEW w \in Writers, SendUndo(w)
  PROVE  ControlInv'
<1>1. /\ w \in Threads /\ pc[w] = "send_undo" /\ pipe_lock = w /\ w # NULL
      /\ pc \in [Threads -> Steps] /\ local[w] \in LocalType
      /\ local \in [Threads -> LocalType] /\ local[w].saved \in Nat
  BY Zenon, PipeAssumption, LocalFields
  DEF SendUndo, Threads, Unlocked, RecvPledged, SendPledged, PipeInv, Types, Locked
<1>2. PICK i \in Nat, fds \in Nat : i = local[w].i /\ fds = local[w].fds
  BY Zenon, <1>1, LocalFields
<1>3. PICK n \in Nat, l, saved \in Nat :
         l = last_header_position /\ n = Cells[l].a /\ saved = local[w].saved
  <2>1. buffer_used > 0
    BY Zenon, <1>1 DEF PipeInv, CountsOn, Undoable
  <2> QED
    BY Zenon, <1>1, <2>1, LastHeader
<1>4. /\ buffer_used > 0 /\ Cells[l].b = 0 /\ i + 1 <= n /\ i <= fds
      /\ n = i + 1 => IF l = 0 THEN saved = 0
                      ELSE /\ saved < l /\ IsHeader(Cells, saved) /\ End(Cells, saved) = l
  BY ZenonT(30), <1>1, <1>2, <1>3 DEF PipeInv, CountsOn, Undoable, Reserved
<1>5. /\ Types /\ Parsed(Cells, buffer_used, l) /\ Unenqueue(saved) /\ n > 0
      /\ n = 1 => IF l = 0 THEN saved = 0
                  ELSE /\ saved < l /\ IsHeader(Cells, saved) /\ End(Cells, saved) = l
  BY <1>2, <1>3, <1>4 DEF PipeInv, SendUndo
<1>6. /\ IF n > 1 THEN /\ buffer_used' = buffer_used - 1 /\ last_header_position' = l
                       /\ l < buffer_used - 1
         ELSE buffer_used' = buffer_used - 2 /\ l = buffer_used - 2
      /\ buffer_used' \in Nat
      /\ Parsed(Cells', buffer_used', last_header_position')
      /\ \A q \in 0..buffer_used' - 1 : q # l => Cells'[q] = Cells[q]
  BY Zenon, <1>3, <1>4, <1>5, UnenqueueRow
<1>7. PICK C, D, u, v, s : /\ C = Cells /\ D = Cells' /\ u = buffer_used /\ v = buffer_used'
                           /\ s = buffer_used - 1 - i
  BY Zenon
<1>8. /\ u \in Nat /\ IsRow(C, u) /\ i + 1 < u /\ s = u - 1 - i
      /\ Whole(C, u, s, 0) /\ C[s] = Cell("cmsg", fds, 0)
  BY Zenon, <1>1, <1>2, <1>7 DEF ControlInv, ControlAt, PipeInv, Parsed
<1>9. C[s].kind = "cmsg" /\ C[s].a = fds /\ IsHeader(C, l) /\ l \in Nat
  BY SMTT(30), <1>3, <1>4, <1>7, <1>8, CellFacts, LastHeader
<1>10. v \in Nat /\ v < u /\ (l \in 0..v - 1 => IsHeader(D, l))
  <2>1. CASE n > 1
    BY SMTT(30), <1>6, <1>7, <1>8, <1>9, <2>1 DEF Parsed
  <2>2. CASE ~(n > 1)
    BY SMTT(30), <1>6, <1>7, <1>8, <2>2
  <2> QED
    BY Zenon, <2>1, <2>2
<1>11. \A q \in 0..v - 1 : D[q] = C[q] \/ (C[q].kind = "header" /\ D[q].kind = "header")
  <2>1. \A q \in 0..v - 1 : q # l => D[q] = C[q]
    BY Zenon, <1>6, <1>7
  <2>2. v \in Nat /\ (l \in 0..v - 1 => IsHeader(C, l) /\ IsHeader(D, l))
    BY Zenon, <1>9, <1>10
  <2> QED
    BY Zenon, <2>1, <2>2 DEF IsHeader
<1>12. CASE i > 0 /\ Goto(w, "send_undo", [local[w] EXCEPT !.i = @ - 1])
  <2>1. v = u - 1
    BY SMTT(30), <1>4, <1>6, <1>7, <1>12
  <2>2. Whole(D, v, s, 0)
    BY Zenon, <1>4, <1>8, <1>9, <1>11, <1>12, <2>1, UndoFdWhole
  <2>3. s \in 0..v - 1 /\ D[s] = C[s]
    BY SMTT(30), <1>8, <1>9, <1>11, <1>12, <2>1
  <2>4. /\ pc'[w] = "send_undo" /\ local'[w].i = i - 1 /\ local'[w].fds = fds
        /\ pipe_lock' = w
    BY Zenon, <1>1, <1>2, <1>12 DEF Goto, LocalType
  <2>5. /\ local'[w].i + 1 < buffer_used' /\ buffer_used' - 1 - local'[w].i = s
    BY SMTT(30), <1>7, <1>8, <2>1, <2>4
  <2>6. /\ Cells'[buffer_used' - 1 - local'[w].i] = Cell("cmsg", local'[w].fds, 0)
        /\ Whole(Cells, buffer_used, buffer_used - 1 - local[w].i, 0)'
    BY Zenon, <1>7, <1>8, <2>2, <2>3, <2>4, <2>5 DEF Whole
  <2> QED
    BY Zenon, <1>1, <2>4, <2>5, <2>6 DEF ControlInv, ControlAt
<1>13. CASE i = 0 /\ Return(w)
  <2>1. s = u - 1 /\ s \in Nat
    BY <1>8, <1>13
  <2>2. \A q \in v..u - 1 : C[q].kind # "fd"
    <3>1. ASSUME NEW q \in v..u - 1
          PROVE  q = s \/ q = l
      <4>1. CASE n > 1
        BY SMTT(30), <1>6, <1>7, <1>8, <2>1, <4>1
      <4>2. CASE ~(n > 1)
        BY SMTT(30), <1>6, <1>7, <1>8, <2>1, <4>2
      <4> QED
        BY Zenon, <4>1, <4>2
    <3> QED
      BY Zenon, <1>9, <3>1 DEF IsHeader
  <2>3. Whole(D, v, v, 0)
    BY Zenon, <1>8, <1>10, <1>11, <2>1, <2>2, UndoCmsgWhole
  <2>4. AllWhole' /\ pipe_lock' = NULL
    BY Zenon, <1>7, <1>13, <2>3 DEF AllWhole, Whole, Return, Release
  <2> QED
    BY Zenon, <1>1, <2>4, WholeAfter
<1> QED
  BY Zenon, <1>2, <1>12, <1>13 DEF SendUndo

LEMMA SendNormalControl ==
  ASSUME PipeInv, ControlInv, NEW w \in Writers, SendNormal(w)
  PROVE  ControlInv'
<1> DEFINE amount == Smaller(local[w].count, buffer_size - buffer_used - Overhead(w))
<1>1. /\ w \in Threads /\ pc[w] = "send_normal" /\ pipe_lock = w /\ w # NULL
      /\ pc \in [Threads -> Steps] /\ local[w] \in LocalType
  BY Zenon, PipeAssumption
  DEF SendNormal, Threads, Unlocked, RecvPledged, SendPledged, PipeInv, Types, Locked
<1>2. CASE pipe_lock' = NULL /\ UNCHANGED ring
  BY Zenon, <1>1, <1>2, QuietControl DEF InControl
<1>3. CASE /\ local[w].count > 0 /\ ~(buffer_size - buffer_used <= Overhead(w))
           /\ Enqueue([i \in 1..amount |-> Byte(sent + i)], FALSE)
           /\ sent' = sent + amount
           /\ pc' = [pc EXCEPT ![w] = "send_normal"] /\ UNCHANGED pipe_lock
  <2>1. /\ local[w].count \in Nat /\ Overhead(w) \in {0, 1} /\ buffer_size \in Nat
        /\ buffer_used \in Nat /\ sent \in Nat /\ buffer_used <= buffer_size
    BY Zenon, <1>1, LocalFields, LastHeader DEF Overhead, PipeInv, Types
  <2>2. PICK n : n = amount
    BY Zenon
  <2>3. n \in Nat \ {0} /\ n <= buffer_size - buffer_used - Overhead(w)
    BY <1>3, <2>1, <2>2 DEF Smaller
  <2>4. PICK h \in Nat : h = IF buffer_used > 0 THEN 0 ELSE 1
    BY Zenon
  <2>5. h <= Overhead(w)
    <3>1. buffer_used = 0 => Overhead(w) = 1
      BY Zenon, <1>1 DEF PipeInv, CountsOn, Reserved, Overhead
    <3> QED
      BY SMTT(30), <2>1, <2>4, <3>1
  <2>6. buffer_used + n + h <= buffer_size
    BY SMTT(30), <2>1, <2>3, <2>4, <2>5
  <2>7. PICK cells : cells = [i \in 1..n |-> Byte(sent + i)]
    BY Zenon
  <2>8. Enqueue(cells, FALSE)
    BY Zenon, <1>3, <2>2, <2>7
  <2>20. sent' \in Nat
    BY <1>3, <2>1, <2>2, <2>3
  <2>9. /\ RingOK' /\ buffer_used' = buffer_used + n + h
        /\ last_header_position' = IF h = 0 THEN last_header_position ELSE buffer_used
        /\ \A q \in 0..buffer_used - 1 :
             q # last_header_position' => Cells'[q] = Cells[q]
        /\ \A q \in buffer_used + h..buffer_used' - 1 : Cells'[q].kind = "byte"
    BY Zenon, <2>3, <2>4, <2>6, <2>7, <2>8, <2>20, EnqueueBytes
  <2>10. PICK C, D, u, v, l : /\ C = Cells /\ D = Cells' /\ u = buffer_used
                              /\ v = buffer_used' /\ l = last_header_position'
    BY Zenon
  <2>11. /\ u \in Nat /\ IsRow(C, u) /\ Whole(C, u, u, 0)
    BY Zenon, <1>1, <2>1, <2>10, WholeBefore
      DEF InControl, AllWhole, PipeInv, Parsed
  <2>12. v \in Nat /\ u <= v /\ v > 0 /\ h \in {0, 1} /\ v = u + n + h
    BY SMTT(30), <2>3, <2>4, <2>9, <2>10, <2>11
  <2>13. IsHeader(D, l)
    BY SMTT(30), <2>9, <2>10, <2>12 DEF RingOK, Parsed
  <2>14. l \in 0..u - 1 => IsHeader(C, l)
    BY SMTT(30), <2>9, <2>10, LastHeader
  <2>15. \A q \in 0..u - 1 : D[q] = C[q] \/ (C[q].kind = "header" /\ D[q].kind = "header")
    <3>1. \A q \in 0..u - 1 : q # l => D[q] = C[q]
      BY Zenon, <2>9, <2>10
    <3>2. l \in 0..u - 1 => IsHeader(C, l) /\ IsHeader(D, l)
      BY Zenon, <2>13, <2>14
    <3> QED
      BY Zenon, <3>1, <3>2 DEF IsHeader
  <2>16. ASSUME NEW q \in u..v - 1
         PROVE  D[q].kind \notin {"cmsg", "fd"}
    <3>1. CASE q \in u + h..v - 1
      BY Zenon, <2>9, <2>10, <3>1
    <3>2. CASE q \notin u + h..v - 1
      <4>1. h = 1 /\ q = u
        BY <2>11, <2>12, <3>2
      <4> QED
        BY SMTT(30), <2>9, <2>10, <2>13, <4>1 DEF IsHeader
    <3> QED
      BY Zenon, <3>1, <3>2
  <2>17. PICK r : r = 0
    BY Zenon
  <2>18. Whole(D, v, v, r)
    BY Zenon, <2>11, <2>12, <2>15, <2>16, <2>17, AddWhole
  <2>19. AllWhole'
    BY Zenon, <2>10, <2>17, <2>18 DEF AllWhole, Whole
  <2> QED
    BY Zenon, <1>1, <1>3, <2>19, WholeAfter DEF InControl
<1> QED
  BY Zenon, <1>2, <1>3 DEF SendNormal, Return, Release, Goto

\* Resizing copies the cells, and whoever else finds the lock free leaves them.
LEMMA OutsideControl ==
  ASSUME PipeInv, ControlInv, pipe_lock = NULL, pipe_lock' = NULL,
         Cells' = Cells, buffer_used' = buffer_used
  PROVE  ControlInv'
BY Zenon DEF ControlInv, AllWhole

LEMMA InterruptControl ==
  ASSUME PipeInv, ControlInv, NEW t \in Threads, Interrupt(t)
  PROVE  ControlInv'
<1>1. /\ pc[t] \in Waits /\ local \in [Threads -> LocalType] /\ UNCHANGED <<ring, pc, pipe_lock>>
      /\ local' = [local EXCEPT ![t].interrupted = TRUE]
      /\ pipe_lock \in Threads \cup {NULL}
  BY Zenon DEF Interrupt, PipeInv, Types
<1>2. Cells' = Cells /\ buffer_used' = buffer_used
  BY Zenon, <1>1, QuietRing DEF ring
<1>3. CASE pipe_lock = NULL
  BY Zenon, <1>1, <1>2, <1>3, OutsideControl
<1>4. CASE pipe_lock # NULL
  <2>1. PICK s \in Threads : s = pipe_lock
    BY Zenon, <1>1, <1>4
  <2>2. local'[s].i = local[s].i /\ local'[s].fds = local[s].fds
    BY Zenon, <1>1 DEF LocalType
  <2>3. ControlAt(pc[s], local[s])
    BY Zenon, <1>4, <2>1 DEF ControlInv
  <2>4. ControlAt(pc[s], local[s])'
    BY Zenon, <1>1, <1>2, <2>2, <2>3 DEF ControlAt
  <2> QED
    BY Zenon, <1>1, <1>4, <2>1, <2>4 DEF ControlInv
<1> QED
  BY Zenon, <1>3, <1>4

\* Either none of the descriptors of a message is in the buffer or all of them are,
\* one after the other behind their message, whenever the lock is free: whatever
\* sendmsg_internal could not finish it has taken back, and recvmsg_internal has
\* taken all the control data of a segment before it lets anybody else in.
THEOREM ControlStaysWhole == Spec => []ControlWhole
<1>1. ASSUME Init
      PROVE  ControlInv
  <2>1. pipe_lock = NULL /\ buffer_used = 0
    BY Zenon, <1>1 DEF Init
  <2>2. AllWhole
    BY <2>1 DEF AllWhole, Whole
  <2> QED
    BY Zenon, <2>1, <2>2 DEF ControlInv
<1>2. ASSUME PipeInv, ControlInv, [Next]_vars
      PROVE  ControlInv'
  <2>1. ASSUME NEW t \in Threads, NEW step \in {"recv_first", "send_room"}, NEW l,
               Enter(t, step, l)
        PROVE  ControlInv'
    <3>1. /\ pipe_lock = NULL /\ pipe_lock' = t /\ pc'[t] = step /\ UNCHANGED ring
          /\ t # NULL
      BY Zenon, <1>2, <2>1, PipeAssumption DEF Enter, PipeInv, Types, Threads
    <3> QED
      BY Zenon, <1>2, <2>1, <3>1, QuietControl DEF InControl
  <2>2. ASSUME NEW r \in Readers, NEW n, NEW waitall, NEW nonblock, NEW peek,
               Recv(r, n, waitall, nonblock, peek)
        PROVE  ControlInv'
    BY Zenon, <2>1, <2>2 DEF Recv, Threads
  <2>3. ASSUME NEW w \in Writers, NEW n, NEW fds, NEW nonblock, Send(w, n, fds, nonblock)
        PROVE  ControlInv'
    BY Zenon, <2>1, <2>3 DEF Send, Threads
  <2>4. ASSUME NEW r \in Readers, RecvStep(r)
        PROVE  ControlInv'
    BY Zenon, <1>2, <2>4, RecvFirstControl, ResumeControl,
       RecvAncillaryControl, RecvNormalControl
    DEF RecvStep, Threads
  <2>5. ASSUME NEW w \in Writers, SendStep(w)
        PROVE  ControlInv'
    BY Zenon, <1>2, <2>5, SendRoomControl, ResumeControl, SendCmsgControl,
       SendFdControl,
       SendUndoControl, SendNormalControl DEF SendStep, Threads
  <2>6. CASE CloseReading \/ CloseWriting \/ ReadPoll \/ WritePoll
    <3>1. pipe_lock = NULL /\ pipe_lock' = NULL /\ UNCHANGED ring
      BY Zenon, <2>6
         DEF CloseReading, CloseWriting, ReadPoll, WritePoll, threads
    <3>2. Cells' = Cells /\ buffer_used' = buffer_used
      BY Zenon, <1>2, <3>1, QuietRing DEF ring
    <3> QED
      BY Zenon, <1>2, <3>1, <3>2, OutsideControl
  <2>7. ASSUME NEW size \in Sizes, WriteResize(size)
        PROVE  ControlInv'
    <3>1. size \in Nat /\ pipe_lock = NULL /\ pipe_lock' = NULL /\ buffer_used' = buffer_used
      BY Zenon, <2>7, PipeAssumption DEF WriteResize, threads
    <3>2. Cells' = Cells
      BY Zenon, <1>2, <2>7, <3>1, ResizeRow
    <3> QED
      BY Zenon, <1>2, <3>1, <3>2, OutsideControl
  <2>8. CASE UNCHANGED vars
    <3>1. UNCHANGED <<ring, pc, local, pipe_lock>>
      BY Zenon, <2>8 DEF vars, threads
    <3>2. Cells' = Cells /\ buffer_used' = buffer_used
      BY Zenon, <1>2, <3>1, QuietRing DEF ring
    <3> QED
      BY Zenon, <1>2, <3>1, <3>2 DEF ControlInv, AllWhole, ControlAt
  <2> QED
    BY Zenon, <1>2, <2>2, <2>3, <2>4, <2>5, <2>6, <2>7, <2>8, InterruptControl
      DEF Next
<1>3. ASSUME PipeInv, ControlInv
      PROVE  ControlWhole
  <2>1. SUFFICES ASSUME pipe_lock = NULL, NEW p \in 0..buffer_used - 1
                 PROVE  /\ ReadBuffer(p).kind = "cmsg" =>
                             \A k \in 1..ReadBuffer(p).a :
                               /\ p + k < buffer_used
                               /\ ReadBuffer(p + k) = Cell("fd", k, 0)
                        /\ ReadBuffer(p).kind = "fd" =>
                             /\ ReadBuffer(p).a <= p
                             /\ ReadBuffer(p - ReadBuffer(p).a).kind = "cmsg"
                             /\ ReadBuffer(p).a <= ReadBuffer(p - ReadBuffer(p).a).a
    BY Zenon DEF ControlWhole
  <2>2. PICK C, u : C = Cells /\ u = buffer_used
    BY Zenon
  <2>3. u \in Nat /\ IsRow(C, u) /\ Whole(C, u, u, 0) /\ p \in 0..u - 1
    BY Zenon, <1>3, <2>1, <2>2, LastHeader
       DEF ControlInv, AllWhole, PipeInv, Parsed
  <2>4. \A q \in 0..u - 1 : ReadBuffer(q) = C[q]
    BY Zenon, <2>2 DEF Cells
  <2>5. ASSUME C[p].kind = "cmsg", NEW k \in 1..C[p].a
        PROVE  p + k < u /\ ReadBuffer(p + k) = Cell("fd", k, 0)
    <3>1. PICK q : q = p + k
      BY Zenon
    <3>2. q \in 0..u - 1 /\ C[q] = Cell("fd", k, 0)
      BY SMTT(30), <2>3, <2>5, <3>1, WholeCmsg
    <3> QED
      BY <2>3, <2>4, <3>1, <3>2
  <2>6. ASSUME C[p].kind = "fd"
        PROVE  /\ C[p].a <= p /\ ReadBuffer(p - C[p].a).kind = "cmsg"
               /\ C[p].a <= ReadBuffer(p - C[p].a).a
    <3>1. PICK a : a = C[p].a
      BY Zenon
    <3>2. /\ a \in Nat
          /\ IF a < p THEN p - a \in 0..u - 1 /\ C[p - a].kind = "cmsg" /\ a <= C[p - a].a
             ELSE p <= 0
      BY Zenon, <2>3, <2>6, <3>1, WholeFd
    <3>3. p # 0
      <4>1. C[0].kind = "header"
        BY SMTT(30), <1>3, <2>2, <2>3 DEF PipeInv, Parsed, IsHeader
      <4> QED
        BY Zenon, <2>6, <4>1
    <3>4. a < p
      BY <2>3, <3>2, <3>3
    <3>5. PICK q \in 0..u - 1 : q = p - a
      BY Zenon, <3>2, <3>4
    <3> QED
      BY SMTT(30), <2>3, <2>4, <3>1, <3>2, <3>4, <3>5
  <2>7. ReadBuffer(p) = C[p]
    BY Zenon, <2>3, <2>4
  <2>8. CASE C[p].kind = "cmsg"
    BY Zenon, <2>2, <2>5, <2>7, <2>8
  <2>9. CASE C[p].kind = "fd"
    BY Zenon, <2>6, <2>7, <2>9
  <2> QED
    BY Zenon, <2>7, <2>8, <2>9
<1> QED
  BY <1>1, <1>2, <1>3, Invariance, PTL DEF Spec

=============================================================================
