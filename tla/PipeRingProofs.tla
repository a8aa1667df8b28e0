--------------------------- MODULE PipeRingProofs ---------------------------
(***************************************************************************)
(* The ring of a pipe stays well formed, for any size of the buffer and of *)
(* the messages: what its operations do to the row of cells in use.        *)
(* PipeProofs goes on with the threads.                                    *)
(*                                                                         *)
(* Parsed says of a row of cells that headers cover it exactly, and the    *)
(* first lemmas show it kept by what Enqueue, Unenqueue and Dequeue do to  *)
(* a row; nothing there wraps around.  The other ones show that the        *)
(* operations on the ring do just that to the row that ReadBuffer gives.   *)
(***************************************************************************)
EXTENDS Pipe, Integers, TLAPS

CellType == [kind : {"free", "header", "cmsg", "fd", "byte"}, a : Nat, b : Nat]

\* u cells.
IsRow(C, u) == C \in [0..u - 1 -> CellType]

IsHeader(C, p) == C[p].kind = "header"
IsControl(C, p) == C[p].kind \in {"cmsg", "fd"}

\* The position after the segment whose header is at p.
End(C, p) == p + 1 + C[p].a + C[p].b

\* The segment at p: control data, then bytes, not both empty, and then the
\* next header or the end.
Segment(C, u, p) ==
  /\ C[p].a + C[p].b > 0
  /\ End(C, p) <= u
  /\ End(C, p) < u => IsHeader(C, End(C, p))
  /\ \A q \in p + 1..p + C[p].a : IsControl(C, q)
  /\ \A q \in p + C[p].a + 1..End(C, p) - 1 : C[q].kind = "byte"

\* Headers cover the u cells of C exactly, and l is the last one's position.
Parsed(C, u, l) ==
  /\ u \in Nat /\ l \in Nat /\ IsRow(C, u)
  /\ IF u = 0 THEN l = 0
     ELSE IsHeader(C, 0) /\ l < u /\ IsHeader(C, l) /\ End(C, l) = u
  /\ \A p \in 0..u - 1 : IsHeader(C, p) => Segment(C, u, p)

LocalType ==
  [count : Nat, so_far : Nat, waitall : BOOLEAN, nonblock : BOOLEAN,
   peek : BOOLEAN, fds : Nat, i : Nat, normal : Nat, saved : Nat,
   need_header : BOOLEAN, interrupted : BOOLEAN]

\* The variables have their types, but that the pledges are not negative is a
\* matter of who made them.
Types ==
  /\ buffer_size \in Nat /\ buffer_size >= 2
  /\ buffer \in [0..buffer_size - 1 -> CellType]
  /\ buffer_offset \in 0..buffer_size - 1
  /\ buffer_used \in 0..buffer_size
  /\ any_reading \in BOOLEAN /\ any_writing \in BOOLEAN
  /\ pipe_lock \in Threads \cup {NULL}
  /\ read_cond \subseteq Readers /\ write_cond \subseteq Writers
  /\ read_poll \in BOOLEAN /\ write_poll \in BOOLEAN
  /\ pc \in [Threads -> Steps]
  /\ local \in [Threads -> LocalType]
  /\ sent \in Nat

\* The cells in use, in their order.
Cells == [p \in 0..buffer_used - 1 |-> ReadBuffer(p)]

-----------------------------------------------------------------------------
(* Rows of cells.                                                          *)

LEMMA CellFields ==
  ASSUME NEW C, NEW u \in Nat, IsRow(C, u), NEW p \in 0..u - 1
  PROVE  C[p].a \in Nat /\ C[p].b \in Nat
BY Zenon DEF IsRow, CellType

LEMMA HeaderFields ==
  ASSUME NEW a, NEW b
  PROVE  /\ Header(a, b).kind = "header" /\ Header(a, b).a = a
         /\ Header(a, b).b = b
BY Zenon DEF Header, Cell

\* The last header lies behind every other segment.
LEMMA LastIsLast ==
  ASSUME NEW C, NEW u \in Nat, NEW l \in Nat, Parsed(C, u, l), u > 0,
         NEW p \in 0..u - 1, IsHeader(C, p), p # l
  PROVE  p < l /\ End(C, p) <= l
<1>1. /\ u \in Nat /\ l \in 0..u - 1 /\ IsHeader(C, l) /\ End(C, l) = u
      /\ Segment(C, u, p) /\ Segment(C, u, l)
      /\ C[p].a \in Nat /\ C[p].b \in Nat
      /\ C[l].a \in Nat /\ C[l].b \in Nat
  BY CellFields DEF Parsed
<1>2. \A q \in p + 1..End(C, p) - 1 : ~IsHeader(C, q)
  BY <1>1 DEF Segment, IsHeader, IsControl, End
<1>3. \A q \in l + 1..u - 1 : ~IsHeader(C, q)
  BY <1>1 DEF Segment, IsHeader, IsControl, End
<1>4. p < l
  BY <1>1, <1>3
<1>5. End(C, p) \in Int
  BY <1>1 DEF End
<1> QED
  BY <1>1, <1>2, <1>4, <1>5

\* n more cells for the last segment.
LEMMA JoinParsed ==
  ASSUME NEW C, NEW u \in Nat, NEW l \in Nat, Parsed(C, u, l), u > 0, NEW n \in Nat,
         NEW D, IsRow(D, u + n),
         \A q \in 0..u - 1 : q # l => D[q] = C[q],
         \/ /\ C[l].b = 0 /\ D[l] = Header(C[l].a + n, 0)
            /\ \A q \in u..u + n - 1 : IsControl(D, q)
         \/ /\ D[l] = Header(C[l].a, C[l].b + n)
            /\ \A q \in u..u + n - 1 : D[q].kind = "byte"
  PROVE  Parsed(D, u + n, l)
<1>1. /\ u \in Nat /\ l \in 0..u - 1 /\ IsHeader(C, 0) /\ IsHeader(C, l)
      /\ End(C, l) = u /\ Segment(C, u, l)
      /\ C[l].a \in Nat /\ C[l].b \in Nat
  BY CellFields DEF Parsed
<1>2. IsHeader(D, l) /\ End(D, l) = u + n /\ IsHeader(D, 0)
  <2>1. IsHeader(D, l) /\ D[l].a + D[l].b = C[l].a + C[l].b + n
    BY <1>1, HeaderFields DEF IsHeader
  <2>2. IsHeader(D, 0)
    BY <1>1, <2>1 DEF IsHeader
  <2>3. D[l].a \in Nat /\ D[l].b \in Nat
    BY <1>1, HeaderFields
  <2> QED
    BY <1>1, <2>1, <2>2, <2>3 DEF End
<1>3. Segment(D, u + n, l)
  <2>1. CASE /\ C[l].b = 0 /\ D[l] = Header(C[l].a + n, 0)
             /\ \A q \in u..u + n - 1 : IsControl(D, q)
    <3>1. D[l].a = C[l].a + n /\ D[l].b = 0
      BY <2>1, HeaderFields
    <3>2. \A q \in l + 1..l + D[l].a : IsControl(D, q)
      BY <1>1, <2>1, <3>1 DEF Segment, End, IsControl
    <3>3. l + D[l].a + 1..End(D, l) - 1 = {}
      BY <1>1, <3>1 DEF End
    <3>4. D[l].a + D[l].b > 0
      BY <1>1, <2>1, <3>1 DEF Segment
    <3> QED
      BY <1>2, <3>2, <3>3, <3>4 DEF Segment
  <2>2. CASE /\ D[l] = Header(C[l].a, C[l].b + n)
             /\ \A q \in u..u + n - 1 : D[q].kind = "byte"
    <3>1. D[l].a = C[l].a /\ D[l].b = C[l].b + n
      BY <2>2, HeaderFields
    <3>2. \A q \in l + 1..l + D[l].a : IsControl(D, q)
      BY <1>1, <3>1 DEF Segment, End, IsControl
    <3>3. \A q \in l + D[l].a + 1..End(D, l) - 1 : D[q].kind = "byte"
      BY <1>1, <1>2, <2>2, <3>1 DEF Segment, End
    <3>4. D[l].a + D[l].b > 0
      BY SMTT(30), <1>1, <3>1 DEF Segment
    <3> QED
      BY <1>2, <3>2, <3>3, <3>4 DEF Segment
  <2> QED
    BY Zenon, <2>1, <2>2
<1>4. ASSUME NEW p \in 0..u + n - 1, IsHeader(D, p), p # l
      PROVE  Segment(D, u + n, p)
  <2>1. p \in 0..u - 1 /\ D[p] = C[p]
    BY SMTT(30), <1>1, <1>4 DEF IsHeader, IsControl
  <2>2. /\ Segment(C, u, p) /\ p < l /\ End(C, p) <= l /\ End(D, p) = End(C, p)
        /\ C[p].a \in Nat /\ C[p].b \in Nat /\ End(C, p) \in Nat
    <3>1. IsHeader(C, p) /\ End(D, p) = End(C, p)
      BY Zenon, <1>4, <2>1 DEF IsHeader, End
    <3>2. C[p].a \in Nat /\ C[p].b \in Nat
      BY Zenon, <2>1, CellFields DEF Parsed
    <3> QED
      BY <1>4, <2>1, <3>1, <3>2, LastIsLast DEF Parsed, End
  <2>3. End(C, p) < u => IsHeader(D, End(C, p))
    BY SMTT(30), <1>1, <1>2, <2>2 DEF Segment, IsHeader
  <2>4. \A q \in p + 1..p + D[p].a : IsControl(D, q)
    BY SMTT(30), <1>1, <2>1, <2>2 DEF Segment, IsControl, End
  <2>5. \A q \in p + D[p].a + 1..End(D, p) - 1 : D[q].kind = "byte"
    BY <1>1, <2>1, <2>2 DEF Segment, End
  <2> QED
    BY <1>1, <2>1, <2>2, <2>3, <2>4, <2>5 DEF Segment
<1> QED
  BY <1>1, <1>2, <1>3, <1>4 DEF Parsed

\* A new segment of n cells.
LEMMA NewParsed ==
  ASSUME NEW C, NEW u \in Nat, NEW l \in Nat, Parsed(C, u, l), NEW n \in Nat \ {0},
         NEW D, IsRow(D, u + n + 1),
         \A q \in 0..u - 1 : D[q] = C[q],
         \/ D[u] = Header(n, 0) /\ \A q \in u + 1..u + n : IsControl(D, q)
         \/ D[u] = Header(0, n) /\ \A q \in u + 1..u + n : D[q].kind = "byte"
  PROVE  Parsed(D, u + n + 1, u)
<1>1. u \in Nat /\ (u > 0 => IsHeader(C, 0))
  BY DEF Parsed
<1>2. IsHeader(D, u) /\ End(D, u) = u + n + 1 /\ IsHeader(D, 0)
  BY <1>1 DEF IsHeader, End, Header, Cell
<1>3. Segment(D, u + n + 1, u)
  <2>1. CASE D[u] = Header(n, 0) /\ \A q \in u + 1..u + n : IsControl(D, q)
    BY <1>1, <1>2, <2>1 DEF Segment, Header, Cell
  <2>2. CASE D[u] = Header(0, n) /\ \A q \in u + 1..u + n : D[q].kind = "byte"
    BY <1>1, <1>2, <2>2 DEF Segment, Header, Cell
  <2> QED
    BY Zenon, <2>1, <2>2
<1>4. ASSUME NEW p \in 0..u + n, IsHeader(D, p), p # u
      PROVE  Segment(D, u + n + 1, p)
  <2>1. p \in 0..u - 1 /\ D[p] = C[p]
    BY <1>1, <1>4 DEF IsHeader, IsControl
  <2>2. /\ Segment(C, u, p) /\ End(D, p) = End(C, p)
        /\ C[p].a \in Nat /\ C[p].b \in Nat /\ End(C, p) \in Nat
    <3>1. IsHeader(C, p) /\ End(D, p) = End(C, p)
      BY Zenon, <1>4, <2>1 DEF IsHeader, End
    <3>2. C[p].a \in Nat /\ C[p].b \in Nat
      BY Zenon, <2>1, CellFields DEF Parsed
    <3> QED
      BY <2>1, <3>1, <3>2 DEF Parsed, End
  <2>3. IsHeader(D, End(C, p)) /\ End(C, p) <= u
    BY <1>1, <1>2, <2>2 DEF Segment, IsHeader
  <2>4. \A q \in p + 1..p + D[p].a : IsControl(D, q)
    BY <1>1, <2>1, <2>2 DEF Segment, IsControl, End
  <2>5. \A q \in p + D[p].a + 1..End(D, p) - 1 : D[q].kind = "byte"
    BY <1>1, <2>1, <2>2 DEF Segment, End
  <2> QED
    BY <1>1, <2>1, <2>2, <2>3, <2>4, <2>5 DEF Segment
<1>5. 0..u + n + 1 - 1 = 0..u + n
  BY <1>1
<1> QED
  BY <1>1, <1>2, <1>3, <1>4, <1>5 DEF Parsed

\* The last segment without its last cell, when more than that is in it.
LEMMA ShrinkParsed ==
  ASSUME NEW C, NEW u \in Nat, NEW l \in Nat, Parsed(C, u, l), u > 0,
         C[l].b = 0, C[l].a > 1,
         NEW D, IsRow(D, u - 1),
         \A q \in 0..u - 2 : q # l => D[q] = C[q], D[l] = Header(C[l].a - 1, 0)
  PROVE  Parsed(D, u - 1, l)
<1>1. /\ l \in 0..u - 1 /\ IsHeader(C, 0) /\ IsHeader(C, l)
      /\ End(C, l) = u /\ Segment(C, u, l)
      /\ C[l].a \in Nat /\ C[l].b \in Nat
  BY CellFields DEF Parsed
<1>2. /\ IsHeader(D, l) /\ D[l].a = C[l].a - 1 /\ D[l].b = 0
      /\ End(D, l) = u - 1 /\ l < u - 1
  BY <1>1, HeaderFields DEF IsHeader, End
<1>3. IsHeader(D, 0)
  BY SMTT(30), <1>1, <1>2 DEF IsHeader
<1>4. Segment(D, u - 1, l)
  <2>1. \A q \in l + 1..l + D[l].a : IsControl(D, q)
    BY SMTT(30), <1>1, <1>2 DEF Segment, End, IsControl
  <2>2. l + D[l].a + 1..End(D, l) - 1 = {}
    BY SMTT(30), <1>1, <1>2 DEF End
  <2> QED
    BY <1>1, <1>2, <2>1, <2>2 DEF Segment
<1>5. ASSUME NEW p \in 0..u - 2, IsHeader(D, p), p # l
      PROVE  Segment(D, u - 1, p)
  <2>1. D[p] = C[p] /\ p \in 0..u - 1
    BY SMTT(30), <1>1, <1>5
  <2>2. /\ Segment(C, u, p) /\ p < l /\ End(C, p) <= l /\ End(D, p) = End(C, p)
        /\ C[p].a \in Nat /\ C[p].b \in Nat /\ End(C, p) \in Nat
    <3>1. IsHeader(C, p) /\ End(D, p) = End(C, p)
      BY Zenon, <1>5, <2>1 DEF IsHeader, End
    <3>2. C[p].a \in Nat /\ C[p].b \in Nat
      BY Zenon, <2>1, CellFields DEF Parsed
    <3> QED
      BY <1>5, <2>1, <3>1, <3>2, LastIsLast DEF Parsed, End
  <2>3. IsHeader(D, End(C, p))
    BY SMTT(30), <1>1, <1>2, <2>2 DEF Segment, IsHeader
  <2>4. \A q \in p + 1..p + D[p].a : IsControl(D, q)
    BY SMTT(30), <1>1, <1>2, <2>1, <2>2 DEF Segment, IsControl, End
  <2>5. \A q \in p + D[p].a + 1..End(D, p) - 1 : D[q].kind = "byte"
    BY SMTT(30), <1>1, <1>2, <2>1, <2>2 DEF Segment, End
  <2> QED
    BY <1>1, <1>2, <2>1, <2>2, <2>3, <2>4, <2>5 DEF Segment
<1> QED
  BY <1>1, <1>2, <1>3, <1>4, <1>5 DEF Parsed

\* The row without its last segment, of one cell.
LEMMA DropParsed ==
  ASSUME NEW C, NEW u \in Nat, NEW l \in Nat, Parsed(C, u, l), u > 0,
         C[l].b = 0, C[l].a = 1, NEW saved \in Nat,
         IF l = 0 THEN saved = 0
         ELSE saved < l /\ IsHeader(C, saved) /\ End(C, saved) = l,
         NEW D, IsRow(D, u - 2),
         \A q \in 0..u - 3 : D[q] = C[q]
  PROVE  Parsed(D, u - 2, saved)
<1>1. /\ l \in 0..u - 1 /\ IsHeader(C, 0) /\ IsHeader(C, l) /\ End(C, l) = u
  BY DEF Parsed
<1>2. l = u - 2
  BY <1>1 DEF End
<1>3. IF u - 2 = 0 THEN saved = 0
      ELSE IsHeader(D, 0) /\ saved < u - 2 /\ IsHeader(D, saved)
           /\ End(D, saved) = u - 2
  BY <1>1, <1>2 DEF IsHeader, End
<1>4. ASSUME NEW p \in 0..u - 3, IsHeader(D, p)
      PROVE  Segment(D, u - 2, p)
  <2>1. D[p] = C[p] /\ p \in 0..u - 1 /\ p # l
    BY SMTT(30), <1>2, <1>4
  <2>2. /\ Segment(C, u, p) /\ p < l /\ End(C, p) <= l /\ End(D, p) = End(C, p)
        /\ C[p].a \in Nat /\ C[p].b \in Nat /\ End(C, p) \in Nat
    <3>1. IsHeader(C, p) /\ End(D, p) = End(C, p)
      BY Zenon, <1>4, <2>1 DEF IsHeader, End
    <3>2. C[p].a \in Nat /\ C[p].b \in Nat
      BY Zenon, <2>1, CellFields DEF Parsed
    <3> QED
      BY <2>1, <3>1, <3>2, LastIsLast DEF Parsed, End
  <2>3. End(C, p) < u - 2 => IsHeader(D, End(C, p))
    BY SMTT(30), <1>2, <2>2 DEF Segment, IsHeader
  <2>4. \A q \in p + 1..p + D[p].a : IsControl(D, q)
    BY SMTT(30), <1>2, <2>1, <2>2 DEF Segment, IsControl, End
  <2>5. \A q \in p + D[p].a + 1..End(D, p) - 1 : D[q].kind = "byte"
    BY <1>2, <2>1, <2>2 DEF Segment, End
  <2> QED
    BY Zenon, <1>2, <2>1, <2>2, <2>3, <2>4, <2>5 DEF Segment
<1> QED
  BY <1>1, <1>2, <1>3, <1>4 DEF Parsed

\* The row without n cells of its first segment, and without the header as well
\* when nothing is left of that segment.
LEMMA TakeParsed ==
  ASSUME NEW C, NEW u \in Nat, NEW l \in Nat, Parsed(C, u, l), u > 0,
         NEW n \in Nat \ {0}, NEW rest, rest = Less(C[0], n),
         n <= IF C[0].a > 0 THEN C[0].a ELSE C[0].b,
         NEW shift, shift = IF NonEmpty(rest) THEN n ELSE n + 1,
         NEW v, v = u - shift, NEW m, m = IF shift <= l THEN l - shift ELSE 0,
         NEW D, IsRow(D, v),
         NonEmpty(rest) => D[0] = rest,
         \A q \in 0..v - 1 : (NonEmpty(rest) => q # 0) => D[q] = C[q + shift]
  PROVE  Parsed(D, v, m)
<1> DEFINE e == End(C, 0)
<1>1. /\ l \in 0..u - 1 /\ IsHeader(C, 0) /\ IsHeader(C, l) /\ End(C, l) = u
      /\ Segment(C, u, 0) /\ C[0].a \in Nat /\ C[0].b \in Nat
  BY SMTT(30), CellFields DEF Parsed
<1>r. \/ n <= C[0].a /\ rest = Header(C[0].a - n, C[0].b)
      \/ C[0].a = 0 /\ n <= C[0].b /\ rest = Header(0, C[0].b - n)
  BY SMTT(30), <1>1 DEF Less
<1>2. /\ e = 1 + C[0].a + C[0].b /\ e \in 1..u
      /\ l = 0 => e = u
      /\ l # 0 => e <= l
  BY SMTT(30), <1>1, LastIsLast DEF Segment, End
<1>3. /\ rest.a \in Nat /\ rest.b \in Nat /\ rest.kind = "header"
      /\ rest.a + rest.b + n + 1 = e
  BY <1>1, <1>r, <1>2, HeaderFields
<1>4. /\ NonEmpty(rest) => shift = n /\ shift < e - 1
      /\ ~NonEmpty(rest) => shift = n + 1 /\ shift = e
      /\ shift \in 1..e
  BY <1>2, <1>3 DEF NonEmpty
<1> HIDE DEF e
<1>5. shift \in 1..u /\ m \in Nat
  BY SMTT(30), <1>1, <1>2, <1>4
<1>6. ASSUME NEW p \in 0..u - shift - 1, (NonEmpty(rest) => p # 0)
      PROVE  /\ D[p] = C[p + shift] /\ p + shift \in 0..u - 1
             /\ End(C, p + shift) = End(D, p) + shift
             /\ D[p].a \in Nat /\ D[p].b \in Nat /\ End(D, p) \in Nat
  <2>1. D[p] = C[p + shift] /\ p + shift \in 0..u - 1
    BY <1>5, <1>6
  <2>2. C[p + shift].a \in Nat /\ C[p + shift].b \in Nat
    BY Zenon, <2>1, CellFields DEF Parsed
  <2> QED
    BY <1>5, <2>1, <2>2 DEF End
<1>7. ASSUME NEW p \in 0..u - shift - 1, IsHeader(D, p), (NonEmpty(rest) => p # 0)
      PROVE  Segment(D, u - shift, p)
  <2>1. /\ D[p] = C[p + shift] /\ p + shift \in 0..u - 1
        /\ End(C, p + shift) = End(D, p) + shift
        /\ D[p].a \in Nat /\ D[p].b \in Nat
    BY Zenon, <1>6, <1>7
  <2>2. Segment(C, u, p + shift)
    BY Zenon, <1>7, <2>1 DEF IsHeader, Parsed
  <2>3. End(D, p) \in Nat /\ End(D, p) > p
    BY SMTT(30), <2>1 DEF End
  <2>4. End(D, p) < u - shift => IsHeader(D, End(D, p))
    BY <1>5, <1>6, <2>1, <2>2, <2>3 DEF Segment, IsHeader
  <2>5. ASSUME NEW q \in p + 1..p + D[p].a
        PROVE  IsControl(D, q)
    <3>1. q \in 0..u - shift - 1 /\ q # 0
      BY SMTT(30), <1>5, <2>1, <2>2 DEF Segment, End
    <3>2. IsControl(C, q + shift)
      BY <1>5, <2>1, <2>2, <3>1 DEF Segment
    <3> QED
      BY ZenonT(30), <1>6, <3>1, <3>2 DEF IsControl
  <2>6. ASSUME NEW q \in p + D[p].a + 1..End(D, p) - 1
        PROVE  D[q].kind = "byte"
    <3>1. q \in 0..u - shift - 1 /\ q # 0
      BY SMTT(30), <1>5, <2>1, <2>2, <2>3 DEF Segment
    <3>2. C[q + shift].kind = "byte"
      BY SMTT(30), <1>5, <2>1, <2>2, <2>3, <3>1 DEF Segment
    <3> QED
      BY Zenon, <1>6, <3>1, <3>2
  <2> QED
    BY <1>5, <2>1, <2>2, <2>3, <2>4, <2>5, <2>6 DEF Segment
<1>8. ASSUME NonEmpty(rest)
      PROVE  IsHeader(D, 0) /\ End(D, 0) = e - shift /\ Segment(D, u - shift, 0)
  <2>1. D[0] = rest /\ shift = n /\ shift < e - 1
    BY Zenon, <1>4, <1>8
  <2>2. IsHeader(D, 0) /\ End(D, 0) = e - shift
    BY <1>2, <1>3, <2>1 DEF IsHeader, End
  <2>3. e - shift < u - shift => IsHeader(D, e - shift)
    <3> SUFFICES ASSUME e - shift < u - shift PROVE IsHeader(D, e - shift)
      BY Zenon
    <3>1. IsHeader(C, e)
      BY <1>1, <1>2, <1>5 DEF Segment, e
    <3>2. e - shift \in 0..u - shift - 1 /\ e - shift # 0 /\ e - shift + shift = e
      BY <1>2, <1>4, <1>5, <2>1
    <3> QED
      BY Zenon, <1>6, <3>1, <3>2 DEF IsHeader
  <2>4. ASSUME NEW q \in 1..rest.a
        PROVE  IsControl(D, q)
    <3>1. rest.a = C[0].a - n /\ n <= C[0].a
      BY <1>1, <1>r, <2>4, HeaderFields
    <3>2. q \in 0..u - shift - 1 /\ q # 0 /\ q + shift \in 1..C[0].a
      BY <1>1, <1>2, <1>3, <1>5, <2>1, <3>1
    <3>3. IsControl(C, q + shift)
      BY <1>1, <3>2 DEF Segment
    <3> QED
      BY Zenon, <1>6, <3>2, <3>3 DEF IsControl
  <2>5. ASSUME NEW q \in rest.a + 1..e - shift - 1
        PROVE  D[q].kind = "byte"
    <3>1. q \in 0..u - shift - 1 /\ q # 0 /\ q + shift \in C[0].a + 1..e - 1
      BY <1>1, <1>r, <1>2, <1>3, <1>5, <2>1, HeaderFields
    <3>2. C[q + shift].kind = "byte"
      BY <1>1, <3>1 DEF Segment, e
    <3> QED
      BY Zenon, <1>6, <3>1, <3>2
  <2>6. D[0].a = rest.a /\ D[0].b = rest.b
    BY Zenon, <2>1
  <2> QED
    BY <1>2, <1>3, <1>5, <2>1, <2>2, <2>3, <2>4, <2>5, <2>6 DEF Segment
<1>9. CASE u - shift = 0
  BY <1>1, <1>2, <1>4, <1>5, <1>9 DEF Parsed
<1>10. CASE u - shift # 0
  <2>1. IsHeader(D, 0)
    <3>1. CASE NonEmpty(rest)
      BY Zenon, <1>8, <3>1
    <3>2. CASE ~NonEmpty(rest)
      <4>1. shift = e /\ e < u
        BY <1>2, <1>4, <1>10, <3>2
      <4>2. IsHeader(C, e)
        BY Zenon, <1>1, <4>1 DEF Segment, e
      <4> QED
        BY <1>6, <1>10, <1>5, <3>2, <4>1, <4>2 DEF IsHeader
    <3> QED
      BY Zenon, <3>1, <3>2
  <2>2. m < u - shift /\ IsHeader(D, m) /\ End(D, m) = u - shift
    <3>1. CASE l = 0
      <4>1. NonEmpty(rest) /\ m = 0
        BY <1>2, <1>4, <1>10, <3>1
      <4> QED
        BY <1>2, <1>5, <1>8, <1>10, <3>1, <4>1
    <3>2. CASE l # 0
      <4>1. m = l - shift /\ m \in 0..u - shift - 1 /\ (NonEmpty(rest) => m # 0)
        BY <1>1, <1>2, <1>4, <1>5, <3>2
      <4>2. m + shift = l
        BY <1>5, <4>1
      <4>3. D[m] = C[l] /\ End(D, m) + shift = u /\ End(D, m) \in Nat
        BY Zenon, <1>1, <1>6, <4>1, <4>2
      <4> QED
        BY <1>1, <1>5, <4>1, <4>3 DEF IsHeader
    <3> QED
      BY Zenon, <3>1, <3>2
  <2>3. \A p \in 0..u - shift - 1 : IsHeader(D, p) => Segment(D, u - shift, p)
    BY Zenon, <1>7, <1>8
  <2> QED
    BY <1>5, <1>10, <2>1, <2>2, <2>3 DEF Parsed
<1> QED
  BY Zenon, <1>9, <1>10

-----------------------------------------------------------------------------
(* The ring.                                                               *)

\* The place of a position in the buffer.
Place(q) == (buffer_offset + q) % buffer_size

RingType ==
  buffer_size \in Nat /\ buffer_size >= 2 /\ buffer_offset \in 0..buffer_size - 1

LEMMA Places ==
  ASSUME RingType, NEW q \in 0..buffer_size
  PROVE  /\ Place(q) = IF buffer_offset + q < buffer_size THEN buffer_offset + q
                       ELSE buffer_offset + q - buffer_size
         /\ Place(q) \in 0..buffer_size - 1
<1>1. buffer_offset + q \in 0..buffer_size + buffer_size - 1 /\ buffer_size \in Nat \ {0}
  BY DEF RingType
<1>2. Place(q) = IF buffer_offset + q < buffer_size THEN buffer_offset + q
                 ELSE buffer_offset + q - buffer_size
  BY <1>1 DEF Place, RingType
<1> QED
  BY <1>2 DEF RingType

\* What WriteBuffer makes of the cell at each position.
LEMMA WriteCells ==
  ASSUME RingType, NEW cells, Len(cells) \in Nat,
         NEW position \in 0..buffer_size, Len(cells) <= buffer_size - position,
         NEW at \in 0..buffer_size - 1, NEW header,
         NEW q \in 0..buffer_size - 1
  PROVE  WriteBuffer(cells, position, header, at)[Place(q)] =
           IF q = at THEN header
           ELSE IF position <= q /\ q < position + Len(cells)
                THEN cells[q - position + 1]
           ELSE ReadBuffer(q)
<1> DEFINE i == Place(q)
           start == Place(position)
           k == (i + buffer_size - start) % buffer_size
<1>1. /\ buffer_size \in Nat /\ buffer_size >= 2 /\ buffer_offset \in 0..buffer_size - 1
      /\ buffer_size \in Nat \ {0}
  BY DEF RingType
<1>2. /\ i = IF buffer_offset + q < buffer_size THEN buffer_offset + q
             ELSE buffer_offset + q - buffer_size
      /\ i \in 0..buffer_size - 1
  BY <1>1, Places
<1>3. /\ start = IF buffer_offset + position < buffer_size
                 THEN buffer_offset + position
                 ELSE buffer_offset + position - buffer_size
      /\ start \in 0..buffer_size - 1
  BY Zenon, <1>1, Places
<1>4. /\ Place(at) = IF buffer_offset + at < buffer_size THEN buffer_offset + at
                     ELSE buffer_offset + at - buffer_size
      /\ Place(at) \in 0..buffer_size - 1
  BY <1>1, Places
<1>5. WriteBuffer(cells, position, header, at)[i] =
        IF i = Place(at) THEN header
        ELSE IF k < Len(cells) THEN cells[k + 1] ELSE buffer[i]
  BY Zenon, <1>2 DEF WriteBuffer, Place
<1>6. i = Place(at) <=> q = at
  BY <1>1, <1>2, <1>4
<1> HIDE DEF i, start
<1>7. k = IF i + buffer_size - start < buffer_size THEN i + buffer_size - start
          ELSE i - start
  <2>1. i + buffer_size - start \in 0..buffer_size + buffer_size - 1
    BY <1>1, <1>2, <1>3
  <2> QED
    BY <1>1, <1>2, <1>3, <2>1
<1> HIDE DEF k
<1>8. CASE position <= q
  <2>1. k = q - position
    BY <1>1, <1>2, <1>3, <1>7, <1>8
  <2> QED
    BY <1>5, <1>6, <1>8, <2>1 DEF i, ReadBuffer, Place
<1>9. CASE q < position
  <2>1. ~(k < Len(cells))
    BY <1>1, <1>2, <1>3, <1>7, <1>9
  <2> QED
    BY <1>5, <1>6, <1>9, <2>1 DEF i, ReadBuffer, Place
<1> QED
  BY <1>8, <1>9

LEMMA WriteType ==
  ASSUME RingType, buffer \in [0..buffer_size - 1 -> CellType],
         NEW cells \in Seq(CellType), NEW position \in 0..buffer_size,
         NEW header \in CellType, NEW at
  PROVE  WriteBuffer(cells, position, header, at) \in [0..buffer_size - 1 -> CellType]
<1> DEFINE W == WriteBuffer(cells, position, header, at)
<1>1. ASSUME NEW j \in 0..buffer_size - 1
      PROVE  W[j] \in CellType
  <2>1. W[j] = LET start == (buffer_offset + position) % buffer_size
                   k == (j + buffer_size - start) % buffer_size
               IN IF j = (buffer_offset + at) % buffer_size THEN header
                  ELSE IF k < Len(cells) THEN cells[k + 1] ELSE buffer[j]
    BY Zenon DEF WriteBuffer
  <2>2. \A k \in Nat : k < Len(cells) => cells[k + 1] \in CellType
    OBVIOUS
  <2>3. (j + buffer_size - ((buffer_offset + position) % buffer_size)) % buffer_size
          \in Nat
    <3>1. (buffer_offset + position) % buffer_size \in 0..buffer_size - 1
      BY DEF RingType
    <3> QED
      BY <3>1 DEF RingType
  <2> QED
    BY Zenon, <2>1, <2>2, <2>3
<1>2. W = [j \in 0..buffer_size - 1 |-> W[j]]
  BY Zenon DEF WriteBuffer
<1> QED
  BY Zenon, <1>1, <1>2

\* The buffer's cells are cells.
LEMMA RingCells ==
  ASSUME Types
  PROVE  /\ RingType /\ buffer_used \in 0..buffer_size /\ buffer_used \in Nat
         /\ \A q \in 0..buffer_size - 1 : ReadBuffer(q) \in CellType
         /\ IsRow(Cells, buffer_used)
<1>1. RingType /\ buffer_used \in 0..buffer_size /\ buffer_used \in Nat
  BY DEF Types, RingType
<1>2. ASSUME NEW q \in 0..buffer_size - 1 PROVE ReadBuffer(q) \in CellType
  <2>1. Place(q) \in 0..buffer_size - 1
    BY <1>1, Places DEF RingType
  <2> QED
    BY Zenon, <2>1 DEF Types, ReadBuffer, Place
<1>3. \A q \in 0..buffer_used - 1 : ReadBuffer(q) \in CellType
  BY <1>1, <1>2 DEF RingType
<1>4. IsRow(Cells, buffer_used)
  BY Zenon, <1>3 DEF IsRow, Cells
<1> QED
  BY Zenon, <1>1, <1>2, <1>4

\* Whether new data joins the last segment.
Joins(is_ancillary) ==
  buffer_used > 0 /\ ~(is_ancillary /\ ReadBuffer(last_header_position).b > 0)

\* Enqueue appends its cells to the last segment, or makes a new one of them.
LEMMA EnqueueRow ==
  ASSUME Types, Parsed(Cells, buffer_used, last_header_position),
         NEW cells \in Seq(CellType), Len(cells) > 0, NEW is_ancillary \in BOOLEAN,
         \A k \in 1..Len(cells) : IF is_ancillary THEN IsControl(cells, k)
                                  ELSE cells[k].kind = "byte",
         buffer_used + Len(cells) + (IF Joins(is_ancillary) THEN 0 ELSE 1)
           <= buffer_size,
         Enqueue(cells, is_ancillary)
  PROVE  /\ buffer' \in [0..buffer_size - 1 -> CellType]
         /\ buffer_used' = buffer_used + Len(cells)
                             + (IF Joins(is_ancillary) THEN 0 ELSE 1)
         /\ last_header_position' = IF Joins(is_ancillary) THEN last_header_position
                                    ELSE buffer_used
         /\ Parsed(Cells', buffer_used', last_header_position')
         /\ \A q \in 0..buffer_used - 1 :
              q # last_header_position' => Cells'[q] = Cells[q]
         /\ \A k \in 1..Len(cells) : Cells'[buffer_used' - Len(cells) + k - 1] = cells[k]
         /\ Cells'[last_header_position'] =
              LET old == IF Joins(is_ancillary) THEN Cells[last_header_position]
                         ELSE Header(0, 0)
              IN IF is_ancillary THEN Header(old.a + Len(cells), old.b)
                 ELSE Header(old.a, old.b + Len(cells))
<1> DEFINE n == Len(cells)
           joins == Joins(is_ancillary)
           l == last_header_position
           old == IF joins THEN ReadBuffer(l) ELSE Header(0, 0)
           at == IF joins THEN l ELSE buffer_used
           header == IF is_ancillary THEN Header(old.a + n, old.b)
                     ELSE Header(old.a, old.b + n)
           position == buffer_used + (IF joins THEN 0 ELSE 1)
<1>1. /\ RingType /\ buffer_used \in Nat /\ IsRow(Cells, buffer_used)
      /\ buffer_used \in 0..buffer_size /\ buffer_size \in Nat
      /\ \A q \in 0..buffer_size - 1 : ReadBuffer(q) \in CellType
  BY Zenon, RingCells DEF RingType
<1>2. /\ l \in Nat /\ (buffer_used = 0 => l = 0) /\ (buffer_used > 0 => l < buffer_used)
      /\ n \in Nat /\ n > 0
  BY <1>1 DEF Parsed
<1>3. /\ buffer' = WriteBuffer(cells, position, header, at)
      /\ l' = at /\ buffer_used' = position + n
      /\ buffer_offset' = buffer_offset /\ buffer_size' = buffer_size
  <2>1. joins <=> l < buffer_used /\ ~(is_ancillary /\ ReadBuffer(l).b > 0)
    BY <1>1, <1>2 DEF Joins
  <2> QED
    BY Zenon, <2>1 DEF Enqueue
<1>4. /\ old.a \in Nat /\ old.b \in Nat
      /\ (joins => old = Cells[l] /\ l \in 0..buffer_used - 1)
  <2>1. CASE joins
    <3>1. l \in 0..buffer_used - 1
      BY <1>1, <1>2, <2>1 DEF Joins
    <3>2. Cells[l] = ReadBuffer(l) /\ Cells[l].a \in Nat /\ Cells[l].b \in Nat
      BY Zenon, <1>1, <3>1, CellFields DEF Cells
    <3> QED
      BY Zenon, <2>1, <3>1, <3>2
  <2>2. CASE ~joins
    BY <2>2, HeaderFields
  <2> QED
    BY Zenon, <2>1, <2>2
<1>5. header \in CellType
  BY SMTT(30), <1>2, <1>4 DEF Header, Cell, CellType
<1>6. /\ position \in 0..buffer_size /\ n <= buffer_size - position
      /\ at \in 0..buffer_size - 1 /\ buffer_used \in 0..position
      /\ at < position
  BY SMTT(30), <1>1, <1>2, <1>4
<1> HIDE DEF joins, header, at, position, n
<1>7. ASSUME NEW q \in 0..buffer_size - 1
      PROVE  ReadBuffer(q)' = IF q = at THEN header
                              ELSE IF position <= q /\ q < position + n
                                   THEN cells[q - position + 1]
                              ELSE ReadBuffer(q)
  <2>1. ReadBuffer(q)' = WriteBuffer(cells, position, header, at)[Place(q)]
    BY Zenon, <1>3 DEF ReadBuffer, Place
  <2> QED
    BY <1>1, <1>2, <1>6, <2>1, WriteCells DEF n
<1>8. buffer' \in [0..buffer_size - 1 -> CellType]
  BY Zenon, <1>1, <1>3, <1>5, <1>6, WriteType DEF Types
<1>9. ASSUME NEW q \in 0..buffer_used' - 1
      PROVE  /\ Cells'[q] = IF q = at THEN header
                            ELSE IF position <= q THEN cells[q - position + 1]
                            ELSE Cells[q]
             /\ Cells'[q] \in CellType
  <2>1. q \in 0..buffer_size - 1 /\ q < position + n
    BY <1>1, <1>2, <1>3, <1>6
  <2>2. Cells'[q] = ReadBuffer(q)'
    BY Zenon, <1>9 DEF Cells
  <2>3. q # at /\ q < position => q \in 0..buffer_used - 1
    BY <1>1, <1>6, <2>1 DEF at, position
  <2>4. q \in 0..buffer_used - 1 => Cells[q] = ReadBuffer(q)
    BY Zenon DEF Cells
  <2>5. position <= q => cells[q - position + 1] \in CellType
    BY <1>2, <1>6, <2>1 DEF n
  <2>6. ReadBuffer(q) \in CellType
    BY Zenon, <1>1, <2>1
  <2> QED
    BY <1>5, <1>6, <1>7, <2>1, <2>2, <2>3, <2>4, <2>5, <2>6
<1>10. IsRow(Cells', buffer_used')
  <2>1. Cells' = [q \in 0..buffer_used' - 1 |-> Cells'[q]]
    BY Zenon DEF Cells
  <2> QED
    BY Zenon, <1>9, <2>1 DEF IsRow
<1>11. \A q \in 0..buffer_used - 1 : q # at => Cells'[q] = Cells[q]
  BY <1>1, <1>2, <1>3, <1>6, <1>9
<1>12. \A k \in 1..n : Cells'[position + k - 1] = cells[k]
  <2> SUFFICES ASSUME NEW k \in 1..n PROVE Cells'[position + k - 1] = cells[k]
    BY Zenon
  <2>1. /\ position + k - 1 \in 0..buffer_used' - 1 /\ position + k - 1 # at
        /\ position <= position + k - 1 /\ position + k - 1 - position + 1 = k
    BY SMTT(30), <1>1, <1>2, <1>3, <1>6
  <2>2. PICK q \in 0..buffer_used' - 1 : q = position + k - 1
    BY Zenon, <2>1
  <2>3. q # at /\ position <= q /\ q - position + 1 = k
    BY <1>1, <1>2, <1>6, <2>1, <2>2
  <2>4. Cells'[q] = cells[q - position + 1]
    BY Zenon, <1>9, <2>3
  <2> QED
    BY Zenon, <2>2, <2>3, <2>4
<1>13. Cells'[at] = header
  <2>1. PICK q \in 0..buffer_used' - 1 : q = at
    BY <1>1, <1>2, <1>3, <1>6
  <2>2. Cells'[q] = header
    BY Zenon, <1>9, <2>1
  <2> QED
    BY Zenon, <2>1, <2>2
<1>14. \A q \in position..position + n - 1 :
         IF is_ancillary THEN IsControl(Cells', q) ELSE Cells'[q].kind = "byte"
  <2> SUFFICES ASSUME NEW q \in position..position + n - 1
               PROVE  IF is_ancillary THEN IsControl(Cells', q)
                      ELSE Cells'[q].kind = "byte"
    BY Zenon
  <2>1. PICK k \in 1..n : q = position + k - 1
    <3>1. q - position + 1 \in 1..n /\ q = position + (q - position + 1) - 1
      BY <1>1, <1>2, <1>6
    <3> QED
      BY Zenon, <3>1
  <2>2. Cells'[q] = cells[k]
    BY Zenon, <1>12, <2>1
  <2> QED
    BY Zenon, <2>2 DEF IsControl, n
<1>15. Parsed(Cells', buffer_used', at)
  <2>1. CASE joins
    <3>1. at = l /\ position = buffer_used /\ buffer_used > 0 /\ buffer_used' = buffer_used + n
      BY <1>1, <1>3, <2>1 DEF joins, Joins, at, position
    <3>2. header = IF is_ancillary THEN Header(Cells[l].a + n, Cells[l].b)
                   ELSE Header(Cells[l].a, Cells[l].b + n)
      BY Zenon, <1>4, <2>1 DEF header
    <3>3. is_ancillary => Cells[l].b = 0
      <4>1. ~(is_ancillary /\ Cells[l].b > 0) /\ Cells[l].b \in Nat
        BY Zenon, <1>4, <2>1 DEF joins, Joins
      <4> QED
        BY <4>1
    <3>4. Parsed(Cells', buffer_used + n, l)
      <4>1. CASE is_ancillary
        <5>1. Cells[l].b = 0 /\ Cells'[l] = Header(Cells[l].a + n, 0)
          BY Zenon, <1>13, <3>1, <3>2, <3>3, <4>1
        <5>2. \A q \in buffer_used..buffer_used + n - 1 : IsControl(Cells', q)
          BY Zenon, <1>14, <3>1, <4>1
        <5> QED
          BY Zenon, <1>1, <1>2, <1>10, <1>11, <3>1, <5>1, <5>2, JoinParsed
      <4>2. CASE ~is_ancillary
        <5>1. Cells'[l] = Header(Cells[l].a, Cells[l].b + n)
          BY Zenon, <1>13, <3>1, <3>2, <4>2
        <5>2. \A q \in buffer_used..buffer_used + n - 1 : Cells'[q].kind = "byte"
          BY Zenon, <1>14, <3>1, <4>2
        <5> QED
          BY Zenon, <1>1, <1>2, <1>10, <1>11, <3>1, <5>1, <5>2, JoinParsed
      <4> QED
        BY Zenon, <4>1, <4>2
    <3> QED
      BY Zenon, <3>1, <3>4
  <2>2. CASE ~joins
    <3>1. /\ at = buffer_used /\ position = buffer_used + 1
          /\ buffer_used' = buffer_used + n + 1
      BY <1>1, <1>2, <1>3, <2>2 DEF at, position
    <3>2. header = IF is_ancillary THEN Header(n, 0) ELSE Header(0, n)
      BY <1>2, <2>2, HeaderFields DEF header
    <3>3. \A q \in buffer_used + 1..buffer_used + n :
            IF is_ancillary THEN IsControl(Cells', q) ELSE Cells'[q].kind = "byte"
      <4>1. buffer_used + 1..buffer_used + n = position..position + n - 1
        BY <1>1, <1>2, <3>1
      <4> QED
        BY Zenon, <1>14, <4>1
    <3>4. \A q \in 0..buffer_used - 1 : Cells'[q] = Cells[q]
      BY <1>1, <1>11, <3>1
    <3>5. n \in Nat \ {0}
      BY <1>2
    <3>6. Parsed(Cells', buffer_used + n + 1, buffer_used)
      <4>1. CASE is_ancillary
        <5>1. /\ Cells'[buffer_used] = Header(n, 0)
              /\ \A q \in buffer_used + 1..buffer_used + n : IsControl(Cells', q)
          BY Zenon, <1>13, <3>1, <3>2, <3>3, <4>1
        <5> QED
          BY Zenon, <1>1, <1>2, <1>10, <3>1, <3>4, <3>5, <5>1, NewParsed
      <4>2. CASE ~is_ancillary
        <5>1. /\ Cells'[buffer_used] = Header(0, n)
              /\ \A q \in buffer_used + 1..buffer_used + n : Cells'[q].kind = "byte"
          BY Zenon, <1>13, <3>1, <3>2, <3>3, <4>2
        <5> QED
          BY Zenon, <1>1, <1>2, <1>10, <3>1, <3>4, <3>5, <5>1, NewParsed
      <4> QED
        BY Zenon, <4>1, <4>2
    <3> QED
      BY Zenon, <3>1, <3>6
  <2> QED
    BY Zenon, <2>1, <2>2
<1>16. buffer_used' = buffer_used + n + (IF joins THEN 0 ELSE 1)
  BY <1>1, <1>2, <1>3 DEF position
<1>17. \A k \in 1..n : Cells'[buffer_used' - n + k - 1] = cells[k]
  <2>1. \A k \in 1..n : buffer_used' - n + k - 1 = position + k - 1
    BY <1>1, <1>2, <1>3, <1>6
  <2> QED
    BY Zenon, <1>12, <2>1
<1>18. header = LET o == IF joins THEN Cells[l] ELSE Header(0, 0)
                IN IF is_ancillary THEN Header(o.a + n, o.b) ELSE Header(o.a, o.b + n)
  BY Zenon, <1>4 DEF header
<1> QED
  BY Zenon, <1>3, <1>8, <1>11, <1>13, <1>15, <1>16, <1>17, <1>18
     DEF joins, n, at

\* With no cells, only the header is written.
LEMMA WriteHeader ==
  ASSUME RingType, NEW at \in 0..buffer_size - 1, NEW header,
         NEW q \in 0..buffer_size - 1
  PROVE  WriteBuffer(<<>>, 0, header, at)[Place(q)] =
           IF q = at THEN header ELSE ReadBuffer(q)
<1>1. PICK cells : cells = <<>>
  BY Zenon
<1>2. Len(cells) = 0 /\ 0 \in 0..buffer_size /\ 0 <= buffer_size - 0
  BY <1>1 DEF RingType
<1>3. WriteBuffer(cells, 0, header, at)[Place(q)] =
        IF q = at THEN header
        ELSE IF 0 <= q /\ q < 0 + Len(cells) THEN cells[q - 0 + 1] ELSE ReadBuffer(q)
  BY <1>2, WriteCells
<1> QED
  BY <1>1, <1>2, <1>3

\* The positions of a shorter row are positions of a longer one.
LEMMA Fewer ==
  ASSUME NEW n \in Nat, NEW m \in Nat, NEW k \in Nat, n < m, m \in 0..k,
         NEW q \in 0..n - 1
  PROVE  q \in 0..k - 1 /\ q \in 0..m - 1
OBVIOUS

\* Unenqueue takes the last cell back, with the header when it is the only one.
LEMMA UnenqueueRow ==
  ASSUME Types, Parsed(Cells, buffer_used, last_header_position), buffer_used > 0,
         Cells[last_header_position].b = 0, Cells[last_header_position].a > 0,
         NEW saved \in Nat,
         Cells[last_header_position].a = 1 =>
           IF last_header_position = 0 THEN saved = 0
           ELSE /\ saved < last_header_position /\ IsHeader(Cells, saved)
                /\ End(Cells, saved) = last_header_position,
         Unenqueue(saved)
  PROVE  /\ buffer' \in [0..buffer_size - 1 -> CellType]
         /\ IF Cells[last_header_position].a > 1
            THEN /\ buffer_used' = buffer_used - 1
                 /\ last_header_position' = last_header_position
                 /\ last_header_position < buffer_used - 1
                 /\ Cells'[last_header_position] =
                      Header(Cells[last_header_position].a - 1, 0)
            ELSE /\ buffer_used' = buffer_used - 2 /\ last_header_position' = saved
                 /\ last_header_position = buffer_used - 2
         /\ buffer_used' \in Nat
         /\ Parsed(Cells', buffer_used', last_header_position')
         /\ \A q \in 0..buffer_used' - 1 :
              q # last_header_position => Cells'[q] = Cells[q]
<1> DEFINE l == last_header_position
           a == Cells[l].a
           rest == Header(a - 1, 0)
<1>1. /\ RingType /\ buffer_used \in Nat /\ IsRow(Cells, buffer_used)
      /\ buffer_used \in 0..buffer_size /\ buffer_size \in Nat
      /\ \A q \in 0..buffer_size - 1 : ReadBuffer(q) \in CellType
  BY Zenon, RingCells DEF RingType
<1>2. /\ l \in Nat /\ l \in 0..buffer_used - 1 /\ End(Cells, l) = buffer_used
      /\ IsHeader(Cells, l)
  BY <1>1 DEF Parsed
<1>3. Cells[l] = ReadBuffer(l) /\ a \in Nat /\ a > 0 /\ l + 1 + a = buffer_used
  BY SMTT(30), <1>1, <1>2, CellFields DEF Cells, End
<1>4. Less(ReadBuffer(l), 1) = rest /\ (NonEmpty(rest) <=> a > 1)
  BY <1>3, HeaderFields DEF Less, NonEmpty
<1> HIDE DEF rest, a
<1>5. /\ buffer_offset' = buffer_offset /\ buffer_size' = buffer_size
      /\ buffer_used' = IF a > 1 THEN buffer_used - 1 ELSE buffer_used - 2
      /\ l' = IF a > 1 THEN l ELSE saved
      /\ buffer' = IF a > 1 THEN WriteBuffer(<<>>, 0, rest, l) ELSE buffer
  BY Zenon, <1>4 DEF Unenqueue
<1>n. /\ a \in Nat /\ a > 0 /\ l \in Nat /\ l + 1 + a = buffer_used
      /\ buffer_used' = IF a > 1 THEN buffer_used - 1 ELSE buffer_used - 2
      /\ last_header_position' = IF a > 1 THEN l ELSE saved
  BY Zenon, <1>2, <1>3, <1>5
<1>6. rest \in CellType
  BY <1>3 DEF rest, Header, Cell, CellType
<1>7. buffer' \in [0..buffer_size - 1 -> CellType]
  <2>1. buffer \in [0..buffer_size - 1 -> CellType]
    BY Zenon DEF Types
  <2>2. <<>> \in Seq(CellType) /\ 0 \in 0..buffer_size
    BY <1>1
  <2> QED
    BY Zenon, <1>1, <1>5, <1>6, <2>1, <2>2, WriteType
<1>8. ASSUME NEW q \in 0..buffer_size - 1
      PROVE  ReadBuffer(q)' = IF a > 1 /\ q = l THEN rest ELSE ReadBuffer(q)
  <2>1. CASE a > 1
    <3>1. ReadBuffer(q)' = WriteBuffer(<<>>, 0, rest, l)[Place(q)]
      BY Zenon, <1>5, <2>1 DEF ReadBuffer, Place
    <3>2. l \in 0..buffer_size - 1
      BY <1>1, <1>2
    <3> QED
      BY <1>1, <2>1, <3>1, <3>2, WriteHeader
  <2>2. CASE ~(a > 1)
    BY Zenon, <1>5, <2>2 DEF ReadBuffer
  <2> QED
    BY Zenon, <2>1, <2>2
<1>9. buffer_used' \in Nat /\ buffer_used' < buffer_used
  BY <1>1, <1>2, <1>3, <1>5
<1>10. ASSUME NEW q \in 0..buffer_used' - 1
       PROVE  /\ Cells'[q] = IF a > 1 /\ q = l THEN rest ELSE Cells[q]
              /\ Cells'[q] \in CellType
  <2>0. buffer_used \in Nat /\ buffer_used \in 0..buffer_size /\ buffer_size \in Nat
    BY Zenon, <1>1
  <2>1. q \in 0..buffer_size - 1 /\ q \in 0..buffer_used - 1
    BY Zenon, <1>9, <2>0, Fewer
  <2>2. Cells'[q] = ReadBuffer(q)' /\ Cells[q] = ReadBuffer(q)
    BY Zenon, <2>1 DEF Cells
  <2> QED
    BY Zenon, <1>1, <1>6, <1>8, <2>1, <2>2
<1>11. IsRow(Cells', buffer_used')
  <2>1. Cells' = [q \in 0..buffer_used' - 1 |-> Cells'[q]]
    BY Zenon DEF Cells
  <2> QED
    BY Zenon, <1>10, <2>1 DEF IsRow
<1>12. \A q \in 0..buffer_used' - 1 : q # l => Cells'[q] = Cells[q]
  BY Zenon, <1>10
<1>13. CASE a > 1
  <2>1. buffer_used' = buffer_used - 1 /\ l' = l /\ l < buffer_used - 1
    BY <1>n, <1>13
  <2>2. Cells'[l] = rest
    <3>1. PICK q \in 0..buffer_used' - 1 : q = l
      BY <1>1, <1>2, <2>1
    <3> QED
      BY Zenon, <1>10, <1>13, <3>1
  <2>3. \A q \in 0..buffer_used - 2 : q # l => Cells'[q] = Cells[q]
    BY <1>1, <1>12, <2>1
  <2>4. Parsed(Cells', buffer_used - 1, l)
    BY Zenon, <1>1, <1>2, <1>11, <1>13, <2>1, <2>2, <2>3, ShrinkParsed
       DEF rest, a
  <2> QED
    BY Zenon, <1>7, <1>9, <1>12, <1>13, <2>1, <2>2, <2>4 DEF rest, a
<1>14. CASE ~(a > 1)
  <2>1. a = 1 /\ buffer_used' = buffer_used - 2 /\ l' = saved /\ l = buffer_used - 2
    BY <1>n, <1>14
  <2>2. \A q \in 0..buffer_used - 3 : Cells'[q] = Cells[q]
    BY <1>1, <1>12, <2>1
  <2>3. Parsed(Cells', buffer_used - 2, saved)
    BY Zenon, <1>1, <1>2, <1>11, <2>1, <2>2, DropParsed DEF a
  <2> QED
    BY Zenon, <1>7, <1>9, <1>12, <1>14, <2>1, <2>3 DEF a
<1> QED
  BY Zenon, <1>13, <1>14

\* Dequeue takes n cells from the first segment, and the header when nothing is
\* left of it.
Shift(n) == n + (IF NonEmpty(Less(Cells[0], n)) THEN 0 ELSE 1)

LEMMA DequeueRow ==
  ASSUME Types, Parsed(Cells, buffer_used, last_header_position), buffer_used > 0,
         NEW n \in Nat \ {0},
         n <= IF Cells[0].a > 0 THEN Cells[0].a ELSE Cells[0].b,
         Dequeue(n)
  PROVE  /\ buffer' \in [0..buffer_size - 1 -> CellType]
         /\ buffer_offset' \in 0..buffer_size - 1
         /\ Shift(n) \in 1..buffer_used /\ buffer_used' = buffer_used - Shift(n)
         /\ Parsed(Cells', buffer_used', last_header_position')
         /\ NonEmpty(Less(Cells[0], n)) =>
              Shift(n) = n /\ buffer_used' > 0 /\ Cells'[0] = Less(Cells[0], n)
         /\ ~NonEmpty(Less(Cells[0], n)) => Shift(n) = n + 1 /\ Shift(n) = End(Cells, 0)
         /\ \A q \in 0..buffer_used' - 1 :
              (NonEmpty(Less(Cells[0], n)) => q # 0) => Cells'[q] = Cells[q + Shift(n)]
<1> DEFINE l == last_header_position
           rest == Less(Cells[0], n)
           shift == Shift(n)
<1>1. /\ RingType /\ buffer_used \in Nat /\ IsRow(Cells, buffer_used)
      /\ buffer_used \in 0..buffer_size /\ buffer_size \in Nat
      /\ buffer_offset \in 0..buffer_size - 1
      /\ \A q \in 0..buffer_size - 1 : ReadBuffer(q) \in CellType
  BY Zenon, RingCells DEF RingType
<1>2. /\ 0 \in 0..buffer_used - 1 /\ Cells[0] = ReadBuffer(0)
      /\ l \in Nat /\ l < buffer_used /\ Segment(Cells, buffer_used, 0)
  BY <1>1 DEF Parsed, Cells
<1>3. Cells[0].a \in Nat /\ Cells[0].b \in Nat
  BY Zenon, <1>1, <1>2, CellFields
<1>4. \/ n <= Cells[0].a /\ rest = Header(Cells[0].a - n, Cells[0].b)
      \/ Cells[0].a = 0 /\ n <= Cells[0].b /\ rest = Header(0, Cells[0].b - n)
  BY <1>3 DEF Less
<1>5. rest \in CellType /\ rest.a \in Nat /\ rest.b \in Nat
      /\ rest.a + rest.b + n + 1 = End(Cells, 0)
  <2>1. rest.a \in Nat /\ rest.b \in Nat /\ rest.a + rest.b + n + 1 = End(Cells, 0)
    BY <1>3, <1>4, HeaderFields DEF End
  <2>2. rest \in CellType
    <3>1. CASE n <= Cells[0].a /\ rest = Header(Cells[0].a - n, Cells[0].b)
      <4>1. Cells[0].a - n \in Nat
        BY <1>3, <3>1
      <4> QED
        BY <1>3, <3>1, <4>1 DEF Header, Cell, CellType
    <3>2. CASE Cells[0].a = 0 /\ n <= Cells[0].b /\ rest = Header(0, Cells[0].b - n)
      <4>1. Cells[0].b - n \in Nat
        BY <1>3, <3>2
      <4> QED
        BY <1>3, <3>2, <4>1 DEF Header, Cell, CellType
    <3> QED
      BY Zenon, <1>4, <3>1, <3>2
  <2> QED
    BY Zenon, <2>1, <2>2
<1>6. End(Cells, 0) <= buffer_used
  BY Zenon, <1>2 DEF Segment
<1>7. /\ NonEmpty(rest) => shift = n /\ shift < buffer_used
      /\ ~NonEmpty(rest) => shift = n + 1 /\ shift = End(Cells, 0)
      /\ shift \in 1..buffer_used
  BY <1>1, <1>5, <1>6 DEF NonEmpty, Shift
<1>8. /\ buffer' = IF NonEmpty(rest) THEN WriteBuffer(<<>>, 0, rest, n) ELSE buffer
      /\ buffer_offset' = IF buffer_used - shift = 0 THEN 0
                          ELSE (buffer_offset + shift) % buffer_size
      /\ buffer_used' = buffer_used - shift
      /\ l' = IF buffer_used - shift = 0 THEN 0
              ELSE IF shift <= l THEN l - shift ELSE 0
      /\ buffer_size' = buffer_size
  BY Zenon, <1>2 DEF Dequeue, Shift
<1>9. shift = n + (IF NonEmpty(rest) THEN 0 ELSE 1)
  BY Zenon DEF Shift
<1> HIDE DEF rest, shift
<1>u. buffer_used' = buffer_used - shift /\ buffer_used' \in Nat
  BY <1>1, <1>7, <1>8
<1>n. /\ buffer_used \in Nat /\ buffer_size \in Nat /\ buffer_used <= buffer_size
      /\ shift \in 1..buffer_used
  BY <1>1, <1>7
<1>10. buffer' \in [0..buffer_size - 1 -> CellType]
  <2>1. buffer \in [0..buffer_size - 1 -> CellType]
    BY Zenon DEF Types
  <2>2. <<>> \in Seq(CellType) /\ 0 \in 0..buffer_size
    BY <1>1
  <2> QED
    BY Zenon, <1>1, <1>5, <1>8, <2>1, <2>2, WriteType
<1>11. buffer_offset' \in 0..buffer_size - 1
  <2>1. shift \in 0..buffer_size
    BY <1>1, <1>7
  <2>2. Place(shift) \in 0..buffer_size - 1
    BY Zenon, <1>1, <2>1, Places
  <2> QED
    BY <1>1, <1>8, <2>2 DEF Place
<1>12. ASSUME NEW q \in 0..buffer_used' - 1
       PROVE  /\ q + shift \in 0..buffer_used - 1 /\ q + shift \in 0..buffer_size - 1
              /\ buffer_offset' = Place(shift)
              /\ (buffer_offset' + q) % buffer_size = Place(q + shift)
  <2>1. /\ q + shift \in 0..buffer_used - 1 /\ q + shift \in 0..buffer_size - 1
        /\ shift \in 0..buffer_size /\ q \in 0..buffer_size - 1
        /\ q + shift \in 0..buffer_size
    BY SMTT(30), <1>u, <1>n
  <2>2. buffer_offset' = Place(shift)
    BY <1>1, <1>7, <1>8, <2>1 DEF Place
  <2>3. /\ Place(shift) = IF buffer_offset + shift < buffer_size THEN buffer_offset + shift
                          ELSE buffer_offset + shift - buffer_size
        /\ Place(shift) \in 0..buffer_size - 1
    BY Zenon, <1>1, <2>1, Places
  <2>4. Place(q + shift) = IF buffer_offset + (q + shift) < buffer_size
                           THEN buffer_offset + (q + shift)
                           ELSE buffer_offset + (q + shift) - buffer_size
    BY Zenon, <1>1, <2>1, Places
  <2>5. (buffer_offset' + q) % buffer_size =
          IF buffer_offset' + q < buffer_size THEN buffer_offset' + q
          ELSE buffer_offset' + q - buffer_size
    <3>1. PICK o \in 0..buffer_size - 1 : o = buffer_offset'
      BY Zenon, <1>11
    <3>2. (o + q) % buffer_size = IF o + q < buffer_size THEN o + q
                                  ELSE o + q - buffer_size
      BY <1>n, <2>1
    <3> QED
      BY Zenon, <3>1, <3>2
  <2> QED
    BY <1>1, <2>1, <2>2, <2>3, <2>4, <2>5
<1>13. ASSUME NEW q \in 0..buffer_used' - 1
       PROVE  /\ Cells'[q] = IF NonEmpty(rest) /\ q = 0 THEN rest ELSE Cells[q + shift]
              /\ Cells'[q] \in CellType
  <2>1. /\ q + shift \in 0..buffer_used - 1 /\ q + shift \in 0..buffer_size - 1
        /\ Cells'[q] = buffer'[Place(q + shift)]
        /\ Cells[q + shift] = ReadBuffer(q + shift)
    BY Zenon, <1>8, <1>12 DEF Cells, ReadBuffer
  <2>2. CASE NonEmpty(rest)
    <3>1. buffer'[Place(q + shift)] = WriteBuffer(<<>>, 0, rest, n)[Place(q + shift)]
      BY Zenon, <1>8, <2>2
    <3>2. n \in 0..buffer_size - 1
      BY SMTT(30), <1>1, <1>7, <2>2
    <3>3. WriteBuffer(<<>>, 0, rest, n)[Place(q + shift)] =
            IF q + shift = n THEN rest ELSE ReadBuffer(q + shift)
      BY <1>1, <2>1, <3>2, WriteHeader
    <3>4. q + shift = n <=> q = 0
      BY <1>7, <2>2
    <3> QED
      BY Zenon, <1>1, <1>5, <2>1, <2>2, <3>1, <3>3, <3>4
  <2>3. CASE ~NonEmpty(rest)
    BY Zenon, <1>1, <1>8, <2>1, <2>3 DEF ReadBuffer, Place
  <2> QED
    BY Zenon, <2>2, <2>3
<1>14. IsRow(Cells', buffer_used')
  <2>1. Cells' = [q \in 0..buffer_used' - 1 |-> Cells'[q]]
    BY Zenon DEF Cells
  <2> QED
    BY Zenon, <1>13, <2>1 DEF IsRow
<1>15. NonEmpty(rest) => buffer_used' > 0 /\ Cells'[0] = rest
  <2> SUFFICES ASSUME NonEmpty(rest) PROVE buffer_used' > 0 /\ Cells'[0] = rest
    BY Zenon
  <2>1. buffer_used' > 0
    BY <1>n, <1>u, <1>7
  <2>2. PICK q \in 0..buffer_used' - 1 : q = 0
    BY <1>u, <2>1
  <2> QED
    BY Zenon, <1>13, <2>1, <2>2
<1>16. \A q \in 0..buffer_used - shift - 1 :
         (NonEmpty(rest) => q # 0) => Cells'[q] = Cells[q + shift]
  BY Zenon, <1>8, <1>13
<1>17. Parsed(Cells', buffer_used - shift, IF shift <= l THEN l - shift ELSE 0)
  <2>1. IsRow(Cells', buffer_used - shift) /\ (NonEmpty(rest) => Cells'[0] = rest)
    BY Zenon, <1>u, <1>14, <1>15
  <2>2. PICK v, m : v = buffer_used - shift /\ m = IF shift <= l THEN l - shift ELSE 0
    BY Zenon
  <2>3. IsRow(Cells', v) /\ \A q \in 0..v - 1 :
          (NonEmpty(rest) => q # 0) => Cells'[q] = Cells[q + shift]
    BY Zenon, <1>16, <2>1, <2>2
  <2>4. PICK C, u, k, D : C = Cells /\ u = buffer_used /\ k = l /\ D = Cells'
    BY Zenon
  <2>5. u \in Nat /\ k \in Nat /\ Parsed(C, u, k) /\ u > 0
    BY Zenon, <1>1, <1>2, <2>4
  <2>6. /\ rest = Less(C[0], n) /\ n <= IF C[0].a > 0 THEN C[0].a ELSE C[0].b
        /\ shift = IF NonEmpty(rest) THEN n ELSE n + 1
    BY <1>9, <2>4 DEF rest
  <2>7. v = u - shift /\ m = IF shift <= k THEN k - shift ELSE 0
    BY Zenon, <2>2, <2>4
  <2>8. /\ IsRow(D, v) /\ (NonEmpty(rest) => D[0] = rest)
        /\ \A q \in 0..v - 1 : (NonEmpty(rest) => q # 0) => D[q] = C[q + shift]
    BY Zenon, <2>1, <2>3, <2>4
  <2>9. Parsed(D, v, m)
    BY SMTT(30), <2>5, <2>6, <2>7, <2>8, TakeParsed
  <2> QED
    BY Zenon, <2>2, <2>4, <2>9
<1>18. Parsed(Cells', buffer_used', l')
  BY Zenon, <1>8, <1>17 DEF Parsed
<1> QED
  BY Zenon, <1>7, <1>8, <1>10, <1>11, <1>15, <1>16, <1>18 DEF rest, shift

=============================================================================
