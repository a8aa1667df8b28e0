--------------------------- MODULE PassingProofs ----------------------------
(***************************************************************************)
(* Proof of NoTower for every set of threads and connections and every     *)
(* size of the buffers.  A channel is guarded by its passed_count, which   *)
(* is at least the number of references it counts: the sockets of its      *)
(* connection in any buffer, and the threads that have passed the channel  *)
(* and not put the socket into a buffer yet, or have taken the socket out  *)
(* and not unpassed the channel yet.                                       *)
(***************************************************************************)
EXTENDS Passing, FiniteSetTheorems, TLAPS

\* The steps of a call between passing_count++ and passing_count--; the call
\* counts as one more entry of its channel there.
MarkedSteps == {"send_pass_outgoing", "send_pass_incoming", "send_unpass_outgoing",
                "send_unmark", "send_enqueue", "recv_unpass_outgoing",
                "recv_unpass_incoming", "recv_unmark"}

\* The steps of a send that got past rule 1.
SendingSteps == {"send_pass_outgoing", "send_pass_incoming", "send_unpass_outgoing",
                 "send_enqueue"}

Marked(c) == \E t \in Threads : channel[t] = c /\ pc[t] \in MarkedSteps

\* The entries of the buffers whose sockets hold channel c.
InBuffer(c) ==
  {p \in Channels \X Nat : /\ p[2] \in 1..Len(buffer[p[1]])
                           /\ c \in {buffer[p[1]][p[2]], Peer(buffer[p[1]][p[2]])}}

\* Thread t holds a pass of channel c.
Holds(t, c) ==
  \/ pc[t] \in {"send_pass_incoming", "send_unpass_outgoing"} /\ c = what[t]
  \/ pc[t] \in {"send_enqueue", "recv_unpass_outgoing"} /\ c \in {what[t], Peer(what[t])}
  \/ pc[t] = "recv_unpass_incoming" /\ c = Peer(what[t])

InTransit(c) == {t \in Threads : Holds(t, c)}

Passed(c) == InBuffer(c) # {} \/ InTransit(c) # {}

\* pipe_lock keeps every channel to one call.
OneCall ==
  \A t \in Threads :
    pc[t] # "idle" =>
      /\ channel[t] \in pipe_lock
      /\ \A u \in Threads \ {t} : pc[u] # "idle" => channel[u] # channel[t]

\* passing_count is the number of entries, the one of a call included.
PassingExact ==
  \A c \in Channels :
    passing_count[c] = IF Marked(c) THEN Len(buffer[c]) + 1 ELSE Len(buffer[c])

\* A count n is enough for the references B and T.
Enough(n, B, T) ==
  /\ IsFiniteSet(B) /\ IsFiniteSet(T)
  /\ n >= Cardinality(B) + Cardinality(T)

\* passed_count is at least the number of references.  A channel that is
\* destroyed drops the ones in its buffer without unpass, so it may be more.
PassedEnough ==
  \A c \in Channels : Enough(passed_count[c], InBuffer(c), InTransit(c))

\* Nothing is in, or on the way into, the buffer of a channel that is passed.
PassedIsEmpty ==
  \A c \in Channels :
    Passed(c) =>
      /\ buffer[c] = <<>>
      /\ \A t \in Threads : channel[t] = c => pc[t] \notin SendingSteps

\* The inductive invariant.
PassingInv == TypeOK /\ OneCall /\ PassingExact /\ PassedEnough /\ PassedIsEmpty

-----------------------------------------------------------------------------
(* Facts about peers and about counts.                                     *)

LEMMA PeerFacts ==
  ASSUME NEW s \in Sockets
  PROVE  Peer(s) \in Sockets /\ Peer(Peer(s)) = s /\ Peer(s) # s
BY DEF Sockets, Peer

LEMMA AtMostOneMore ==
  ASSUME NEW S, IsFiniteSet(S), NEW x
  PROVE  /\ IsFiniteSet(S \cup {x})
         /\ Cardinality(S) \in Nat
         /\ Cardinality(S \cup {x}) \in Nat
         /\ Cardinality(S \cup {x}) <= Cardinality(S) + 1
<1>1. Cardinality(S) \in Nat
  BY Zenon, FS_CardinalityType
<1>2. /\ IsFiniteSet(S \cup {x})
      /\ Cardinality(S \cup {x}) = IF x \in S THEN Cardinality(S) ELSE Cardinality(S) + 1
  BY Zenon, FS_AddElement
<1> QED
  BY <1>1, <1>2

LEMMA EnoughForFewer ==
  ASSUME NEW n \in Nat, NEW m \in Nat, m >= n, NEW B, NEW T, Enough(n, B, T),
         NEW C \in SUBSET B, NEW U \in SUBSET T
  PROVE  Enough(m, C, U)
<1>1. /\ IsFiniteSet(C) /\ Cardinality(C) <= Cardinality(B)
      /\ IsFiniteSet(U) /\ Cardinality(U) <= Cardinality(T)
  BY Zenon, FS_Subset DEF Enough
<1>2. /\ Cardinality(B) \in Nat /\ Cardinality(T) \in Nat
      /\ Cardinality(C) \in Nat /\ Cardinality(U) \in Nat
  BY Zenon, <1>1, FS_CardinalityType DEF Enough
<1> QED
  BY <1>1, <1>2 DEF Enough

\* A pass is counted.
LEMMA EnoughForPass ==
  ASSUME NEW n \in Nat, NEW B, NEW T, Enough(n, B, T), NEW t
  PROVE  Enough(n + 1, B, T \cup {t})
<1>1. /\ IsFiniteSet(T \cup {t})
      /\ Cardinality(T \cup {t}) <= Cardinality(T) + 1
      /\ Cardinality(B) \in Nat /\ Cardinality(T) \in Nat
      /\ Cardinality(T \cup {t}) \in Nat
  BY Zenon, AtMostOneMore, FS_CardinalityType DEF Enough
<1> QED
  BY <1>1 DEF Enough

\* An unpass is counted, if the assertion in it does not fail.
LEMMA EnoughForUnpass ==
  ASSUME NEW n \in Nat, NEW m \in Nat, m >= n - 1, NEW B, NEW T, Enough(n, B, T), NEW t \in T
  PROVE  Enough(m, B, T \ {t})
<1>1. /\ IsFiniteSet(T \ {t})
      /\ Cardinality(T \ {t}) = Cardinality(T) - 1
      /\ Cardinality(B) \in Nat /\ Cardinality(T) \in Nat
  BY Zenon, FS_RemoveElement, FS_CardinalityType DEF Enough
<1> QED
  BY <1>1 DEF Enough

\* A reference goes from a thread to a buffer.
LEMMA EnoughForEnqueue ==
  ASSUME NEW n \in Nat, NEW B, NEW T, Enough(n, B, T), NEW t \in T, NEW p
  PROVE  Enough(n, B \cup {p}, T \ {t})
<1>1. /\ IsFiniteSet(T \ {t})
      /\ Cardinality(T \ {t}) = Cardinality(T) - 1
      /\ Cardinality(B) \in Nat /\ Cardinality(T) \in Nat
  BY Zenon, FS_RemoveElement, FS_CardinalityType DEF Enough
<1>2. /\ IsFiniteSet(B \cup {p})
      /\ Cardinality(B \cup {p}) <= Cardinality(B) + 1
      /\ Cardinality(B \cup {p}) \in Nat
  BY Zenon, AtMostOneMore DEF Enough
<1> QED
  BY <1>1, <1>2 DEF Enough

\* A reference goes from a buffer to a thread; the entries C of the buffer
\* are the others of B, at other places.
LEMMA EnoughForDequeue ==
  ASSUME NEW n \in Nat, NEW B, NEW T, Enough(n, B, T), NEW t, NEW p \in B,
         NEW C, NEW f \in Injection(C, B \ {p})
  PROVE  Enough(n, C, T \cup {t})
<1>1. /\ IsFiniteSet(B \ {p})
      /\ Cardinality(B \ {p}) = Cardinality(B) - 1
      /\ Cardinality(B) \in Nat /\ Cardinality(T) \in Nat
  BY Zenon, FS_RemoveElement, FS_CardinalityType DEF Enough
<1>2. /\ IsFiniteSet(C)
      /\ Cardinality(C) <= Cardinality(B) - 1
      /\ Cardinality(C) \in Nat
  BY <1>1, FS_Injection, FS_CardinalityType
<1>3. /\ IsFiniteSet(T \cup {t})
      /\ Cardinality(T \cup {t}) <= Cardinality(T) + 1
      /\ Cardinality(T \cup {t}) \in Nat
  BY Zenon, AtMostOneMore DEF Enough
<1> QED
  BY <1>1, <1>2, <1>3 DEF Enough

\* Entries that move to other places are counted as before.
LEMMA EnoughForMoved ==
  ASSUME NEW n \in Nat, NEW B, NEW T, Enough(n, B, T), NEW p,
         NEW C, NEW f \in Injection(C, B \ {p})
  PROVE  Enough(n, C, T)
<1>1. IsFiniteSet(B) /\ IsFiniteSet(T)
  BY Zenon DEF Enough
<1>2. IsFiniteSet(B \ {p}) /\ Cardinality(B \ {p}) <= Cardinality(B)
  BY Zenon, <1>1, FS_Subset
<1>3. IsFiniteSet(C) /\ Cardinality(C) <= Cardinality(B \ {p})
  BY Zenon, <1>2, FS_Injection
<1>4. /\ Cardinality(B) \in Nat /\ Cardinality(T) \in Nat
      /\ Cardinality(C) \in Nat /\ Cardinality(B \ {p}) \in Nat
  BY Zenon, <1>1, <1>2, <1>3, FS_CardinalityType
<1> QED
  BY <1>1, <1>2, <1>3, <1>4 DEF Enough

\* The count of a channel that is passed is positive.
LEMMA EnoughIsPositive ==
  ASSUME NEW n \in Nat, NEW B, NEW T, Enough(n, B, T), B # {} \/ T # {}
  PROVE  n > 0
<1>1. /\ Cardinality(B) \in Nat /\ Cardinality(T) \in Nat
      /\ Cardinality(B) # 0 \/ Cardinality(T) # 0
  BY Zenon, FS_CardinalityType, FS_EmptySet DEF Enough
<1> QED
  BY <1>1 DEF Enough

-----------------------------------------------------------------------------
(* What every step has in common.                                          *)

\* Only the thread that takes a step changes what it holds.
LEMMA OthersHold ==
  ASSUME NEW t \in Threads,
         \A u \in Threads \ {t} : pc'[u] = pc[u] /\ what'[u] = what[u],
         NEW c
  PROVE  /\ \A u \in Threads \ {t} : Holds(u, c)' <=> Holds(u, c)
         /\ Holds(t, c)' /\ Holds(t, c) => InTransit(c)' = InTransit(c)
         /\ ~Holds(t, c)' /\ ~Holds(t, c) => InTransit(c)' = InTransit(c)
         /\ Holds(t, c)' /\ ~Holds(t, c) => InTransit(c)' = InTransit(c) \cup {t}
         /\ ~Holds(t, c)' /\ Holds(t, c) =>
              t \in InTransit(c) /\ InTransit(c)' = InTransit(c) \ {t}
<1>1. \A u \in Threads \ {t} : Holds(u, c)' <=> Holds(u, c)
  BY Zenon DEF Holds
<1>2. /\ InTransit(c)' = {u \in Threads : Holds(u, c)'}
      /\ InTransit(c) = {u \in Threads : Holds(u, c)}
  BY Zenon DEF InTransit
<1> QED
  BY Zenon, <1>1, <1>2

\* passing_count is 0 only if nobody sends or receives on the channel.
LEMMA NotPassing ==
  ASSUME PassingInv, NEW c \in Channels, passing_count[c] = 0
  PROVE  buffer[c] = <<>> /\ ~Marked(c)
<1>1. /\ buffer[c] \in Seq(Sockets)
      /\ 0 = IF Marked(c) THEN Len(buffer[c]) + 1 ELSE Len(buffer[c])
  BY Zenon DEF PassingInv, TypeOK, PassingExact, Channels
<1>2. Len(buffer[c]) \in Nat
  BY <1>1
<1> QED
  BY <1>1, <1>2

\* A call that goes on between its two changes of passing_count.
LEMMA CallGoesOn ==
  ASSUME PassingInv, NEW t \in Threads, pc[t] \in MarkedSteps,
         NEW step \in MarkedSteps, pc' = [pc EXCEPT ![t] = step],
         UNCHANGED <<passing_count, buffer, pipe_lock, open, destroyed, on, what, channel>>,
         passed_count' \in [Channels -> Nat],
         assertion' \in {"none", "unpass", "destroy"}
  PROVE  TypeOK' /\ OneCall' /\ PassingExact'
<1>1. /\ \A u \in Threads \ {t} : pc'[u] = pc[u]
      /\ pc'[t] = step
  BY Zenon DEF PassingInv, TypeOK
<1>2. TypeOK'
  BY Zenon DEF PassingInv, TypeOK, MarkedSteps
<1>3. OneCall'
  BY ZenonT(30), <1>1 DEF PassingInv, OneCall, MarkedSteps
<1>4. \A c : Marked(c)' <=> Marked(c)
  BY Zenon, <1>1 DEF Marked
<1>5. PassingExact'
  BY Zenon, <1>4 DEF PassingInv, PassingExact
<1> QED
  BY Zenon, <1>2, <1>3, <1>5

-----------------------------------------------------------------------------
(* PipeChannel::pass and PipeChannel::unpass.                              *)

\* pass: the channel is refused, and nothing is counted, or it has no entry
\* and nobody sends or receives on it, and from now on it is passed.
LEMMA PassKeeps ==
  ASSUME PassingInv, NEW t \in Threads, pc[t] \in SendingSteps, NEW c \in Channels,
         NEW passed \in SendingSteps, NEW refused \in MarkedSteps,
         Pass(t, c, passed, refused),
         pc'[t] = refused => \A d : Holds(t, d)' <=> Holds(t, d),
         pc'[t] = passed => \A d : Holds(t, d)' <=> Holds(t, d) \/ d = c
  PROVE  PassingInv'
<1> USE DEF PassingInv
<1>0. /\ UNCHANGED <<passing_count, buffer, pipe_lock, open, destroyed, on, what,
                     channel, assertion>>
      /\ passed_count \in [Channels -> Nat]
      /\ pc[t] \in MarkedSteps
      /\ channel[t] \in Channels
  BY Zenon DEF Pass, TypeOK, SendingSteps, MarkedSteps
<1>1. \A d : InBuffer(d)' = InBuffer(d)
  BY Zenon, <1>0 DEF InBuffer
<1>2. CASE Goto(t, refused) /\ UNCHANGED passed_count
  <2>1. pc' = [pc EXCEPT ![t] = refused] /\ pc'[t] = refused
    BY Zenon, <1>2 DEF Goto, TypeOK
  <2>2. TypeOK' /\ OneCall' /\ PassingExact'
    BY Zenon, <1>0, <1>2, <2>1, CallGoesOn DEF TypeOK
  <2>3. \A u \in Threads \ {t} : pc'[u] = pc[u] /\ what'[u] = what[u]
    BY Zenon, <1>0, <2>1 DEF TypeOK
  <2>4. \A d : InTransit(d)' = InTransit(d)
    BY Zenon, <2>1, <2>3, OthersHold
  <2>5. PassedEnough'
    BY Zenon, <1>1, <1>2, <2>4 DEF PassedEnough
  <2>6. PassedIsEmpty'
    BY Zenon, <1>0, <1>1, <2>1, <2>3, <2>4 DEF PassedIsEmpty, Passed
  <2> QED
    BY Zenon, <2>2, <2>5, <2>6
<1>3. CASE /\ passing_count[c] = 0
           /\ passed_count' = [passed_count EXCEPT ![c] = @ + 1]
           /\ Goto(t, passed)
  <2>0. passed \in MarkedSteps
    BY Zenon DEF SendingSteps, MarkedSteps
  <2>1. pc' = [pc EXCEPT ![t] = passed] /\ pc'[t] = passed
    BY Zenon, <1>3 DEF Goto, TypeOK
  <2>2. passed_count' \in [Channels -> Nat]
    BY <1>0, <1>3
  <2>3. TypeOK' /\ OneCall' /\ PassingExact'
    BY Zenon, <1>0, <2>0, <2>1, <2>2, CallGoesOn DEF TypeOK
  <2>4. \A u \in Threads \ {t} : pc'[u] = pc[u] /\ what'[u] = what[u]
    BY Zenon, <1>0, <2>1 DEF TypeOK
  <2>5. \A d : d # c => InTransit(d)' = InTransit(d)
    BY Zenon, <2>1, <2>4, OthersHold
  <2>6. InTransit(c)' = InTransit(c) \/ InTransit(c)' = InTransit(c) \cup {t}
    BY Zenon, <2>1, <2>4, OthersHold
  <2>7. PassedEnough'
    <3> SUFFICES ASSUME NEW d \in Channels
                 PROVE  Enough(passed_count'[d], InBuffer(d)', InTransit(d)')
      BY Zenon DEF PassedEnough
    <3>1. /\ Enough(passed_count[d], InBuffer(d), InTransit(d))
          /\ passed_count[d] \in Nat
      BY Zenon, <1>0 DEF PassedEnough
    <3>2. CASE d # c
      BY Zenon, <1>0, <1>1, <1>3, <2>5, <3>1, <3>2
    <3>3. CASE d = c
      <4>1. passed_count'[d] = passed_count[d] + 1
        BY Zenon, <1>0, <1>3, <3>3
      <4>2. Enough(passed_count[d] + 1, InBuffer(d), InTransit(d) \cup {t})
        BY Zenon, <3>1, EnoughForPass
      <4>3. Enough(passed_count[d] + 1, InBuffer(d), InTransit(d))
        BY <3>1, EnoughForFewer
      <4> QED
        BY Zenon, <1>1, <2>6, <3>3, <4>1, <4>2, <4>3
    <3> QED
      BY Zenon, <3>2, <3>3
  <2>8. PassedIsEmpty'
    <3> SUFFICES ASSUME NEW d \in Channels, Passed(d)'
                 PROVE  /\ buffer'[d] = <<>>
                        /\ \A u \in Threads : channel'[u] = d => pc'[u] \notin SendingSteps
      BY Zenon DEF PassedIsEmpty
    <3>1. CASE d = c
      <4>1. buffer[c] = <<>> /\ ~Marked(c)
        BY Zenon, <1>3, NotPassing
      <4>2. channel[t] # c
        BY Zenon, <1>0, <4>1 DEF Marked
      <4> QED
        BY Zenon, <1>0, <2>4, <3>1, <4>1, <4>2
           DEF Marked, SendingSteps, MarkedSteps
    <3>2. CASE d # c
      <4>1. Passed(d)
        BY Zenon, <1>1, <2>5, <3>2 DEF Passed
      <4> QED
        BY Zenon, <1>0, <2>4, <4>1 DEF PassedIsEmpty
    <3> QED
      BY Zenon, <3>1, <3>2
  <2> QED
    BY Zenon, <2>3, <2>7, <2>8
<1> QED
  BY Zenon, <1>2, <1>3 DEF Pass

\* unpass: the count falls by one, or an assertion fails and the kernel stops;
\* in both cases the thread no longer holds the channel.
LEMMA UnpassKeeps ==
  ASSUME PassingInv, assertion = "none", NEW t \in Threads, pc[t] \in MarkedSteps,
         NEW c \in Channels, NEW next \in MarkedSteps \ SendingSteps, Unpass(t, c, next),
         Holds(t, c), \A d : Holds(t, d)' <=> Holds(t, d) /\ d # c
  PROVE  PassingInv'
<1> USE DEF PassingInv
<1>0. /\ UNCHANGED <<passing_count, buffer, pipe_lock, open, destroyed, on, what, channel>>
      /\ pc' = [pc EXCEPT ![t] = next] /\ pc'[t] = next
      /\ passed_count \in [Channels -> Nat]
  BY Zenon DEF Unpass, Goto, TypeOK
<1>1. /\ passed_count' \in [Channels -> Nat]
      /\ assertion' \in {"none", "unpass"}
      /\ passed_count'[c] >= passed_count[c] - 1
      /\ \A d \in Channels : d # c => passed_count'[d] = passed_count[d]
  <2>1. CASE /\ passed_count[c] > 0
             /\ passed_count' = [passed_count EXCEPT ![c] = @ - 1]
             /\ assertion' = assertion
    BY <1>0, <2>1
  <2>2. CASE passed_count' = passed_count /\ assertion' = "unpass"
    BY <1>0, <2>2
  <2> QED
    BY Zenon, <2>1, <2>2 DEF Unpass
<1>2. TypeOK' /\ OneCall' /\ PassingExact'
  BY Zenon, <1>0, <1>1, CallGoesOn
<1>3. \A d : InBuffer(d)' = InBuffer(d)
  BY Zenon, <1>0 DEF InBuffer
<1>4. \A u \in Threads \ {t} : pc'[u] = pc[u] /\ what'[u] = what[u]
  BY Zenon, <1>0 DEF TypeOK
<1>5. /\ t \in InTransit(c) /\ InTransit(c)' = InTransit(c) \ {t}
      /\ \A d : d # c => InTransit(d)' = InTransit(d)
  BY Zenon, <1>4, OthersHold
<1>6. PassedEnough'
  <2> SUFFICES ASSUME NEW d \in Channels
               PROVE  Enough(passed_count'[d], InBuffer(d)', InTransit(d)')
    BY Zenon DEF PassedEnough
  <2>1. /\ Enough(passed_count[d], InBuffer(d), InTransit(d))
        /\ passed_count[d] \in Nat /\ passed_count'[d] \in Nat
    BY Zenon, <1>0, <1>1 DEF PassedEnough
  <2>2. CASE d = c
    BY <1>1, <1>3, <1>5, <2>1, <2>2, EnoughForUnpass
  <2>3. CASE d # c
    BY Zenon, <1>1, <1>3, <1>5, <2>1, <2>3
  <2> QED
    BY Zenon, <2>2, <2>3
<1>7. PassedIsEmpty'
  <2> SUFFICES ASSUME NEW d \in Channels, Passed(d)'
               PROVE  /\ buffer'[d] = <<>>
                      /\ \A u \in Threads : channel'[u] = d => pc'[u] \notin SendingSteps
    BY Zenon DEF PassedIsEmpty
  <2>1. Passed(d)
    BY Zenon, <1>3, <1>5 DEF Passed
  <2> QED
    BY Zenon, <1>0, <1>4, <2>1 DEF PassedIsEmpty
<1> QED
  BY Zenon, <1>2, <1>6, <1>7

-----------------------------------------------------------------------------
(* sendmsg.                                                                *)

LEMMA SendKeeps ==
  ASSUME PassingInv, NEW t \in Threads, NEW a \in Sockets, NEW b \in Sockets, Send(t, a, b)
  PROVE  PassingInv'
<1> USE DEF PassingInv, Outgoing, Channels
<1>0. /\ UNCHANGED <<passing_count, passed_count, buffer, open, destroyed, assertion>>
      /\ pc[t] = "idle" /\ pc'[t] = "send_mark"
      /\ a \notin pipe_lock /\ pipe_lock' = pipe_lock \cup {a}
      /\ channel'[t] = a
      /\ \A u \in Threads \ {t} :
           pc'[u] = pc[u] /\ what'[u] = what[u] /\ channel'[u] = channel[u]
  BY Zenon DEF Send, Goto, TypeOK, counts
<1>1. TypeOK'
  BY SMTT(30) DEF Send, Goto, TypeOK, counts
<1>2. OneCall'
  BY <1>0 DEF OneCall
<1>3. PassingExact'
  <2>1. \A c : Marked(c)' <=> Marked(c)
    BY Zenon, <1>0 DEF Marked, MarkedSteps
  <2> QED
    BY Zenon, <1>0, <2>1 DEF PassingExact
<1>4. \A c : InBuffer(c)' = InBuffer(c) /\ InTransit(c)' = InTransit(c)
  <2>1. \A c : ~Holds(t, c)' /\ ~Holds(t, c)
    BY Zenon, <1>0 DEF Holds
  <2>2. \A c : InTransit(c)' = InTransit(c)
    BY Zenon, <1>0, <2>1, OthersHold
  <2>3. \A c : InBuffer(c)' = InBuffer(c)
    BY Zenon, <1>0 DEF InBuffer
  <2> QED
    BY Zenon, <2>2, <2>3
<1>5. PassedEnough' /\ PassedIsEmpty'
  <2>1. PassedEnough'
    BY Zenon, <1>0, <1>4 DEF PassedEnough
  <2>2. PassedIsEmpty'
    BY Zenon, <1>0, <1>4 DEF PassedIsEmpty, Passed, SendingSteps
  <2> QED
    BY Zenon, <2>1, <2>2
<1> QED
  BY Zenon, <1>1, <1>2, <1>3, <1>5

\* Rule 1: a channel that is passed is counted, so that nothing is sent on it.
LEMMA SendMarkKeeps ==
  ASSUME PassingInv, NEW t \in Threads, SendMark(t)
  PROVE  PassingInv'
<1> USE DEF PassingInv
<1> DEFINE c == channel[t]
           next == IF passed_count[c] > 0 THEN "send_unmark" ELSE "send_pass_outgoing"
<1>0. /\ UNCHANGED <<passed_count, buffer, pipe_lock, open, destroyed, on, what,
                     channel, assertion>>
      /\ passing_count' = [passing_count EXCEPT ![c] = @ + 1]
      /\ pc[t] = "send_mark" /\ pc'[t] = next
      /\ \A u \in Threads \ {t} : pc'[u] = pc[u] /\ what'[u] = what[u]
      /\ c \in Channels
  BY Zenon DEF SendMark, Goto, TypeOK
<1>1. TypeOK'
  BY DEF SendMark, Goto, TypeOK
<1>2. OneCall'
  BY Zenon, <1>0 DEF OneCall
<1>3. PassingExact'
  <2>1. /\ \A d : d # c => (Marked(d)' <=> Marked(d))
        /\ Marked(c)'
    BY Zenon, <1>0 DEF Marked, MarkedSteps
  <2>2. ~Marked(c)
    BY Zenon, <1>0 DEF OneCall, Marked, MarkedSteps
  <2> QED
    BY Zenon, <1>0, <2>1, <2>2 DEF PassingExact, TypeOK
<1>4. \A d : InBuffer(d)' = InBuffer(d) /\ InTransit(d)' = InTransit(d)
  <2>1. \A d : ~Holds(t, d)' /\ ~Holds(t, d)
    BY Zenon, <1>0 DEF Holds
  <2>2. \A d : InTransit(d)' = InTransit(d)
    BY Zenon, <1>0, <2>1, OthersHold
  <2>3. \A d : InBuffer(d)' = InBuffer(d)
    BY Zenon, <1>0 DEF InBuffer
  <2> QED
    BY Zenon, <2>2, <2>3
<1>5. PassedEnough'
  BY Zenon, <1>0, <1>4 DEF PassedEnough
<1>6. PassedIsEmpty'
  <2> SUFFICES ASSUME NEW d \in Channels, Passed(d)
               PROVE  /\ buffer'[d] = <<>>
                      /\ \A u \in Threads : channel'[u] = d => pc'[u] \notin SendingSteps
    BY Zenon, <1>4 DEF PassedIsEmpty, Passed
  <2>1. /\ buffer[d] = <<>>
        /\ \A u \in Threads : channel[u] = d => pc[u] \notin SendingSteps
    BY Zenon DEF PassedIsEmpty
  <2>2. CASE d = c
    <3>1. passed_count[c] > 0
      BY Zenon, <1>0, <2>2, EnoughIsPositive DEF PassedEnough, Passed, TypeOK
    <3> QED
      BY Zenon, <1>0, <2>1, <3>1 DEF SendingSteps
  <2>3. CASE d # c
    BY Zenon, <1>0, <2>1, <2>3
  <2> QED
    BY Zenon, <2>2, <2>3
<1> QED
  BY Zenon, <1>1, <1>2, <1>3, <1>5, <1>6

\* The end of a call that had marked its channel.
LEMMA UnmarkKeeps ==
  ASSUME PassingInv, NEW t \in Threads, pc[t] \in {"send_unmark", "recv_unmark"}, Unmark(t),
         UNCHANGED <<passed_count, buffer, destroyed, on, what, channel, assertion>>,
         open' \subseteq Sockets
  PROVE  PassingInv'
<1> USE DEF PassingInv
<1> DEFINE c == channel[t]
<1>0. /\ passing_count' = [passing_count EXCEPT ![c] = @ - 1]
      /\ pipe_lock' = pipe_lock \ {c}
      /\ pc'[t] = "idle"
      /\ pc[t] \in MarkedSteps
      /\ \A u \in Threads \ {t} : pc'[u] = pc[u] /\ what'[u] = what[u]
      /\ c \in Channels
  BY Zenon DEF Unmark, Goto, TypeOK, MarkedSteps
<1>1. passing_count[c] = Len(buffer[c]) + 1 /\ Len(buffer[c]) \in Nat
  <2>1. Marked(c)
    BY Zenon, <1>0 DEF Marked
  <2>2. passing_count[c] = Len(buffer[c]) + 1
    BY Zenon, <1>0, <2>1 DEF PassingExact
  <2>3. Len(buffer[c]) \in Nat
    BY <1>0 DEF TypeOK
  <2> QED
    BY Zenon, <2>2, <2>3
<1>2. TypeOK'
  <2>1. passing_count' \in [Channels -> Nat]
    BY <1>0, <1>1 DEF TypeOK
  <2> QED
    BY Zenon, <2>1 DEF Unmark, Goto, TypeOK
<1>3. OneCall'
  BY Zenon, <1>0 DEF OneCall, MarkedSteps
<1>4. PassingExact'
  <2>1. /\ \A d : d # c => (Marked(d)' <=> Marked(d))
        /\ ~Marked(c)'
    BY Zenon, <1>0 DEF Marked, MarkedSteps, OneCall
  <2> QED
    BY <1>0, <1>1, <2>1 DEF PassingExact, TypeOK
<1>5. \A d : InBuffer(d)' = InBuffer(d) /\ InTransit(d)' = InTransit(d)
  <2>1. \A d : ~Holds(t, d)' /\ ~Holds(t, d)
    BY Zenon, <1>0 DEF Holds
  <2>2. \A d : InTransit(d)' = InTransit(d)
    BY Zenon, <1>0, <2>1, OthersHold
  <2>3. \A d : InBuffer(d)' = InBuffer(d)
    BY Zenon DEF InBuffer
  <2> QED
    BY Zenon, <2>2, <2>3
<1>6. PassedEnough' /\ PassedIsEmpty'
  <2>1. PassedEnough'
    BY Zenon, <1>5 DEF PassedEnough
  <2>2. PassedIsEmpty'
    BY Zenon, <1>0, <1>5 DEF PassedIsEmpty, Passed, SendingSteps
  <2> QED
    BY Zenon, <2>1, <2>2
<1> QED
  BY Zenon, <1>2, <1>3, <1>4, <1>6

\* The places of a buffer with one more entry, and with one less.
LEMMA EnqueueEntries ==
  ASSUME TypeOK, NEW c \in Channels, NEW s \in Sockets,
         buffer' = [buffer EXCEPT ![c] = Append(@, s)]
  PROVE  /\ buffer' \in [Channels -> Seq(Sockets)]
         /\ Len(buffer'[c]) = Len(buffer[c]) + 1
         /\ \A d : InBuffer(d)' = IF d \in {s, Peer(s)}
                                  THEN InBuffer(d) \cup {<<c, Len(buffer[c]) + 1>>}
                                  ELSE InBuffer(d)
<1> DEFINE n == Len(buffer[c])
<1>1. /\ buffer \in [Channels -> Seq(Sockets)]
      /\ buffer[c] \in Seq(Sockets) /\ n \in Nat
  BY DEF TypeOK
<1>2. /\ buffer'[c] \in Seq(Sockets)
      /\ Len(buffer'[c]) = n + 1
      /\ \A i \in 1..n : buffer'[c][i] = buffer[c][i]
      /\ buffer'[c][n + 1] = s
      /\ \A e \in Channels : e # c => buffer'[e] = buffer[e]
  BY <1>1
<1>3. buffer' \in [Channels -> Seq(Sockets)]
  BY <1>1
<1> HIDE DEF n
<1>4. ASSUME NEW d, NEW p \in Channels \X Nat
      PROVE  p \in InBuffer(d)' <=> \/ p \in InBuffer(d)
                                    \/ p = <<c, n + 1>> /\ d \in {s, Peer(s)}
  <2>1. PICK e \in Channels, i \in Nat : p = <<e, i>>
    OBVIOUS
  <2>2. CASE e # c
    BY Zenon, <1>2, <2>1, <2>2 DEF InBuffer
  <2>3. CASE e = c
    <3>1. i \in 1..n + 1 <=> i \in 1..n \/ i = n + 1
      BY <1>1, <2>1
    <3>2. n + 1 \notin 1..n
      BY <1>1
    <3>3. p \in InBuffer(d) <=> i \in 1..n /\ d \in {buffer[c][i], Peer(buffer[c][i])}
      BY Zenon, <2>1, <2>3 DEF InBuffer, n
    <3>4. p \in InBuffer(d)' <=> i \in 1..n + 1 /\ d \in {buffer'[c][i], Peer(buffer'[c][i])}
      BY Zenon, <1>2, <2>1, <2>3 DEF InBuffer
    <3>5. p = <<c, n + 1>> <=> i = n + 1
      BY Zenon, <2>1, <2>3
    <3> QED
      BY Zenon, <1>2, <3>1, <3>2, <3>3, <3>4, <3>5
  <2> QED
    BY Zenon, <2>2, <2>3
<1>5. \A d : InBuffer(d) \subseteq Channels \X Nat /\ InBuffer(d)' \subseteq Channels \X Nat
  BY Zenon DEF InBuffer
<1>6. <<c, n + 1>> \in Channels \X Nat
  BY <1>1
<1>7. \A d : InBuffer(d)' = IF d \in {s, Peer(s)} THEN InBuffer(d) \cup {<<c, n + 1>>}
                                                  ELSE InBuffer(d)
  BY Zenon, <1>4, <1>5, <1>6
<1> QED
  BY Zenon, <1>2, <1>3, <1>7 DEF n

LEMMA SendEnqueueKeeps ==
  ASSUME PassingInv, NEW t \in Threads, SendEnqueue(t)
  PROVE  PassingInv'
<1> USE DEF PassingInv
<1> DEFINE c == channel[t]
           s == what[t]
           p == <<c, Len(buffer[c]) + 1>>
<1>0. /\ UNCHANGED <<passing_count, passed_count, open, destroyed, on, what, channel, assertion>>
      /\ buffer' = [buffer EXCEPT ![c] = Append(@, s)]
      /\ pipe_lock' = pipe_lock \ {c}
      /\ pc[t] = "send_enqueue" /\ pc'[t] = "idle"
      /\ \A u \in Threads \ {t} : pc'[u] = pc[u] /\ what'[u] = what[u]
      /\ c \in Channels /\ s \in Sockets
  BY Zenon DEF SendEnqueue, Goto, TypeOK, counts
<1>1. /\ buffer' \in [Channels -> Seq(Sockets)]
      /\ Len(buffer'[c]) = Len(buffer[c]) + 1
      /\ \A d : InBuffer(d)' = IF d \in {s, Peer(s)} THEN InBuffer(d) \cup {p}
                                                     ELSE InBuffer(d)
  BY Zenon, <1>0, EnqueueEntries
<1>2. \A d \in Channels \ {c} : buffer'[d] = buffer[d]
  BY Zenon, <1>0 DEF TypeOK
<1>3. TypeOK'
  BY Zenon, <1>1 DEF SendEnqueue, Goto, TypeOK, counts
<1>4. OneCall'
  BY Zenon, <1>0 DEF OneCall
<1>5. PassingExact'
  <2>1. /\ \A d : d # c => (Marked(d)' <=> Marked(d))
        /\ ~Marked(c)' /\ Marked(c)
    BY Zenon, <1>0 DEF Marked, MarkedSteps, OneCall
  <2> QED
    BY <1>0, <1>1, <1>2, <2>1 DEF PassingExact, TypeOK
<1>6. \A d : IF d \in {s, Peer(s)}
             THEN t \in InTransit(d) /\ InTransit(d)' = InTransit(d) \ {t}
             ELSE InTransit(d)' = InTransit(d)
  <2>1. \A d : ~Holds(t, d)' /\ (Holds(t, d) <=> d \in {s, Peer(s)})
    BY Zenon, <1>0 DEF Holds
  <2> HIDE DEF s
  <2> QED
    BY Zenon, <1>0, <2>1, OthersHold
<1> HIDE DEF p
<1>7. PassedEnough'
  <2> SUFFICES ASSUME NEW d \in Channels
               PROVE  Enough(passed_count'[d], InBuffer(d)', InTransit(d)')
    BY Zenon DEF PassedEnough
  <2>1. /\ Enough(passed_count[d], InBuffer(d), InTransit(d))
        /\ passed_count[d] \in Nat /\ passed_count'[d] = passed_count[d]
    BY Zenon, <1>0 DEF PassedEnough, TypeOK
  <2>2. CASE d \in {s, Peer(s)}
    <3>1. /\ t \in InTransit(d) /\ InTransit(d)' = InTransit(d) \ {t}
          /\ InBuffer(d)' = InBuffer(d) \cup {p}
      BY Zenon, <1>1, <1>6, <2>2
    <3>2. Enough(passed_count[d], InBuffer(d) \cup {p}, InTransit(d) \ {t})
      BY Zenon, <2>1, <3>1, EnoughForEnqueue
    <3> QED
      BY Zenon, <2>1, <3>1, <3>2
  <2>3. CASE d \notin {s, Peer(s)}
    BY Zenon, <1>1, <1>6, <2>1, <2>3
  <2> QED
    BY Zenon, <2>2, <2>3
<1>8. PassedIsEmpty'
  <2> SUFFICES ASSUME NEW d \in Channels, Passed(d)'
               PROVE  /\ buffer'[d] = <<>>
                      /\ \A u \in Threads : channel'[u] = d => pc'[u] \notin SendingSteps
    BY Zenon DEF PassedIsEmpty
  <2>1. Passed(d)
    BY Zenon, <1>1, <1>6 DEF Passed
  <2>2. d # c
    BY Zenon, <1>0, <2>1 DEF PassedIsEmpty, SendingSteps
  <2> QED
    BY Zenon, <1>0, <1>2, <2>1, <2>2 DEF PassedIsEmpty
<1> QED
  BY Zenon, <1>3, <1>4, <1>5, <1>7, <1>8

-----------------------------------------------------------------------------
(* recvmsg.                                                                *)

LEMMA DequeueEntries ==
  ASSUME TypeOK, NEW c \in Channels, buffer[c] # <<>>,
         buffer' = [buffer EXCEPT ![c] = Tail(@)], NEW s, s = Head(buffer[c])
  PROVE  /\ buffer' \in [Channels -> Seq(Sockets)]
         /\ s \in Sockets
         /\ Len(buffer[c]) = Len(buffer'[c]) + 1
         /\ \A d : d \in {s, Peer(s)} => <<c, 1>> \in InBuffer(d)
         /\ \A d : \E f : f \in Injection(InBuffer(d)', InBuffer(d) \ {<<c, 1>>})
         /\ \A d : InBuffer(d) = {} => InBuffer(d)' = {}
<1> DEFINE n == Len(buffer[c])
<1>1. /\ buffer \in [Channels -> Seq(Sockets)]
      /\ buffer[c] \in Seq(Sockets) /\ n \in Nat \ {0}
  BY DEF TypeOK
<1>2. /\ s = buffer[c][1] /\ s \in Sockets
      /\ buffer'[c] \in Seq(Sockets)
      /\ Len(buffer'[c]) = n - 1
      /\ \A i \in 1..n - 1 : buffer'[c][i] = buffer[c][i + 1]
      /\ \A e \in Channels : e # c => buffer'[e] = buffer[e]
  BY <1>1
<1>3. buffer' \in [Channels -> Seq(Sockets)]
  BY Zenon, <1>1, <1>2
<1>4. \A d : d \in {s, Peer(s)} => <<c, 1>> \in InBuffer(d)
  <2>1. <<c, 1>> \in Channels \X Nat /\ 1 \in 1..n
    BY <1>1
  <2> QED
    BY Zenon, <1>2, <2>1 DEF InBuffer
<1> HIDE DEF n
<1>5. ASSUME NEW d
      PROVE  /\ \E f : f \in Injection(InBuffer(d)', InBuffer(d) \ {<<c, 1>>})
             /\ InBuffer(d) = {} => InBuffer(d)' = {}
  <2> DEFINE B == InBuffer(d)
             C == InBuffer(d)'
             up(p) == IF p[1] = c THEN <<c, p[2] + 1>> ELSE p
             f == [p \in C |-> up(p)]
  <2>1. ASSUME NEW p \in C
        PROVE  up(p) \in B \ {<<c, 1>>}
    <3>1. PICK e \in Channels, i \in Nat : p = <<e, i>>
      BY DEF InBuffer
    <3>2. /\ i \in 1..Len(buffer'[e])
          /\ d \in {buffer'[e][i], Peer(buffer'[e][i])}
      BY Zenon, <3>1 DEF InBuffer
    <3>3. CASE e # c
      <4>1. up(p) = p /\ buffer'[e] = buffer[e] /\ p # <<c, 1>>
        BY Zenon, <1>2, <3>1, <3>3
      <4> QED
        BY Zenon, <3>1, <3>2, <4>1 DEF InBuffer
    <3>4. CASE e = c
      <4>1. /\ up(p) = <<c, i + 1>> /\ i + 1 \in 1..n /\ i + 1 # 1
            /\ buffer'[c][i] = buffer[c][i + 1]
        BY <1>1, <1>2, <3>1, <3>2, <3>4
      <4>2. <<c, i + 1>> \in Channels \X Nat /\ <<c, i + 1>> # <<c, 1>>
        BY <4>1
      <4> QED
        BY <3>2, <3>4, <4>1, <4>2 DEF InBuffer, n
    <3> QED
      BY Zenon, <3>3, <3>4
  <2>2. ASSUME NEW p \in C, NEW q \in C, up(p) = up(q)
        PROVE  p = q
    <3>1. p \in Channels \X Nat /\ q \in Channels \X Nat
      BY Zenon DEF InBuffer
    <3> QED
      BY <2>2, <3>1
  <2> HIDE DEF B, C, up
  <2>3. f \in Injection(C, B \ {<<c, 1>>})
    BY Zenon, <2>1, <2>2 DEF Injection, IsInjective
  <2>4. B = {} => C = {}
    BY Zenon, <2>1
  <2> QED
    BY Zenon, <2>3, <2>4 DEF B, C
<1>6. Len(buffer[c]) = Len(buffer'[c]) + 1
  BY <1>1, <1>2 DEF n
<1> QED
  BY Zenon, <1>2, <1>3, <1>4, <1>5, <1>6, Zenon

LEMMA RecvKeeps ==
  ASSUME PassingInv, NEW t \in Threads, NEW a \in Sockets, Recv(t, a)
  PROVE  PassingInv'
<1> USE DEF PassingInv
<1> DEFINE c == Incoming(a)
           s == Head(buffer[c])
<1>0. c \in Channels
  BY Zenon, PeerFacts DEF Incoming, Channels
<1>1. /\ UNCHANGED <<passing_count, passed_count, open, destroyed, assertion>>
      /\ c \notin pipe_lock /\ pipe_lock' = pipe_lock \cup {c}
      /\ buffer[c] # <<>> /\ buffer' = [buffer EXCEPT ![c] = Tail(@)]
      /\ pc[t] = "idle" /\ pc'[t] = "recv_unpass_outgoing"
      /\ channel'[t] = c /\ what'[t] = s
      /\ \A u \in Threads \ {t} :
           pc'[u] = pc[u] /\ what'[u] = what[u] /\ channel'[u] = channel[u]
  BY Zenon DEF Recv, Goto, TypeOK, counts
<1>2. /\ buffer' \in [Channels -> Seq(Sockets)]
      /\ s \in Sockets
      /\ Len(buffer[c]) = Len(buffer'[c]) + 1
      /\ \A d : d \in {s, Peer(s)} => <<c, 1>> \in InBuffer(d)
      /\ \A d : \E f : f \in Injection(InBuffer(d)', InBuffer(d) \ {<<c, 1>>})
      /\ \A d : InBuffer(d) = {} => InBuffer(d)' = {}
  BY Zenon, <1>0, <1>1, DequeueEntries
<1>3. \A d \in Channels \ {c} : buffer'[d] = buffer[d]
  BY Zenon, <1>1 DEF TypeOK
<1>4. TypeOK'
  BY Zenon, <1>0, <1>2 DEF Recv, Goto, TypeOK, counts
<1> HIDE DEF c, s
<1>5. OneCall'
  BY <1>1 DEF OneCall
<1>6. PassingExact'
  <2>1. /\ \A d : d # c => (Marked(d)' <=> Marked(d))
        /\ Marked(c)'
    BY Zenon, <1>1 DEF Marked, MarkedSteps
  <2>2. ~Marked(c)
    BY Zenon, <1>1 DEF Marked, OneCall, MarkedSteps
  <2>3. \A d \in Channels : Len(buffer[d]) \in Nat /\ Len(buffer'[d]) \in Nat
    BY SMTT(30), <1>2 DEF TypeOK
  <2> QED
    BY <1>0, <1>1, <1>2, <1>3, <2>1, <2>2, <2>3 DEF PassingExact
<1>7. \A d : IF d \in {s, Peer(s)} THEN InTransit(d)' = InTransit(d) \cup {t}
                                   ELSE InTransit(d)' = InTransit(d)
  <2>1. \A d : ~Holds(t, d) /\ (Holds(t, d)' <=> d \in {s, Peer(s)})
    BY Zenon, <1>1 DEF Holds
  <2> QED
    BY Zenon, <1>1, <2>1, OthersHold
<1>8. PassedEnough'
  <2> SUFFICES ASSUME NEW d \in Channels
               PROVE  Enough(passed_count'[d], InBuffer(d)', InTransit(d)')
    BY Zenon DEF PassedEnough
  <2>1. /\ Enough(passed_count[d], InBuffer(d), InTransit(d))
        /\ passed_count[d] \in Nat /\ passed_count'[d] = passed_count[d]
    BY Zenon, <1>1 DEF PassedEnough, TypeOK
  <2>2. PICK f : f \in Injection(InBuffer(d)', InBuffer(d) \ {<<c, 1>>})
    BY Zenon, <1>2
  <2>3. CASE d \in {s, Peer(s)}
    <3>1. <<c, 1>> \in InBuffer(d) /\ InTransit(d)' = InTransit(d) \cup {t}
      BY Zenon, <1>2, <1>7, <2>3
    <3>2. Enough(passed_count[d], InBuffer(d)', InTransit(d) \cup {t})
      BY Zenon, <2>1, <2>2, <3>1, EnoughForDequeue
    <3> QED
      BY Zenon, <2>1, <3>1, <3>2
  <2>4. CASE d \notin {s, Peer(s)}
    <3>1. InTransit(d)' = InTransit(d)
      BY Zenon, <1>7, <2>4
    <3>2. Enough(passed_count[d], InBuffer(d)', InTransit(d))
      BY Zenon, <2>1, <2>2, EnoughForMoved
    <3> QED
      BY Zenon, <2>1, <3>1, <3>2
  <2> QED
    BY Zenon, <2>3, <2>4
<1>9. PassedIsEmpty'
  <2> SUFFICES ASSUME NEW d \in Channels, Passed(d)'
               PROVE  /\ buffer'[d] = <<>>
                      /\ \A u \in Threads : channel'[u] = d => pc'[u] \notin SendingSteps
    BY Zenon DEF PassedIsEmpty
  <2>1. Passed(d)
    BY Zenon, <1>2, <1>7 DEF Passed
  <2>2. d # c
    BY Zenon, <1>1, <2>1 DEF PassedIsEmpty
  <2> QED
    BY <1>1, <1>3, <2>1, <2>2 DEF PassedIsEmpty
<1> QED
  BY Zenon, <1>4, <1>5, <1>6, <1>8, <1>9

-----------------------------------------------------------------------------
(* Closing.                                                                *)

\* A step that only opens or closes descriptors.
LEMMA CloseKeeps ==
  ASSUME PassingInv, open' \subseteq Sockets,
         UNCHANGED <<passing_count, passed_count, buffer, pipe_lock, destroyed, pc, on,
                     what, channel, assertion>>
  PROVE  PassingInv'
<1> USE DEF PassingInv
<1>1. TypeOK'
  BY Zenon DEF TypeOK
<1>2. OneCall'
  BY Zenon DEF OneCall
<1>3. PassingExact'
  BY Zenon DEF PassingExact, Marked
<1>4. \A d : InBuffer(d)' = InBuffer(d) /\ InTransit(d)' = InTransit(d)
  BY Zenon DEF InBuffer, InTransit, Holds
<1>5. PassedEnough'
  BY Zenon, <1>4 DEF PassedEnough
<1>6. PassedIsEmpty'
  BY Zenon, <1>4 DEF PassedIsEmpty, Passed
<1> QED
  BY Zenon, <1>1, <1>2, <1>3, <1>5, <1>6

\* ~PipeChannel takes as much off passing_count as the buffer held, and leaves
\* the passes of what was in it counted.
LEMMA DestroyKeeps ==
  ASSUME PassingInv, assertion = "none", NEW c \in Channels, Destroy(c)
  PROVE  PassingInv'
<1> USE DEF PassingInv
<1>0. /\ buffer' = [buffer EXCEPT ![c] = <<>>]
      /\ passing_count' = [passing_count EXCEPT ![c] = @ - Len(buffer[c])]
      /\ UNCHANGED <<passed_count, pipe_lock, open, pc, on, what, channel>>
      /\ destroyed' \subseteq Channels
      /\ assertion' \in {"none", "destroy"}
  BY Zenon DEF Destroy, TypeOK
<1>1. /\ buffer'[c] = <<>> /\ Len(buffer'[c]) = 0
      /\ \A d \in Channels : d # c => buffer'[d] = buffer[d]
      /\ buffer' \in [Channels -> Seq(Sockets)]
  BY <1>0 DEF TypeOK
<1>2. \A d : Marked(d)' <=> Marked(d)
  BY Zenon, <1>0 DEF Marked
<1>3. /\ Len(buffer[c]) \in Nat
      /\ passing_count[c] - Len(buffer[c]) = IF Marked(c) THEN 1 ELSE 0
  <2>1. Len(buffer[c]) \in Nat
    BY DEF TypeOK
  <2> QED
    BY <2>1 DEF PassingExact
<1>4. /\ passing_count' \in [Channels -> Nat]
      /\ passing_count'[c] = IF Marked(c) THEN 1 ELSE 0
      /\ \A d \in Channels : d # c => passing_count'[d] = passing_count[d]
  BY <1>0, <1>3 DEF TypeOK
<1>5. TypeOK'
  BY Zenon, <1>0, <1>1, <1>4 DEF TypeOK
<1>6. OneCall'
  BY Zenon, <1>0 DEF OneCall
<1>7. PassingExact'
  <2> SUFFICES ASSUME NEW d \in Channels
               PROVE  passing_count'[d] = IF Marked(d)' THEN Len(buffer'[d]) + 1 ELSE Len(buffer'[d])
    BY Zenon DEF PassingExact
  <2>1. CASE d = c
    BY <1>1, <1>2, <1>4, <2>1
  <2>2. CASE d # c
    BY SMTT(30), <1>1, <1>2, <1>4, <2>2 DEF PassingExact
  <2> QED
    BY Zenon, <2>1, <2>2
<1>8. \A d : InTransit(d)' = InTransit(d)
  BY Zenon, <1>0 DEF InTransit, Holds
<1>9. ASSUME NEW d, NEW p \in InBuffer(d)' PROVE p \in InBuffer(d)
  <2>1. PICK e \in Channels, i \in Nat : p = <<e, i>>
    BY DEF InBuffer
  <2>2. i \in 1..Len(buffer'[e]) /\ d \in {buffer'[e][i], Peer(buffer'[e][i])}
    BY Zenon, <2>1 DEF InBuffer
  <2>3. e # c
    BY <1>1, <2>2
  <2> QED
    BY Zenon, <1>1, <2>1, <2>2, <2>3 DEF InBuffer
<1>10. PassedEnough'
  <2> SUFFICES ASSUME NEW d \in Channels
               PROVE  Enough(passed_count'[d], InBuffer(d)', InTransit(d)')
    BY Zenon DEF PassedEnough
  <2>1. /\ Enough(passed_count[d], InBuffer(d), InTransit(d))
        /\ passed_count[d] \in Nat /\ passed_count'[d] = passed_count[d]
    BY Zenon, <1>0 DEF PassedEnough, TypeOK
  <2>2. InBuffer(d)' \in SUBSET InBuffer(d) /\ InTransit(d)' \in SUBSET InTransit(d)
    BY Zenon, <1>8, <1>9
  <2>3. Enough(passed_count[d], InBuffer(d)', InTransit(d)')
    BY <2>1, <2>2, EnoughForFewer
  <2> QED
    BY Zenon, <2>1, <2>3
<1>11. PassedIsEmpty'
  <2> SUFFICES ASSUME NEW d \in Channels, Passed(d)'
               PROVE  /\ buffer'[d] = <<>>
                      /\ \A u \in Threads : channel'[u] = d => pc'[u] \notin SendingSteps
    BY Zenon DEF PassedIsEmpty
  <2>1. Passed(d)
    BY Zenon, <1>8, <1>9 DEF Passed
  <2> QED
    BY Zenon, <1>0, <1>1, <2>1 DEF PassedIsEmpty
<1> QED
  BY Zenon, <1>5, <1>6, <1>7, <1>10, <1>11

-----------------------------------------------------------------------------
(* The theorem.                                                            *)

LEMMA PassingStep ==
  ASSUME PassingInv, [Next]_vars
  PROVE  PassingInv'
<1> USE DEF PassingInv
<1>0. /\ \A t \in Threads : what[t] \in Channels /\ Peer(what[t]) \in Channels
      /\ \A t \in Threads : what[t] # Peer(what[t])
  BY Zenon, PeerFacts DEF TypeOK, Channels
<1>1. CASE UNCHANGED vars
  BY Zenon, <1>1, CloseKeeps DEF vars, counts, TypeOK
<1>2. ASSUME NEW t \in Threads, NEW a \in Sockets, NEW b \in Sockets, Send(t, a, b)
      PROVE  PassingInv'
  BY Zenon, <1>2, SendKeeps
<1>3. ASSUME NEW t \in Threads, NEW a \in Sockets, Recv(t, a)
      PROVE  PassingInv'
  BY Zenon, <1>3, RecvKeeps
<1>4. ASSUME NEW t \in Threads, SendMark(t) PROVE PassingInv'
  BY Zenon, <1>4, SendMarkKeeps
<1>5. ASSUME NEW t \in Threads, SendPassOutgoing(t) PROVE PassingInv'
  <2>1. /\ pc[t] = "send_pass_outgoing"
        /\ Pass(t, what[t], "send_pass_incoming", "send_unmark")
        /\ what' = what
    BY Zenon, <1>5 DEF SendPassOutgoing, Outgoing, Pass
  <2>2. /\ pc'[t] = "send_unmark" => \A d : Holds(t, d)' <=> Holds(t, d)
        /\ pc'[t] = "send_pass_incoming" =>
             \A d : Holds(t, d)' <=> Holds(t, d) \/ d = what[t]
    BY Zenon, <2>1 DEF Holds
  <2>3. /\ "send_pass_outgoing" \in SendingSteps
        /\ "send_pass_incoming" \in SendingSteps
        /\ "send_unmark" \in MarkedSteps
    BY Zenon DEF SendingSteps, MarkedSteps
  <2> QED
    BY Zenon, <1>0, <2>1, <2>2, <2>3, PassKeeps
<1>6. ASSUME NEW t \in Threads, SendPassIncoming(t) PROVE PassingInv'
  <2>1. /\ pc[t] = "send_pass_incoming"
        /\ Pass(t, Peer(what[t]), "send_enqueue", "send_unpass_outgoing")
        /\ what' = what
    BY Zenon, <1>6 DEF SendPassIncoming, Incoming, Pass
  <2>2. /\ pc'[t] = "send_unpass_outgoing" => \A d : Holds(t, d)' <=> Holds(t, d)
        /\ pc'[t] = "send_enqueue" =>
             \A d : Holds(t, d)' <=> Holds(t, d) \/ d = Peer(what[t])
    BY Zenon, <2>1 DEF Holds
  <2>3. /\ "send_pass_incoming" \in SendingSteps
        /\ "send_enqueue" \in SendingSteps
        /\ "send_unpass_outgoing" \in MarkedSteps
    BY Zenon DEF SendingSteps, MarkedSteps
  <2> QED
    BY Zenon, <1>0, <2>1, <2>2, <2>3, PassKeeps
<1>7. ASSUME assertion = "none", NEW t \in Threads, SendUnpassOutgoing(t) PROVE PassingInv'
  <2>1. /\ pc[t] = "send_unpass_outgoing"
        /\ Unpass(t, what[t], "send_unmark")
        /\ what' = what /\ pc'[t] = "send_unmark"
    BY Zenon, <1>7 DEF SendUnpassOutgoing, Outgoing, Unpass, Goto, TypeOK
  <2>2. /\ Holds(t, what[t])
        /\ \A d : Holds(t, d)' <=> Holds(t, d) /\ d # what[t]
    BY Zenon, <2>1 DEF Holds
  <2>3. /\ "send_unpass_outgoing" \in MarkedSteps
        /\ "send_unmark" \in MarkedSteps \ SendingSteps
    BY Zenon DEF SendingSteps, MarkedSteps
  <2> QED
    BY Zenon, <1>0, <1>7, <2>1, <2>2, <2>3, UnpassKeeps
<1>8. ASSUME NEW t \in Threads, SendUnmark(t) PROVE PassingInv'
  BY Zenon, <1>8, UnmarkKeeps DEF SendUnmark, TypeOK
<1>9. ASSUME NEW t \in Threads, SendEnqueue(t) PROVE PassingInv'
  BY Zenon, <1>9, SendEnqueueKeeps
<1>10. ASSUME assertion = "none", NEW t \in Threads, RecvUnpassOutgoing(t) PROVE PassingInv'
  <2>1. /\ pc[t] = "recv_unpass_outgoing"
        /\ Unpass(t, what[t], "recv_unpass_incoming")
        /\ what' = what /\ pc'[t] = "recv_unpass_incoming"
    BY Zenon, <1>10 DEF RecvUnpassOutgoing, Outgoing, Unpass, Goto, TypeOK
  <2>2. /\ Holds(t, what[t])
        /\ \A d : Holds(t, d)' <=> Holds(t, d) /\ d # what[t]
    BY Zenon, <1>0, <2>1 DEF Holds
  <2>3. /\ "recv_unpass_outgoing" \in MarkedSteps
        /\ "recv_unpass_incoming" \in MarkedSteps \ SendingSteps
    BY Zenon DEF SendingSteps, MarkedSteps
  <2> QED
    BY Zenon, <1>0, <1>10, <2>1, <2>2, <2>3, UnpassKeeps
<1>11. ASSUME assertion = "none", NEW t \in Threads, RecvUnpassIncoming(t) PROVE PassingInv'
  <2>1. /\ pc[t] = "recv_unpass_incoming"
        /\ Unpass(t, Peer(what[t]), "recv_unmark")
        /\ what' = what /\ pc'[t] = "recv_unmark"
    BY Zenon, <1>11 DEF RecvUnpassIncoming, Incoming, Unpass, Goto, TypeOK
  <2>2. /\ Holds(t, Peer(what[t]))
        /\ \A d : Holds(t, d)' <=> Holds(t, d) /\ d # Peer(what[t])
    BY Zenon, <2>1 DEF Holds
  <2>3. /\ "recv_unpass_incoming" \in MarkedSteps
        /\ "recv_unmark" \in MarkedSteps \ SendingSteps
    BY Zenon DEF SendingSteps, MarkedSteps
  <2> QED
    BY Zenon, <1>0, <1>11, <2>1, <2>2, <2>3, UnpassKeeps
<1>12. ASSUME NEW t \in Threads, RecvUnmark(t) PROVE PassingInv'
  <2>1. open' \subseteq Sockets
    BY <1>12 DEF RecvUnmark, TypeOK
  <2> QED
    BY Zenon, <1>12, <2>1, UnmarkKeeps DEF RecvUnmark
<1>13. ASSUME NEW s \in Sockets, Close(s) PROVE PassingInv'
  BY Zenon, <1>13, CloseKeeps DEF Close, TypeOK, counts
<1>14. ASSUME assertion = "none", NEW c \in Channels, Destroy(c) PROVE PassingInv'
  BY Zenon, <1>14, DestroyKeeps
<1> QED
  BY Zenon, <1>1, <1>2, <1>3, <1>4, <1>5, <1>6, <1>7, <1>8, <1>9, <1>10,
     <1>11, <1>12,
     <1>13, <1>14 DEF Next, ThreadStep

LEMMA PassingInit ==
  ASSUME Init
  PROVE  PassingInv
<1>1. Nobody \in Sockets
  <2>1. PICK c \in Connections : TRUE
    BY Zenon, PassingAssumption
  <2>2. <<c, 1>> \in Sockets
    BY Zenon DEF Sockets
  <2> QED
    BY Zenon, <2>2 DEF Nobody
<1>2. TypeOK
  BY <1>1 DEF Init, TypeOK, Channels
<1>3. OneCall
  BY Zenon DEF Init, OneCall
<1>4. PassingExact
  BY Zenon DEF Init, PassingExact, Marked, MarkedSteps
<1>5. \A c : InBuffer(c) = {} /\ InTransit(c) = {}
  <2>1. \A c : InTransit(c) = {}
    BY Zenon DEF Init, InTransit, Holds
  <2>2. \A c : InBuffer(c) = {}
    BY DEF Init, InBuffer
  <2> QED
    BY Zenon, <2>1, <2>2
<1>6. PassedEnough
  <2> SUFFICES ASSUME NEW c \in Channels
               PROVE  Enough(passed_count[c], {}, {})
    BY Zenon, <1>5 DEF PassedEnough
  <2>1. IsFiniteSet({}) /\ Cardinality({}) = 0
    BY Zenon, FS_EmptySet
  <2>2. passed_count[c] = 0
    BY Zenon DEF Init
  <2> QED
    BY <2>1, <2>2 DEF Enough
<1>7. PassedIsEmpty
  BY Zenon, <1>5 DEF PassedIsEmpty, Passed
<1> QED
  BY Zenon, <1>2, <1>3, <1>4, <1>6, <1>7 DEF PassingInv

\* pipe.cpp's rules keep towers and cycles of references away: a socket in a
\* buffer has nothing in its own channels' buffers, whatever is sent, received,
\* closed and deleted at the same time on any number of connections.  The
\* counts never fall below 0, also in the step in which an assertion fails.
THEOREM NoTowers == Spec => []NoTower
<1>1. Init => PassingInv
  BY Zenon, PassingInit
<1>2. PassingInv /\ [Next]_vars => PassingInv'
  BY Zenon, PassingStep
<1>3. PassingInv => NoTower
  <2> SUFFICES ASSUME PassingInv, NEW c \in Channels, NEW i \in 1..Len(buffer[c])
               PROVE  /\ buffer[buffer[c][i]] = <<>>
                      /\ buffer[Peer(buffer[c][i])] = <<>>
    BY Zenon DEF NoTower, Outgoing, Incoming, PassingInv
  <2> DEFINE s == buffer[c][i]
  <2>1. s \in Sockets /\ i \in Nat
    BY DEF PassingInv, TypeOK
  <2>2. s \in Channels /\ Peer(s) \in Channels
    BY Zenon, <2>1, PeerFacts DEF Channels
  <2>3. <<c, i>> \in InBuffer(s) /\ <<c, i>> \in InBuffer(Peer(s))
    BY Zenon, <2>1 DEF InBuffer
  <2> QED
    BY Zenon, <2>2, <2>3 DEF PassingInv, PassedIsEmpty, Passed
<1> QED
  BY <1>1, <1>2, <1>3, PTL DEF Spec

=============================================================================
