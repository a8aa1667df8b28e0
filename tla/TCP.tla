-------------------------------- MODULE TCP --------------------------------
(***************************************************************************)
(* The TCP sockets of kernel/net/tcp.cpp, and a network between them that  *)
(* loses, duplicates and reorders segments.                                *)
(*                                                                         *)
(* Every operation runs under the global tcp_lock, so it is one step here, *)
(* up to the point where it waits on a condition variable.  An operation   *)
(* transforms a world: the sockets, the segments it has transmitted, the   *)
(* calls that sleep, and whether an assertion has failed.                  *)
(*                                                                         *)
(* Addresses are abstracted to ports (one address, SO_REUSEADDR unset),    *)
(* the ring buffers to sequences of bytes, and a byte to its position in   *)
(* the stream it was sent on.  Sequence numbers wrap at 2^SeqBits and the  *)
(* uint16_t of ProcessPacket at 2^LowBits.                                 *)
(***************************************************************************)
EXTENDS Integers, Sequences, FiniteSets, SequencesExt

CONSTANTS Connectors,   \* sockets whose owner calls bind and connect
          Listeners,    \* sockets whose owner calls bind and listen
          Slots,        \* memory for the sockets of incoming connections
          Senders,      \* sockets whose owner calls send
          Readers,      \* sockets whose owner calls recv
          Shutters,     \* sockets whose owner calls shutdown
          Closers,      \* sockets whose owner calls close
          Hows,         \* the arguments it calls shutdown with
          PortOf,       \* the port a connector or listener binds
          RemoteOf,     \* the port a connector connects to
          ISS,          \* the values arc4random gives for iss
          MaxBytes,     \* bound: how many bytes a socket's owner sends
          SendSizes,    \* the counts send is called with
          ReadSizes,    \* the counts recv is called with
          SeqBits, LowBits,      \* 32 and 16
          BufferSize, MAXWIN,    \* sizeof(incoming), and TCP_MAXWIN
          MTU,                   \* payload of a segment
          NUM_RETRANSMISSIONS,
          Backlog,               \* the argument of listen
          NetCap,       \* bound, per port: segments in flight to it
          MaxQueue,     \* bound: length of a receive_queue
          Duplicating,  \* whether the network duplicates segments
          MaxFlaps      \* bound: how often the interface goes down

Sockets == Connectors \cup Listeners \cup Slots
NoSocket == "none"
AnyPort == 0
Ports == {PortOf[s] : s \in Connectors \cup Listeners}

ASSUME TCPAssumption ==
  /\ SeqBits \in Nat /\ LowBits \in 0..SeqBits
  /\ BufferSize \in Nat \ {0} /\ MTU \in Nat \ {0} /\ MaxBytes \in Nat
  /\ 2 * BufferSize <= 2 ^ (SeqBits - 1)
  /\ AnyPort \notin Ports

VARIABLES sock,    \* the socket objects
          net,     \* the segments in flight
          rcall,   \* per socket, the call that uses receive_cond
          scall,   \* per socket, the count left of the call to send
          asleep,  \* the calls that wait: pairs of a socket and a condition
          up,      \* whether the interface is up
          flaps,   \* how often it went down
          panic,   \* whether an assertion failed
          sent,    \* per connection and direction, bytes given to send
          got      \* per connection and direction, bytes taken by recv

vars == <<sock, net, rcall, scall, asleep, up, flaps, panic, sent, got>>

-----------------------------------------------------------------------------
(* Sequence numbers. *)

SeqSize == 2 ^ SeqBits

Plus(a, b) == (a + b) % SeqSize
Minus(a, b) == (a - b) % SeqSize

mod32_lt(a, b) == Minus(a, b) >= SeqSize \div 2
mod32_le(a, b) == a = b \/ mod32_lt(a, b)
mod32_gt(a, b) == Minus(a, b) \in 1..(SeqSize \div 2 - 1)

One(b) == IF b THEN 1 ELSE 0
Least(a, b) == IF a < b THEN a ELSE b

-----------------------------------------------------------------------------
(* Socket objects. *)

Blank ==
  [exists |-> FALSE, is_referenced |-> FALSE, state |-> "CLOSED",
   bound |-> FALSE, remoted |-> FALSE, local |-> AnyPort, remote |-> AnyPort,
   connecting_half |-> <<>>, connecting_ready |-> <<>>,
   connecting_parent |-> NoSocket, backlog_used |-> 0, backlog_max |-> 0,
   incoming |-> <<>>, outgoing |-> <<>>, receive_queue |-> <<>>,
   iss |-> 0, send_una |-> 0, send_nxt |-> 0, send_wnd |-> 0, send_pos |-> 0,
   send_wl1 |-> 0, send_wl2 |-> 0,
   recv_nxt |-> 0, recv_wnd |-> 0, recv_acked |-> 0, recv_wndlast |-> 0,
   outgoing_syn |-> "NOT", outgoing_fin |-> "NOT",
   has_syn |-> FALSE, has_fin |-> FALSE, shutdown_receive |-> FALSE,
   sockerr |-> "none", retransmissions |-> 0, transmit_scheduled |-> FALSE,
   timer |-> "off", deadline |-> "none"]

want_destruction(k) == k.state = "CLOSED" /\ ~k.is_referenced
timer_armed(k) == k.timer # "off"
can_destroy(k) == k.exists /\ want_destruction(k) /\ ~timer_armed(k)

\* What ~TCPSocket asserts.
DestructorAsserts(k) ==
  /\ k.state = "CLOSED" /\ ~k.bound /\ ~k.is_referenced
  /\ k.connecting_half = <<>> /\ k.connecting_ready = <<>>
  /\ k.connecting_parent = NoSocket

\* The operations of a world w on its socket s.
Upd(w, s, k) == [w EXCEPT !.sock[s] = k]
Broadcast(w, s, cond) == [w EXCEPT !.asleep = @ \ {<<s, cond>>}]
Check(w, holds) == [w EXCEPT !.panic = @ \/ ~holds]

\* delete this, where the code has found can_destroy.
DeleteIfPossible(w, s) ==
  IF can_destroy(w.sock[s])
  THEN Check(Upd(w, s, Blank), DestructorAsserts(w.sock[s]))
  ELSE w

-----------------------------------------------------------------------------
(* The timer.  It is "soon" when a transmission is scheduled, "deadline"   *)
(* when it waits for the deadline, and "pending" once the clock has fired  *)
(* it and OnTimer has yet to take tcp_lock: TryCancel then fails.          *)

\* Mutant: the timer is set for transmissions only.
SetTimer_NoDeadline(k) ==
  IF k.timer = "pending" THEN k
  ELSE [k EXCEPT !.timer =
          IF k.state # "CLOSED" /\ k.transmit_scheduled THEN "soon" ELSE "off"]

SetTimer(k) ==
  IF k.timer = "pending" THEN k
  ELSE [k EXCEPT !.timer =
          IF k.state = "CLOSED" THEN "off"
          ELSE IF k.transmit_scheduled THEN "soon"
          ELSE IF k.deadline # "none" THEN "deadline"
          ELSE "off"]

TimesOut(k) ==
  k.state = "TIME_WAIT" \/ (k.state = "FIN_WAIT_2" /\ ~k.is_referenced)

SetDeadline(k) ==
  IF k.deadline = "none" /\ (TimesOut(k) \/ mod32_le(k.send_una, k.send_pos))
  THEN [k EXCEPT !.deadline = "future"]
  ELSE k

\* deadline = timespec_make(-1, 0); SetDeadline(); SetTimer();
RestartTimer(k) == SetTimer(SetDeadline([k EXCEPT !.deadline = "none"]))

ScheduleTransmit(k) ==
  IF \/ k.state \in {"CLOSED", "LISTEN"}
     \/ k.transmit_scheduled /\ timer_armed(k)
  THEN k
  ELSE SetTimer([k EXCEPT !.transmit_scheduled = TRUE])

-----------------------------------------------------------------------------
(* Transmission. *)

\* The start of Transmit: move the SYN, new outgoing data and the FIN into
\* the transmission window while there is room.
WindowData(k) ==
  Minus(k.send_nxt, k.send_una + One(k.outgoing_syn = "WINDOW")
                               + One(k.outgoing_fin = "WINDOW"))

WindowAvailable(k) == Minus(k.send_una + k.send_wnd, k.send_nxt)

SynIntoWindow(k) ==
  IF WindowAvailable(k) # 0 /\ k.outgoing_syn = "PENDING"
  THEN [k EXCEPT !.outgoing_syn = "WINDOW", !.send_nxt = Plus(@, 1)]
  ELSE k

DataIntoWindow(k) ==
  [k EXCEPT !.send_nxt =
     Plus(@, Least(WindowAvailable(k), Len(k.outgoing) - WindowData(k)))]

FinIntoWindow(k) ==
  IF WindowAvailable(k) # 0 /\ k.outgoing_fin = "PENDING"
  THEN [k EXCEPT !.outgoing_fin = "WINDOW", !.send_nxt = Plus(@, 1)]
  ELSE k

FillWindow(k) == FinIntoWindow(DataIntoWindow(SynIntoWindow(k)))

FillAsserts(k) ==
  LET k1 == SynIntoWindow(k)
  IN WindowAvailable(k1) # 0 => WindowData(k1) <= Len(k1.outgoing)

\* Whether the loop of Transmit has a segment to send.
MustTransmit(k) ==
  \/ mod32_lt(k.send_pos, k.send_nxt)
  \/ k.has_syn /\ mod32_lt(k.recv_acked, k.recv_nxt)
  \/ k.recv_wnd # k.recv_wndlast

\* The segment that the loop sends from position pos of the window.  stale
\* is a byte of the ring buffer that holds no outgoing data.
stale == 0

SegmentAt(k, pos) ==
  LET syn == k.outgoing_syn = "WINDOW" /\ pos = k.send_una
      fin == k.outgoing_fin = "WINDOW"
      from == Plus(pos, One(syn))
      window_data == Minus(Minus(k.send_nxt, pos),
                           One(syn) + One(fin /\ mod32_lt(pos, k.send_nxt)))
      amount == Least(MTU, window_data)
      window_length == Minus(from, k.send_una + One(k.outgoing_syn = "WINDOW"))
      to == Plus(from, amount)
      last == fin /\ Plus(to, 1) = k.send_nxt
  IN [next |-> Plus(to, One(last)),
      asserts |-> /\ amount > 0 => window_length <= BufferSize
                  /\ mod32_le(to, k.send_nxt),
      packet |->
        [sport |-> k.local, dport |-> k.remote, seq |-> pos,
         ack |-> IF k.has_syn THEN k.recv_nxt ELSE 0,
         win |-> k.recv_wnd,
         flags |-> (IF syn THEN {"SYN"} ELSE {})
                     \cup (IF k.has_syn THEN {"ACK"} ELSE {})
                     \cup (IF last THEN {"FIN"} ELSE {}),
         data |-> [i \in 1..amount |->
                     IF window_length + i <= Len(k.outgoing)
                     THEN k.outgoing[window_length + i] ELSE stale]]]

\* All the segments the loop sends, from send_pos to send_nxt.
Segments(k) ==
  LET More(g) == g.asserts /\ mod32_lt(g.next, k.send_nxt)
      from[pos \in 0..SeqSize - 1] ==
        UNION {{g} \cup IF More(g) THEN from[g.next] ELSE {} :
                 g \in {SegmentAt(k, pos)}}
  IN from[k.send_pos]

\* The loop, and the timer for the answer.
SendSegments(w, s, k, sending) ==
  Check([w EXCEPT !.tx = @ \cup {g.packet : g \in sending},
                  !.sock[s] = SetTimer(SetDeadline(
                     [k EXCEPT !.recv_acked =
                                 IF k.has_syn THEN k.recv_nxt ELSE @,
                               !.recv_wndlast = k.recv_wnd,
                               !.send_pos = k.send_nxt]))],
        FillAsserts(w.sock[s]) /\ \A g \in sending : g.asserts)

TransmitWindow(w, s, k) ==
  IF ~MustTransmit(k) THEN [ok |-> TRUE, world |-> Upd(w, s, k)]
  ELSE IF ~w.up THEN [ok |-> FALSE, world |-> Upd(w, s, k)]
  ELSE [ok |-> TRUE, world |-> SendSegments(w, s, k, Segments(k))]

\* Transmit on a socket that is not CLOSED.  It returns false, having sent
\* nothing, when the interface is down.
Transmit(w, s) == TransmitWindow(w, s, FillWindow(w.sock[s]))

-----------------------------------------------------------------------------
(* Closing. *)

\* Mutant: it is not taken out of the list.
LeaveQueue_Listed(w, s) ==
  LET p == w.sock[s].connecting_parent
  IN IF p = NoSocket THEN w
     ELSE [w EXCEPT !.sock[s].connecting_parent = NoSocket,
                    !.sock[p].backlog_used = @ - 1]

\* The end of Destroy: leave the queue of the listening socket.  A socket
\* at the head of its list replaces the head that its state names.
LeaveQueue(w, s) ==
  LET k == w.sock[s]
      p == k.connecting_parent
      l == w.sock[p]
      others(q) == SelectSeq(q, LAMBDA x : x # s)
      list == IF Contains(l.connecting_half, s) THEN l.connecting_half
              ELSE l.connecting_ready
      half == IF list[1] = s THEN k.state = "SYN_RECV"
              ELSE Contains(l.connecting_half, s)
  IN IF p = NoSocket THEN w
     ELSE [w EXCEPT
             !.sock[s].connecting_parent = NoSocket,
             !.sock[p].backlog_used = @ - 1,
             !.sock[p].connecting_half = IF half THEN others(list) ELSE @,
             !.sock[p].connecting_ready = IF half THEN @ ELSE others(list)]

\* Mutant: it stays on the list of bound sockets.
Destroy_Bound(w, s) == LeaveQueue(w, s)

\* Destroy on a socket with no connections in its queue.
Destroy(w, s) == [LeaveQueue(w, s) EXCEPT !.sock[s].bound = FALSE]

Closed(w, s) ==
  Upd(w, s, SetTimer([w.sock[s] EXCEPT !.state = "CLOSED",
                                       !.deadline = "none"]))

\* Mutant: Close wakes no one who waits to receive.
CloseConnection_Silent(w, s) ==
  Broadcast(Closed(Destroy(w, s), s), s, "transmit")

\* Close on such a socket.
CloseConnection(w, s) ==
  Broadcast(Broadcast(Closed(Destroy(w, s), s), s, "transmit"), s, "receive")

Fail(w, s, error) ==
  CloseConnection([w EXCEPT !.sock[s].sockerr = error], s)

AfterTransmit(t, s) ==
  IF ~t.ok /\ NUM_RETRANSMISSIONS - 1 <= t.world.sock[s].retransmissions
  THEN Fail(t.world, s, "ENETDOWN") ELSE t.world

TransmitLoop(w, s) ==
  IF w.sock[s].state = "CLOSED" THEN w
  ELSE IF NUM_RETRANSMISSIONS <= w.sock[s].retransmissions
  THEN Fail(w, s, "ETIMEDOUT")
  ELSE AfterTransmit(Transmit(w, s), s)

\* shutdown_unlocked.
Connected == {"SYN_SENT", "SYN_RECV", "ESTAB", "CLOSE_WAIT"}

ShutdownWrite(w, s) ==
  LET k == w.sock[s]
      w1 == Upd(w, s, [k EXCEPT !.outgoing_fin = "PENDING",
                                !.state = IF k.state = "CLOSE_WAIT"
                                          THEN "LAST_ACK" ELSE "FIN_WAIT_1"])
  IN IF k.state = "SYN_SENT" THEN CloseConnection(w, s)
     ELSE TransmitLoop(Broadcast(w1, s, "transmit"), s)

ShutdownRead(w, s) ==
  Broadcast([w EXCEPT !.sock[s].shutdown_receive = TRUE], s, "receive")

shutdown_unlocked(w, s, how) ==
  LET w1 == IF "WR" \in how THEN ShutdownWrite(w, s) ELSE w
  IN IF w.sock[s].state \notin Connected THEN w
     ELSE IF "RD" \in how THEN ShutdownRead(w1, s) ELSE w1

\* Disconnect on a socket that is not listening.
LimitFinWait2(w, s) ==
  IF w.sock[s].state = "FIN_WAIT_2" /\ ~w.sock[s].is_referenced
  THEN Upd(w, s, RestartTimer(w.sock[s])) ELSE w

DisconnectConnection(w, s) ==
  IF w.sock[s].state = "CLOSED" THEN Destroy(w, s)
  ELSE LimitFinWait2(shutdown_unlocked(w, s, {"WR"}), s)

\* Disconnect.  A listening socket is closed, and each connection in its
\* queue is disconnected, the half-open ones first.
Disconnect(w, s) ==
  LET k == w.sock[s]
      Drop(v, c) == DisconnectConnection(
                      [v EXCEPT !.sock[c].connecting_parent = NoSocket,
                                !.sock[s].backlog_used = @ - 1], c)
      w1 == [w EXCEPT !.sock[s].bound = FALSE,
                      !.sock[s].connecting_half = <<>>,
                      !.sock[s].connecting_ready = <<>>]
  IN IF k.state # "LISTEN" THEN DisconnectConnection(w, s)
     ELSE CloseConnection(
            FoldLeft(Drop, w1, k.connecting_half \o k.connecting_ready), s)

-----------------------------------------------------------------------------
(* Incoming segments: ProcessPacket, one operator per part. *)

UpdateWindow(k, p) == [k EXCEPT !.send_wnd = p.win]

\* UpdateWindow with the sequence numbers it was made at.
TakeWindow(k, p) ==
  [UpdateWindow(k, p) EXCEPT !.send_wl1 = p.seq, !.send_wl2 = p.ack]

\* Part of the constructor's and the connection's start: the own SYN.
OpenWindow(k, iss) ==
  [k EXCEPT !.iss = iss, !.send_una = iss, !.send_nxt = iss, !.send_pos = iss,
            !.send_wnd = 1, !.recv_wnd = MAXWIN, !.outgoing_syn = "PENDING"]

SeenSyn(k, p) ==
  [k EXCEPT !.recv_acked = p.seq, !.recv_nxt = Plus(p.seq, 1),
            !.has_syn = TRUE]

\* LISTEN: a SYN makes a half-open socket c with initial sequence number iss.
Incoming(w, s, p, c, iss) ==
  LET k == UpdateWindow(
             SeenSyn(OpenWindow(
               [Blank EXCEPT !.exists = TRUE, !.local = p.dport,
                             !.remote = p.sport, !.remoted = TRUE,
                             !.bound = TRUE, !.connecting_parent = s,
                             !.state = "SYN_RECV"], iss), p), p)
  IN TransmitLoop([w EXCEPT !.sock[c] = k,
                            !.sock[s].connecting_half = <<c>> \o @,
                            !.sock[s].backlog_used = @ + 1], c)

FreeSlots(w) == {c \in Slots : ~w.sock[c].exists}

ProcessListen(w, s, p, iss) ==
  LET k == w.sock[s]
  IN IF \/ p.flags \cap {"RST", "ACK"} # {} \/ "SYN" \notin p.flags
        \/ p.win = 0
        \/ k.backlog_max <= k.backlog_used
        \/ FreeSlots(w) = {}
     THEN w
     ELSE Incoming(w, s, p, CHOOSE c \in FreeSlots(w) : TRUE, iss)

ProcessSynSent(w, s, p) ==
  LET k == w.sock[s]
      k1 == TakeWindow(SeenSyn(k, p), p)
      k2 == RestartTimer([k1 EXCEPT !.send_una = p.ack,
                                    !.retransmissions = 0])
  IN IF "ACK" \in p.flags /\ (\/ mod32_le(p.ack, k.iss)
                              \/ mod32_gt(p.ack, k.send_nxt)
                              \/ ~mod32_le(k.send_una, p.ack))
     THEN w
     ELSE IF "RST" \in p.flags THEN Fail(w, s, "ECONNREFUSED")
     ELSE IF "SYN" \notin p.flags THEN w
     ELSE IF "ACK" \in p.flags
     THEN Broadcast(Upd(w, s, [k2 EXCEPT !.outgoing_syn = "ACKED",
                                         !.state = "ESTAB"]), s, "receive")
     ELSE Upd(w, s, [k1 EXCEPT !.state = "SYN_RECV"])

InWindow(k, seq) ==
  mod32_le(k.recv_nxt, seq) /\ mod32_lt(seq, k.recv_nxt + k.recv_wnd)

Acceptable(k, p) ==
  IF p.data = <<>>
  THEN IF k.recv_wnd = 0 THEN p.seq = k.recv_nxt ELSE InWindow(k, p.seq)
  ELSE /\ k.recv_wnd > 0
       /\ \/ InWindow(k, p.seq)
          \/ InWindow(k, Plus(p.seq, Len(p.data) - 1))

\* Cut off what was received before: the SYN, then bytes, then the FIN.
TrimFlag(k, p, f) ==
  IF mod32_lt(p.seq, k.recv_nxt) /\ f \in p.flags
  THEN [p EXCEPT !.flags = @ \ {f}, !.seq = Plus(@, 1)] ELSE p

TrimData(k, p) ==
  LET skip == Least(Minus(k.recv_nxt, p.seq), Len(p.data))
  IN IF mod32_lt(p.seq, k.recv_nxt)
     THEN [p EXCEPT !.seq = Plus(@, skip),
                    !.data = SubSeq(@, skip + 1, Len(@))]
     ELSE p

Trim(k, p) == TrimFlag(k, TrimData(k, TrimFlag(k, p, "SYN")), "FIN")

\* Put a segment that is too new into receive_queue, before the first one
\* that does not come before it.
Enqueue(k, p) ==
  LET real_seq == p.seq % (2 ^ LowBits)
      q == k.receive_queue
      After(i) == \A j \in 1..i : ~mod32_le(real_seq, q[j].seq)
      at == CHOOSE i \in 0..Len(q) :
              After(i) /\ (i < Len(q) => ~After(i + 1))
  IN [k EXCEPT !.receive_queue = InsertAt(q, at + 1, p)]

\* SYN_RECV: an acknowledgement establishes the connection and moves it to
\* the front of the listening socket's ready queue.
Establish(w, s) ==
  LET p == w.sock[s].connecting_parent
      w1 == Broadcast([w EXCEPT !.sock[s].state = "ESTAB"], s, "receive")
  IN IF p = NoSocket THEN w1
     ELSE Broadcast([w1 EXCEPT
            !.sock[p].connecting_half = SelectSeq(@, LAMBDA x : x # s),
            !.sock[p].connecting_ready = <<s>> \o @], p, "receive")

\* Remove what p acknowledges from the window: the SYN, then bytes, then the
\* FIN.
AckSyn(k, p) ==
  IF k.outgoing_syn = "WINDOW" /\ p.ack # k.send_una
  THEN [k EXCEPT !.outgoing_syn = "ACKED", !.send_una = Plus(@, 1)] ELSE k

AckedBytes(k, p) == Least(WindowData(k), Minus(p.ack, k.send_una))

\* Mutant: the acknowledged bytes stay in the outgoing buffer.
AckData_KeepsBytes(k, p) ==
  [k EXCEPT !.send_una = Plus(@, AckedBytes(k, p))]

AckData(k, p) ==
  [k EXCEPT !.outgoing = SubSeq(@, AckedBytes(k, p) + 1, Len(@)),
            !.send_una = Plus(@, AckedBytes(k, p))]

AckFin(k, p) ==
  IF k.outgoing_fin = "WINDOW" /\ p.ack # k.send_una
  THEN [k EXCEPT !.outgoing_fin = "ACKED", !.send_una = Plus(@, 1)] ELSE k

\* Mutant: room in the outgoing buffer wakes no sender.
RemoveAcked_Silent(w, s, p) ==
  LET k2 == AckFin(AckData(AckSyn(w.sock[s], p), p), p)
  IN Upd(w, s, IF k2.send_una # w.sock[s].send_una
               THEN SetTimer([k2 EXCEPT !.retransmissions = 0]) ELSE k2)

RemoveAcked(w, s, p) ==
  LET k == w.sock[s]
      k1 == AckSyn(k, p)
      k2 == AckFin(AckData(k1, p), p)
      k3 == IF k2.send_una # k.send_una
            THEN SetTimer([k2 EXCEPT !.retransmissions = 0]) ELSE k2
      w1 == Check(Upd(w, s, k3), AckedBytes(k1, p) <= Len(k1.outgoing))
  IN IF AckedBytes(k1, p) > 0 THEN Broadcast(w1, s, "transmit") ELSE w1

NewerWindow(k, p) ==
  \/ mod32_lt(k.send_wl1, p.seq)
  \/ k.send_wl1 = p.seq /\ mod32_le(k.send_wl2, p.ack)

\* Take the data and the FIN of a segment that starts at recv_nxt.
TakeData(w, s, p) ==
  LET k == w.sock[s]
      amount == Least(BufferSize - Len(k.incoming), Len(p.data))
      fin == amount = Len(p.data) /\ "FIN" \in p.flags
      incoming == IF k.shutdown_receive THEN k.incoming
                  ELSE k.incoming \o SubSeq(p.data, 1, amount)
      k1 == [k EXCEPT !.incoming = incoming,
                      !.recv_wnd = Least(@, BufferSize - Len(incoming)),
                      !.recv_nxt = Plus(p.seq, amount + One(fin)),
                      !.has_fin = @ \/ fin]
      w1 == Upd(w, s, k1)
  IN IF k.state \notin {"ESTAB", "FIN_WAIT_1", "FIN_WAIT_2"} THEN w
     ELSE IF k1.incoming # <<>> \/ k1.has_fin
     THEN Broadcast(w1, s, "receive") ELSE w1

TakeFin(w, s, p) ==
  LET k == w.sock[s]
  IN IF "FIN" \notin p.flags THEN w
     ELSE IF k.state = "ESTAB"
     THEN Broadcast([w EXCEPT !.sock[s].state = "CLOSE_WAIT"], s, "receive")
     ELSE IF k.state = "FIN_WAIT_1"
     THEN [w EXCEPT !.sock[s].state = "CLOSING"]
     ELSE IF k.state = "FIN_WAIT_2"
     THEN Upd(w, s, RestartTimer([k EXCEPT !.state = "TIME_WAIT"]))
     ELSE w

\* The acknowledgement of the own FIN, then the data and the other's FIN.
AfterAck(w, s, p, fin_was_acked) ==
  LET k == w.sock[s]
      k1 == [k EXCEPT !.state = "FIN_WAIT_2"]
      w1 == IF k.state = "FIN_WAIT_1" /\ fin_was_acked
            THEN Upd(w, s, IF k.is_referenced THEN k1 ELSE RestartTimer(k1))
            ELSE w
  IN IF k.state = "CLOSING"
     THEN IF fin_was_acked
          THEN Upd(w, s, RestartTimer([k EXCEPT !.state = "TIME_WAIT"]))
          ELSE w
     ELSE IF k.state = "LAST_ACK"
     THEN IF fin_was_acked THEN CloseConnection(w, s) ELSE w
     ELSE TakeFin(TakeData(w1, s, p), s, p)

\* Everything from the acknowledgement on.
ProcessAck(w, s, p) ==
  LET k == w.sock[s]
      w1 == RemoveAcked(w, s, p)
      k1 == w1.sock[s]
      w2 == IF NewerWindow(k1, p) THEN Upd(w1, s, TakeWindow(k1, p)) ELSE w1
  IN IF mod32_lt(p.ack, k.send_una) \/ mod32_lt(k.send_nxt, p.ack) THEN w
     ELSE AfterAck(w2, s, p, k.outgoing_fin = "WINDOW"
                               /\ k1.outgoing_fin = "ACKED")

\* A segment that starts at recv_nxt, cut to the receive window.
ProcessInOrder(w, s, p) ==
  LET k == w.sock[s]
      w1 == Upd(w, s, TakeWindow(k, p))
      handshake == k.state = "SYN_RECV"
  IN IF "RST" \in p.flags
     THEN IF k.state \in {"CLOSING", "LAST_ACK", "TIME_WAIT"}
          THEN CloseConnection(w, s) ELSE Fail(w, s, "ECONNRESET")
     ELSE IF "SYN" \in p.flags THEN Fail(w, s, "ECONNRESET")
     ELSE IF "ACK" \notin p.flags THEN w
     ELSE IF ~handshake THEN ProcessAck(w, s, p)
     ELSE IF mod32_le(k.send_una, p.ack) /\ mod32_le(p.ack, k.send_nxt)
     THEN ProcessAck(Establish(w1, s), s, p)
     ELSE TransmitLoop(w1, s)

ProcessSegment(w, s, p) ==
  LET k == w.sock[s]
      p1 == Trim(k, p)
      p2 == [p1 EXCEPT !.data = SubSeq(@, 1, Least(Len(@), k.recv_wnd))]
  IN IF ~Acceptable(k, p)
     THEN IF "RST" \in p.flags THEN w
          ELSE [w EXCEPT !.sock[s].recv_acked = Minus(k.recv_nxt, 1)]
     ELSE IF mod32_lt(p1.seq, k.recv_nxt) THEN w
     ELSE IF mod32_gt(p1.seq, k.recv_nxt) THEN Upd(w, s, Enqueue(k, p))
     ELSE ProcessInOrder(w, s, p2)

ProcessPacket(w, s, p, iss) ==
  LET state == w.sock[s].state
  IN IF state = "CLOSED" THEN w
     ELSE IF state = "LISTEN" THEN ProcessListen(w, s, p, iss)
     ELSE IF state = "SYN_SENT" THEN ProcessSynSent(w, s, p)
     ELSE ProcessSegment(w, s, p)

\* One turn of ReceivePacket's loop over receive_queue; none after the loop
\* has ended.
Drain(w, s, iss) ==
  LET k == w.sock[s]
      p == Head(k.receive_queue)
      w1 == [w EXCEPT !.sock[s].receive_queue = Tail(@)]
  IN IF k.receive_queue = <<>> \/ mod32_gt(p.seq, k.recv_nxt) THEN w
     ELSE IF p.seq = k.recv_nxt THEN ProcessPacket(w1, s, p, iss) ELSE w1

DrainAll(w, s, iss) ==
  FoldLeft(LAMBDA v, q : Drain(v, s, iss), w, w.sock[s].receive_queue)

Answer(w, s) == Upd(w, s, ScheduleTransmit(w.sock[s]))

ReceivePacket(w, s, p, iss) ==
  Answer(DrainAll(ProcessPacket(w, s, p, iss), s, iss), s)

-----------------------------------------------------------------------------
(* Steps. *)

World == [sock |-> sock, asleep |-> asleep, panic |-> panic, up |-> up,
          tx |-> {}]

\* A step ends in world w, with the segments kept still in flight.  The
\* network may lose any segment.
Becomes(w, kept) ==
  /\ sock' = w.sock /\ asleep' = w.asleep /\ panic' = w.panic
  /\ \E arriving \in SUBSET w.tx :
       /\ net' = kept \cup arriving
       /\ \A port \in Ports :
            Cardinality({p \in net' : p.dport = port}) <= NetCap[port]

Out(k) == <<k.local, k.remote>>
In(k) == <<k.remote, k.local>>
Streams == (Ports \cup {AnyPort}) \X (Ports \cup {AnyPort})

Init ==
  /\ sock = [s \in Sockets |->
               [Blank EXCEPT !.exists = s \notin Slots,
                             !.is_referenced = s \notin Slots]]
  /\ net = {}
  /\ rcall = [s \in Sockets |-> "idle"]
  /\ scall = [s \in Sockets |-> 0]
  /\ asleep = {}
  /\ up = TRUE /\ flaps = 0 /\ panic = FALSE
  /\ sent = [c \in Streams |-> 0]
  /\ got = [c \in Streams |-> 0]

\* A socket after the handshake.
Estab(port, remote, iss, irs) ==
  [Blank EXCEPT !.exists = TRUE, !.is_referenced = TRUE, !.state = "ESTAB",
     !.bound = TRUE, !.remoted = TRUE, !.local = port, !.remote = remote,
     !.iss = iss, !.send_una = Plus(iss, 1), !.send_nxt = Plus(iss, 1),
     !.send_pos = Plus(iss, 1), !.send_wnd = MAXWIN, !.send_wl1 = irs,
     !.send_wl2 = Plus(iss, 1), !.recv_nxt = Plus(irs, 1),
     !.recv_acked = Plus(irs, 1), !.recv_wnd = MAXWIN,
     !.recv_wndlast = MAXWIN, !.outgoing_syn = "ACKED", !.has_syn = TRUE]

\* The other place to start from: connector s and an accepted connection c.
InitEstab ==
  \E s \in Connectors, c \in Slots, iss \in ISS, irs \in ISS :
    /\ sock = [x \in Sockets |->
                 IF x = s THEN Estab(PortOf[s], RemoteOf[s], iss, irs)
                 ELSE IF x = c THEN Estab(RemoteOf[s], PortOf[s], irs, iss)
                 ELSE Blank]
    /\ net = {}
    /\ rcall = [x \in Sockets |-> "idle"]
    /\ scall = [x \in Sockets |-> 0]
    /\ asleep = {}
    /\ up = TRUE /\ flaps = 0 /\ panic = FALSE
    /\ sent = [x \in Streams |-> 0]
    /\ got = [x \in Streams |-> 0]

CanBind(port) == \A s \in Sockets : ~(sock[s].bound /\ sock[s].local = port)

bind(s) ==
  /\ s \in Listeners
  /\ sock[s].is_referenced /\ ~sock[s].bound
  /\ CanBind(PortOf[s])
  /\ sock' = [sock EXCEPT ![s].bound = TRUE, ![s].local = PortOf[s]]
  /\ UNCHANGED <<net, rcall, scall, asleep, up, flaps, panic, sent, got>>

listen(s) ==
  /\ s \in Listeners
  /\ sock[s].is_referenced /\ sock[s].bound /\ sock[s].state = "CLOSED"
  /\ sock' = [sock EXCEPT ![s].backlog_max = Backlog, ![s].remote = AnyPort,
                          ![s].remoted = TRUE, ![s].state = "LISTEN"]
  /\ UNCHANGED <<net, rcall, scall, asleep, up, flaps, panic, sent, got>>

\* Whether the loop of a call on receive_cond goes on waiting.
MustWait(k, call) ==
  CASE call = "connect" ->
         k.sockerr = "none" /\ k.state \in {"SYN_SENT", "SYN_RECV"}
    [] call = "accept" -> k.connecting_ready = <<>>
    [] call = "recv" ->
         /\ k.incoming = <<>> /\ ~k.has_fin /\ ~k.shutdown_receive
         /\ k.sockerr = "none" /\ k.state # "CLOSED"

\* The call on s has not returned: it waits on receive_cond.
Wait(w, s, call) ==
  /\ MustWait(w.sock[s], call)
  /\ Becomes([w EXCEPT !.asleep = @ \cup {<<s, "receive">>}], net)
  /\ rcall' = [rcall EXCEPT ![s] = call]
  /\ UNCHANGED got

Return(s) == rcall' = [rcall EXCEPT ![s] = "idle"]

\* connect, with BindDefault.
connect(s, iss) ==
  LET k == OpenWindow([sock[s] EXCEPT !.bound = TRUE, !.local = PortOf[s],
                                      !.remoted = TRUE,
                                      !.remote = RemoteOf[s],
                                      !.state = "SYN_SENT"], iss)
      w == TransmitLoop(Upd(World, s, k), s)
  IN /\ s \in Connectors
     /\ rcall[s] = "idle" /\ sock[s].is_referenced /\ up
     /\ sock[s].state = "CLOSED" /\ ~sock[s].remoted
     /\ CanBind(PortOf[s])
     /\ IF MustWait(w.sock[s], "connect") THEN Wait(w, s, "connect")
        ELSE Becomes(w, net) /\ Return(s) /\ UNCHANGED got
     /\ UNCHANGED <<scall, up, flaps, sent>>

\* The end of accept4: take the first ready connection.
AcceptReady(s) ==
  LET c == Head(sock[s].connecting_ready)
  IN /\ ~MustWait(sock[s], "accept")
     /\ Becomes([World EXCEPT !.sock[c].is_referenced = TRUE,
                              !.sock[c].connecting_parent = NoSocket,
                              !.sock[s].connecting_ready = Tail(@),
                              !.sock[s].backlog_used = @ - 1], net)
     /\ Return(s)
     /\ UNCHANGED got

accept4(s) ==
  /\ rcall[s] = "idle" /\ sock[s].is_referenced /\ sock[s].state = "LISTEN"
  /\ Wait(World, s, "accept") \/ AcceptReady(s)
  /\ UNCHANGED <<scall, up, flaps, sent>>

\* What recv does after recv_unlocked: answer at once if the buffer is empty.
AfterRecv(w, s) ==
  IF w.sock[s].incoming = <<>> THEN TransmitLoop(w, s) ELSE Answer(w, s)

\* The end of recv, with up to n bytes or an error.
RecvReturns(s, n, error) ==
  LET k == sock[s]
      amount == IF error THEN 0 ELSE Least(n, Len(k.incoming))
      left == SubSeq(k.incoming, amount + 1, Len(k.incoming))
      k1 == [k EXCEPT !.incoming = left,
                      !.recv_wnd = Least(BufferSize - Len(left), MAXWIN)]
  IN /\ Becomes(AfterRecv(Upd(World, s, IF amount = 0 THEN k ELSE k1), s), net)
     /\ got' = [got EXCEPT ![In(k)] = @ + amount]
     /\ Return(s)

NotConnected == {"CLOSED", "LISTEN", "SYN_SENT", "SYN_RECV"}

recv(s, n) ==
  /\ s \in Readers
  /\ rcall[s] = "idle" /\ sock[s].is_referenced
  /\ IF sock[s].sockerr # "none" \/ sock[s].state \in NotConnected
     THEN RecvReturns(s, n, TRUE)
     ELSE \/ Wait(World, s, "recv")
          \/ ~MustWait(sock[s], "recv") /\ RecvReturns(s, n, FALSE)
  /\ UNCHANGED <<scall, up, flaps, sent>>

\* A call woken by a broadcast on receive_cond looks at its condition again.
Resume(s) ==
  /\ rcall[s] # "idle" /\ <<s, "receive">> \notin asleep
  /\ \/ Wait(World, s, rcall[s])
     \/ /\ rcall[s] = "connect" /\ ~MustWait(sock[s], "connect")
        /\ Becomes(World, net) /\ Return(s) /\ UNCHANGED got
     \/ rcall[s] = "accept" /\ AcceptReady(s)
     \/ /\ rcall[s] = "recv" /\ ~MustWait(sock[s], "recv")
        /\ \E n \in ReadSizes :
             RecvReturns(s, n, sock[s].sockerr # "none")
  /\ UNCHANGED <<scall, up, flaps, sent>>

\* A signal interrupts a call that sleeps on receive_cond.
Interrupt(s) ==
  /\ <<s, "receive">> \in asleep
  /\ LET w == [World EXCEPT !.asleep = @ \ {<<s, "receive">>}]
     IN Becomes(IF rcall[s] = "recv" THEN AfterRecv(w, s) ELSE w, net)
  /\ Return(s)
  /\ UNCHANGED <<scall, up, flaps, sent, got>>

-----------------------------------------------------------------------------
CannotSend(k) ==
  Len(k.outgoing) = BufferSize \/ k.state \notin {"ESTAB", "CLOSE_WAIT"}

\* send_unlocked's loop, and the TransmitLoop after it.
SendLoop(s, n) ==
  LET k == sock[s]
      amount == Least(n, BufferSize - Len(k.outgoing))
      new == [i \in 1..amount |-> sent[Out(k)] + i]
  IN \/ /\ CannotSend(k) /\ k.sockerr = "none"
        /\ Becomes([World EXCEPT !.asleep = @ \cup {<<s, "transmit">>}], net)
        /\ scall' = [scall EXCEPT ![s] = n]
        /\ UNCHANGED sent
     \/ /\ CannotSend(k) /\ k.sockerr # "none"
        /\ Becomes(TransmitLoop(World, s), net)
        /\ scall' = [scall EXCEPT ![s] = 0]
        /\ UNCHANGED sent
     \/ /\ ~CannotSend(k)
        /\ Becomes(TransmitLoop([World EXCEPT !.sock[s].outgoing = @ \o new],
                                s), net)
        /\ sent' = [sent EXCEPT ![Out(k)] = @ + amount]
        /\ scall' = [scall EXCEPT ![s] = 0]

send(s, n) ==
  /\ s \in Senders
  /\ scall[s] = 0 /\ sock[s].is_referenced
  /\ sent[Out(sock[s])] + n <= MaxBytes
  /\ IF sock[s].sockerr # "none" \/ sock[s].state \in NotConnected
     THEN Becomes(TransmitLoop(World, s), net) /\ UNCHANGED <<scall, sent>>
     ELSE SendLoop(s, n)
  /\ UNCHANGED <<rcall, up, flaps, got>>

SendResume(s) ==
  /\ scall[s] > 0 /\ <<s, "transmit">> \notin asleep
  /\ SendLoop(s, scall[s])
  /\ UNCHANGED <<rcall, up, flaps, got>>

SendInterrupt(s) ==
  /\ <<s, "transmit">> \in asleep
  /\ Becomes(TransmitLoop([World EXCEPT !.asleep = @ \ {<<s, "transmit">>}],
                          s), net)
  /\ scall' = [scall EXCEPT ![s] = 0]
  /\ UNCHANGED <<rcall, up, flaps, sent, got>>

shutdown(s, how) ==
  /\ s \in Shutters
  /\ sock[s].is_referenced
  /\ Becomes(shutdown_unlocked(World, s, how), net)
  /\ UNCHANGED <<rcall, scall, up, flaps, sent, got>>

\* close(2) of the last descriptor: ~TCPSocketNode.
Unreference(s) ==
  /\ s \in Closers
  /\ sock[s].is_referenced /\ rcall[s] = "idle" /\ scall[s] = 0
  /\ Becomes(DeleteIfPossible(
               Disconnect([World EXCEPT !.sock[s].is_referenced = FALSE], s),
               s), net)
  /\ UNCHANGED <<rcall, scall, up, flaps, sent, got>>

-----------------------------------------------------------------------------
(* The network, the clock and the interface. *)

\* The socket that HandleIP finds for a segment: the connection, or else the
\* socket that listens on the port.
Receivers(p) ==
  LET on(remote) == {s \in Sockets : /\ sock[s].bound /\ sock[s].remoted
                                     /\ sock[s].local = p.dport
                                     /\ sock[s].remote = remote}
  IN IF on(p.sport) # {} THEN on(p.sport) ELSE on(AnyPort)

Reset(p) ==
  LET length == Len(p.data) + Cardinality(p.flags \cap {"SYN", "FIN"})
      ack == "ACK" \in p.flags
  IN [sport |-> p.dport, dport |-> p.sport, win |-> 0, data |-> <<>>,
      flags |-> IF ack THEN {"RST"} ELSE {"RST", "ACK"},
      seq |-> IF ack THEN p.ack ELSE 0,
      ack |-> IF ack THEN 0 ELSE Plus(p.seq, length)]

\* HandleIP.  The network may deliver the segment again later.
HandleIP(p, iss) ==
  /\ p \in net
  /\ \E kept \in {net \ {p}} \cup (IF Duplicating THEN {net} ELSE {}) :
       \/ \E s \in Receivers(p) :
            /\ Becomes(DeleteIfPossible(ReceivePacket(World, s, p, iss), s),
                       kept)
            /\ Len(sock'[s].receive_queue) <= MaxQueue
       \/ /\ Receivers(p) = {}
          /\ Becomes([World EXCEPT !.tx = IF "RST" \in p.flags \/ ~up
                                          THEN {} ELSE {Reset(p)}], kept)
  /\ UNCHANGED <<rcall, scall, up, flaps, sent, got>>

\* The clock fires the timer.
TimerExpires(s) ==
  /\ sock[s].timer \in {"soon", "deadline"}
  /\ sock' = [sock EXCEPT ![s].timer = "pending",
                          ![s].deadline = IF sock[s].timer = "deadline"
                                          THEN "past" ELSE @]
  /\ UNCHANGED <<net, rcall, scall, asleep, up, flaps, panic, sent, got>>

\* The start of OnTimer, on the deadline: time out, or retransmit.
DeadlineReached(w, s) ==
  LET k == [w.sock[s] EXCEPT !.deadline = "none"]
  IN IF TimesOut(k) THEN CloseConnection(Upd(w, s, k), s)
     ELSE IF mod32_lt(k.send_una, k.send_pos)
     THEN Upd(w, s, [k EXCEPT !.retransmissions = @ + 1,
                              !.send_pos = k.send_una])
     ELSE Upd(w, s, k)

KeepTimer(w, s) ==
  IF w.sock[s].deadline # "none" THEN Upd(w, s, SetTimer(w.sock[s])) ELSE w

\* The deadline may also pass while the timer waits to send soon.
OnTimer(s, late) ==
  LET w0 == [World EXCEPT !.sock[s].timer = "off"]
      w1 == IF late THEN DeadlineReached(w0, s) ELSE w0
      w2 == TransmitLoop([w1 EXCEPT !.sock[s].transmit_scheduled = FALSE], s)
  IN /\ sock[s].timer = "pending"
     /\ sock[s].deadline = "past" => late
     /\ sock[s].deadline = "none" => ~late
     /\ Becomes(DeleteIfPossible(KeepTimer(w2, s), s), net)
     /\ UNCHANGED <<rcall, scall, up, flaps, sent, got>>

GoDown ==
  /\ up /\ flaps < MaxFlaps
  /\ up' = FALSE /\ flaps' = flaps + 1
  /\ UNCHANGED <<sock, net, rcall, scall, asleep, panic, sent, got>>

GoUp ==
  /\ ~up
  /\ up' = TRUE
  /\ UNCHANGED <<sock, net, rcall, scall, asleep, flaps, panic, sent, got>>

Calls(s) ==
  \/ bind(s) \/ listen(s) \/ accept4(s)
  \/ \E iss \in ISS : connect(s, iss)
  \/ \E n \in ReadSizes : recv(s, n)
  \/ \E n \in SendSizes : send(s, n)
  \/ \E how \in Hows : shutdown(s, how)
  \/ Unreference(s)

Kernel(s) ==
  \/ Resume(s) \/ SendResume(s)
  \/ TimerExpires(s) \/ \E late \in BOOLEAN : OnTimer(s, late)

Next ==
  \/ \E s \in Sockets : \/ Calls(s) \/ Kernel(s)
                         \/ Interrupt(s) \/ SendInterrupt(s)
  \/ \E p \in net, iss \in ISS : HandleIP(p, iss)

\* The same on a machine whose interface goes down and up again.
LinkNext == Next \/ GoDown \/ GoUp

Spec == Init /\ [][Next]_vars
StreamSpec == InitEstab /\ [][Next]_vars
LinkSpec == InitEstab /\ [][LinkNext]_vars

\* The clock advances, a timer that has fired gets to run OnTimer, and a call
\* that was woken gets to run.  Only OnTimer ends "pending" and only the
\* resumed call itself ends being woken, so these are the weak fairness of
\* TimerExpires, OnTimer, Resume and SendResume.  Nothing is assumed of the
\* network or of the programs.
Woken(s) ==
  \/ rcall[s] # "idle" /\ <<s, "receive">> \notin asleep
  \/ scall[s] > 0 /\ <<s, "transmit">> \notin asleep

Fairness ==
  \A s \in Sockets : /\ WF_vars(TimerExpires(s))
                     /\ []<>(sock[s].deadline # "future" \/ ~timer_armed(sock[s]))
                     /\ []<>(sock[s].timer # "pending")
                     /\ []<>~Woken(s)

FairSpec == Spec /\ Fairness
FairStreamSpec == StreamSpec /\ Fairness

-----------------------------------------------------------------------------
\* No assertion of tcp.cpp fails: those of Transmit on the window and the
\* outgoing buffer, that of ProcessPacket on what an acknowledgement removes,
\* and those of ~TCPSocket.
AssertionsHold == ~panic

\* What recv_unlocked hands out is what send_unlocked was given on the other
\* side, in order, once and without gaps, whatever the network lost or
\* reordered; and has_fin is seen only after the last byte.
StreamIntact ==
  \A s \in Sockets :
    LET k == sock[s]
        arrived == got[In(k)] + Len(k.incoming)
    IN /\ \A i \in DOMAIN k.incoming : k.incoming[i] = got[In(k)] + i
       /\ k.has_fin /\ ~k.shutdown_receive => arrived = sent[In(k)]

\* As long as something in the transmission window is not acknowledged, the
\* timer runs and the deadline for transmitting it again is set, whichever of
\* Transmit, ProcessPacket, OnTimer and SetTimer touched them last.
RetransmissionArmed ==
  \A s \in Sockets :
    /\ sock[s].state \notin {"CLOSED", "LISTEN"}
    /\ mod32_lt(sock[s].send_una, sock[s].send_nxt)
    => timer_armed(sock[s]) /\ sock[s].deadline # "none"

\* The queue of a listening socket holds exactly the connections that name it
\* as connecting_parent, the half-open ones and the ready ones each in their
\* list, and backlog_used counts them; a socket that wants destruction and is
\* still there has a timer that will delete it.
QueuesExact ==
  \A s \in Sockets :
    LET k == sock[s]
        mine == {c \in Sockets : sock[c].connecting_parent = s}
        half == {c \in mine : sock[c].state = "SYN_RECV"}
    IN /\ ToSet(k.connecting_half) = half
       /\ ToSet(k.connecting_ready) = mine \ half
       /\ k.backlog_used = Len(k.connecting_half) + Len(k.connecting_ready)
       /\ k.backlog_used = Cardinality(mine)
       /\ k.exists /\ want_destruction(k) => timer_armed(k)

\* A thread sleeps in connect, accept4, recv or send only while the condition
\* it waits for is false: every path that makes it true broadcasts.
CallersAwake ==
  \A s \in Sockets :
    /\ <<s, "receive">> \in asleep => MustWait(sock[s], rcall[s])
    /\ <<s, "transmit">> \in asleep =>
         CannotSend(sock[s]) /\ sock[s].sockerr = "none"

\* A socket that ~TCPSocketNode gave up, and that no listening socket holds,
\* goes away, whatever the network and the other side do or fail to do.
Orphan(s) ==
  /\ sock[s].exists /\ ~sock[s].is_referenced
  /\ sock[s].connecting_parent = NoSocket

OrphansGo == \A s \in Sockets : Orphan(s) ~> ~Orphan(s)

\* What Disconnect says of a socket that it leaves in FIN_WAIT_1: "FIN_WAIT_1
\* will enter FIN_WAIT_2 or time out."
FinWait1Ends ==
  \A s \in Sockets :
    sock[s].state = "FIN_WAIT_1" ~> sock[s].state # "FIN_WAIT_1"

\* What the declaration of receive_queue says of it: "sorted by increasing
\* sequence number".
ReceiveQueueSorted ==
  \A s \in Sockets : \A i, j \in DOMAIN sock[s].receive_queue :
    i < j => mod32_le(sock[s].receive_queue[i].seq,
                      sock[s].receive_queue[j].seq)

=============================================================================
