------------------------------ MODULE Passing ------------------------------
(***************************************************************************)
(* Passing Unix sockets over Unix sockets: the counts that keep reference  *)
(* cycles and towers of references away (pass, unpass, passing_count and   *)
(* passed_count in kernel/pipe.cpp, StreamSocket in kernel/net/fs.cpp).    *)
(*                                                                         *)
(* A connection k has the sockets <<k, 1>> and <<k, 2>> and the channels   *)
(* <<k, 1>> and <<k, 2>>: a socket's outgoing channel has its own name,    *)
(* and its incoming channel the name of its peer.  Each critical section   *)
(* of a pass_lock is one step; the pipe_lock of the channel is held from   *)
(* the start of a call to its end.  A failed assertion stops the kernel.   *)
(***************************************************************************)
EXTENDS Naturals, Sequences

CONSTANTS Threads, Connections,
          MaxBuffered  \* how many sockets fit into a channel's buffer

ASSUME PassingAssumption == MaxBuffered \in Nat /\ Connections # {}

VARIABLES passing_count, passed_count, \* of each channel
          buffer,      \* the sockets in each channel's buffer
          pipe_lock,   \* the channels whose lock is held
          open,        \* the sockets with a descriptor
          destroyed,   \* the channels that were deleted
          pc, on, what,\* each thread's step, socket, and the socket passed
          channel,     \* the channel of its call
          assertion    \* the assertion that failed, or "none"

counts == <<passing_count, passed_count>>
vars == <<counts, buffer, pipe_lock, open, destroyed, pc, on, what, channel, assertion>>

Sockets == Connections \X {1, 2}
Channels == Sockets
Peer(s) == <<s[1], 3 - s[2]>>
Outgoing(s) == s
Incoming(s) == Peer(s)
Nobody == CHOOSE s \in Sockets : TRUE

Init ==
  /\ passing_count = [c \in Channels |-> 0]
  /\ passed_count = [c \in Channels |-> 0]
  /\ buffer = [c \in Channels |-> <<>>]
  /\ pipe_lock = {}
  /\ open = Sockets
  /\ destroyed = {}
  /\ pc = [t \in Threads |-> "idle"]
  /\ on = [t \in Threads |-> Nobody]
  /\ channel = [t \in Threads |-> Nobody]
  /\ what = [t \in Threads |-> Nobody]
  /\ assertion = "none"

Goto(t, step) == pc' = [pc EXCEPT ![t] = step]

\* The sockets a thread works on, which it holds references to.
InUse == UNION {{on[t], what[t]} : t \in {u \in Threads : pc[u] # "idle"}}

\* PipeChannel::pass, and where the thread goes on.
Pass(t, c, passed, refused) ==
  /\ \/ /\ passing_count[c] > 0
        /\ Goto(t, refused)
        /\ UNCHANGED passed_count
     \/ /\ passing_count[c] = 0
        /\ passed_count' = [passed_count EXCEPT ![c] = @ + 1]
        /\ Goto(t, passed)
  /\ UNCHANGED <<passing_count, buffer, pipe_lock, open, destroyed, on, what,
                 channel, assertion>>

\* PipeChannel::unpass, with its assertions.
Unpass(t, c, next) ==
  /\ IF passed_count[c] > 0 /\ passing_count[c] = 0
     THEN /\ passed_count' = [passed_count EXCEPT ![c] = @ - 1]
          /\ UNCHANGED assertion
     ELSE /\ assertion' = "unpass"
          /\ UNCHANGED passed_count
  /\ Goto(t, next)
  /\ UNCHANGED <<passing_count, buffer, pipe_lock, open, destroyed, on,
                 what, channel>>

\* passing_count--, and the end of the call.
Unmark(t) ==
  /\ passing_count' = [passing_count EXCEPT ![channel[t]] = @ - 1]
  /\ pipe_lock' = pipe_lock \ {channel[t]}
  /\ Goto(t, "idle")

-----------------------------------------------------------------------------
(* sendmsg of socket b on socket a.                                        *)

Send(t, a, b) ==
  /\ pc[t] = "idle" /\ {a, b} \subseteq open
  /\ Outgoing(a) \notin pipe_lock
  /\ Len(buffer[Outgoing(a)]) < MaxBuffered
  /\ pipe_lock' = pipe_lock \cup {Outgoing(a)}
  /\ on' = [on EXCEPT ![t] = a]
  /\ channel' = [channel EXCEPT ![t] = Outgoing(a)]
  /\ what' = [what EXCEPT ![t] = b]
  /\ Goto(t, "send_mark")
  /\ UNCHANGED <<counts, buffer, open, destroyed, assertion>>

\* Rule 1, and the mark for rules 2 and 3, which is set in any case.
SendMark(t) ==
  /\ pc[t] = "send_mark"
  /\ Goto(t, IF passed_count[channel[t]] > 0 THEN "send_unmark"
             ELSE "send_pass_outgoing")
  /\ passing_count' = [passing_count EXCEPT ![channel[t]] = @ + 1]
  /\ UNCHANGED <<passed_count, buffer, pipe_lock, open, destroyed, on, what,
                 channel, assertion>>

\* StreamSocket::pass: the outgoing channel, and then the incoming one.
SendPassOutgoing(t) ==
  /\ pc[t] = "send_pass_outgoing"
  /\ Pass(t, Outgoing(what[t]), "send_pass_incoming", "send_unmark")

\* Mutant: the incoming channel is not asked.
SendPassIncoming_Skipped(t) ==
  /\ pc[t] = "send_pass_incoming"
  /\ passed_count' = [passed_count EXCEPT ![Incoming(what[t])] = @ + 1]
  /\ Goto(t, "send_enqueue")
  /\ UNCHANGED <<passing_count, buffer, pipe_lock, open, destroyed, on, what,
                 channel, assertion>>

SendPassIncoming(t) ==
  /\ pc[t] = "send_pass_incoming"
  /\ Pass(t, Incoming(what[t]), "send_enqueue", "send_unpass_outgoing")

SendUnpassOutgoing(t) ==
  /\ pc[t] = "send_unpass_outgoing"
  /\ Unpass(t, Outgoing(what[t]), "send_unmark")

SendUnmark(t) ==
  /\ pc[t] = "send_unmark"
  /\ Unmark(t)
  /\ UNCHANGED <<passed_count, buffer, open, destroyed, on, what, channel,
                 assertion>>

SendEnqueue(t) ==
  /\ pc[t] = "send_enqueue"
  /\ buffer' = [buffer EXCEPT ![channel[t]] = Append(@, what[t])]
  /\ pipe_lock' = pipe_lock \ {channel[t]}
  /\ Goto(t, "idle")
  /\ UNCHANGED <<counts, open, destroyed, on, what, channel, assertion>>

-----------------------------------------------------------------------------
(* recvmsg on socket a.                                                    *)

Recv(t, a) ==
  /\ pc[t] = "idle" /\ a \in open
  /\ Incoming(a) \notin pipe_lock
  /\ buffer[Incoming(a)] # <<>>
  /\ pipe_lock' = pipe_lock \cup {Incoming(a)}
  /\ on' = [on EXCEPT ![t] = a]
  /\ channel' = [channel EXCEPT ![t] = Incoming(a)]
  /\ what' = [what EXCEPT ![t] = Head(buffer[Incoming(a)])]
  /\ buffer' = [buffer EXCEPT ![Incoming(a)] = Tail(@)]
  /\ Goto(t, "recv_unpass_outgoing")
  /\ UNCHANGED <<counts, open, destroyed, assertion>>

RecvUnpassOutgoing(t) ==
  /\ pc[t] = "recv_unpass_outgoing"
  /\ Unpass(t, Outgoing(what[t]), "recv_unpass_incoming")

RecvUnpassIncoming(t) ==
  /\ pc[t] = "recv_unpass_incoming"
  /\ Unpass(t, Incoming(what[t]), "recv_unmark")

\* The caller gets a descriptor, unless its control data was truncated.
RecvUnmark(t) ==
  /\ pc[t] = "recv_unmark"
  /\ Unmark(t)
  /\ open' \in {open, open \cup {what[t]}}
  /\ UNCHANGED <<passed_count, buffer, destroyed, on, what, channel, assertion>>

-----------------------------------------------------------------------------
(* Closing.                                                                *)

Close(s) ==
  /\ s \in open \ InUse
  /\ open' = open \ {s}
  /\ UNCHANGED <<counts, buffer, pipe_lock, destroyed, pc, on, what, channel,
                 assertion>>

\* A socket lives while it has a descriptor, a call uses it, or it is in the
\* buffer of a channel.
Alive(s) ==
  \/ s \in open \cup InUse
  \/ \E c \in Channels : \E i \in 1..Len(buffer[c]) : buffer[c][i] = s

\* ~PipeChannel drops the references in the buffer, without unpass.
Destroy(c) ==
  /\ c \notin destroyed
  /\ ~Alive(c) /\ ~Alive(Peer(c))
  /\ destroyed' = destroyed \cup {c}
  /\ buffer' = [buffer EXCEPT ![c] = <<>>]
  /\ passing_count' = [passing_count EXCEPT ![c] = @ - Len(buffer[c])]
  /\ assertion' = IF passed_count[c] # 0 \/ passing_count[c] # Len(buffer[c])
                  THEN "destroy" ELSE assertion
  /\ UNCHANGED <<passed_count, pipe_lock, open, pc, on, what, channel>>

ThreadStep(t) ==
  \/ SendMark(t) \/ SendPassOutgoing(t) \/ SendPassIncoming(t)
  \/ SendUnpassOutgoing(t) \/ SendUnmark(t) \/ SendEnqueue(t)
  \/ RecvUnpassOutgoing(t) \/ RecvUnpassIncoming(t) \/ RecvUnmark(t)

Next ==
  /\ assertion = "none"
  /\ \/ \E t \in Threads :
          \/ \E a, b \in Sockets : Send(t, a, b)
          \/ \E a \in Sockets : Recv(t, a)
          \/ ThreadStep(t)
     \/ \E s \in Sockets : Close(s)
     \/ \E c \in Channels : Destroy(c)

Spec == Init /\ [][Next]_vars

-----------------------------------------------------------------------------
(* Properties.                                                             *)

TypeOK ==
  /\ passing_count \in [Channels -> Nat]
  /\ passed_count \in [Channels -> Nat]
  /\ buffer \in [Channels -> Seq(Sockets)]
  /\ pipe_lock \subseteq Channels
  /\ open \subseteq Sockets
  /\ destroyed \subseteq Channels
  /\ pc \in [Threads -> {"idle", "send_mark", "send_pass_outgoing",
                         "send_pass_incoming", "send_unpass_outgoing",
                         "send_unmark", "send_enqueue",
                         "recv_unpass_outgoing", "recv_unpass_incoming",
                         "recv_unmark"}]
  /\ on \in [Threads -> Sockets]
  /\ channel \in [Threads -> Channels]
  /\ what \in [Threads -> Sockets]
  /\ assertion \in {"none", "unpass", "destroy"}

\* "there must never any reference count cycles" and no "tall tower of
\* reference counted objects": a socket in a channel's buffer has nothing in
\* the buffers of its own channels, whatever is sent and received at the same
\* time in both directions of every connection; and no count falls below 0.
NoTower ==
  /\ TypeOK
  /\ \A c \in Channels : \A i \in 1..Len(buffer[c]) :
       LET s == buffer[c][i]
       IN buffer[Outgoing(s)] = <<>> /\ buffer[Incoming(s)] = <<>>

\* PipeChannel::unpass asserts "!passing_count": a socket that is being
\* passed is not being sent on.
UnpassAssertion == assertion # "unpass"

\* ~PipeChannel asserts "!passed_count && !passing_count": nothing counts on
\* a channel that is deleted.
DestroyAssertion == assertion # "destroy"

=============================================================================
