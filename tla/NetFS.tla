-------------------------------- MODULE NetFS --------------------------------
(***************************************************************************)
(* The manager of the Unix stream sockets (kernel/net/fs.cpp): bind,       *)
(* listen, connect, accept, poll and close, with the doubly linked lists   *)
(* of the bound sockets and of each server's pending clients, which share  *)
(* the same two links in a socket.                                         *)
(*                                                                         *)
(* A critical section of manager_lock is one step.  socket_lock lets only  *)
(* one call at a time into a socket, so a socket's step is its call's.     *)
(* The socket that accept makes is in no list, and left out here.  A       *)
(* failed assertion stops the kernel, and so does a thread that takes      *)
(* manager_lock twice.                                                     *)
(***************************************************************************)
EXTENDS Naturals, Sequences, FiniteSets

CONSTANTS Sockets, Names, NULL,
          Failures  \* the allocations of accept that fail: early ones, late ones

ASSUME NetFSAssumption ==
  /\ NULL \notin Sockets \cup Names
  /\ Failures \subseteq {"early", "late"}

VARIABLES name, is_registered, is_listening, is_connected, is_refused,
          prev_socket, next_socket,   \* the links
          first_pending, last_pending, first_server, last_server,
          pc,           \* the call on each socket
          asleep,       \* the sockets whose call sleeps on a condition
          interrupted,  \* the sockets whose call a signal interrupts
          server,       \* Connect's local variable server
          accept_poll,  \* the sockets whose accept_poll_channel is waited for
          arrivals,     \* the clients that wait, in the order they came
          halted        \* what stopped the kernel, or "no"

flags == <<name, is_registered, is_listening, is_connected, is_refused>>
links == <<prev_socket, next_socket>>
pendings == <<first_pending, last_pending>>
servers == <<first_server, last_server>>
calls == <<pc, asleep, interrupted, server>>
vars == <<flags, links, pendings, servers, calls, accept_poll, arrivals, halted>>

Everywhere(v) == [s \in Sockets |-> v]

Init ==
  /\ name = Everywhere(NULL)
  /\ is_registered = Everywhere(FALSE) /\ is_listening = Everywhere(FALSE)
  /\ is_connected = Everywhere(FALSE) /\ is_refused = Everywhere(FALSE)
  /\ prev_socket = Everywhere(NULL) /\ next_socket = Everywhere(NULL)
  /\ first_pending = Everywhere(NULL) /\ last_pending = Everywhere(NULL)
  /\ first_server = NULL /\ last_server = NULL
  /\ pc = Everywhere("idle")
  /\ asleep = {} /\ interrupted = {}
  /\ server = Everywhere(NULL)
  /\ accept_poll = {}
  /\ arrivals = <<>>
  /\ halted = "no"

\* The sockets that a walk along next_socket meets, from a list's first one on.
Members(first) ==
  {s \in Sockets :
     \A P \in SUBSET Sockets :
       /\ first = NULL \/ first \in P
       /\ \A c \in P : next_socket[c] = NULL \/ next_socket[c] \in P
       => s \in P}

\* The same sockets in the order of the walk.
Chain(first) ==
  LET after[n \in 0..Cardinality(Sockets)] ==
        IF n = 0 THEN first
        ELSE IF after[n - 1] = NULL THEN NULL ELSE next_socket[after[n - 1]]
      length == Cardinality({n \in 0..Cardinality(Sockets) : after[n] # NULL})
  IN [i \in 1..length |-> after[i - 1]]

\* QueueAppend gives these links, and the first and last socket of the list.
\* It asserts that the socket has no links.
CanAppend(s) == prev_socket[s] = NULL /\ next_socket[s] = NULL
AppendLinks(last, s) ==
  /\ prev_socket' = [prev_socket EXCEPT ![s] = last]
  /\ next_socket' = IF last = NULL THEN next_socket
                    ELSE [next_socket EXCEPT ![last] = s]
AppendFirst(first, s) == IF first = NULL THEN s ELSE first

\* QueueRemove; the socket keeps its own links.
RemoveLinks(s) ==
  /\ next_socket' = IF prev_socket[s] = NULL THEN next_socket
                    ELSE [next_socket EXCEPT ![prev_socket[s]] = next_socket[s]]
  /\ prev_socket' = IF next_socket[s] = NULL THEN prev_socket
                    ELSE [prev_socket EXCEPT ![next_socket[s]] = prev_socket[s]]
RemoveFirst(first, s) == IF prev_socket[s] = NULL THEN next_socket[s] ELSE first
RemoveLast(last, s) == IF next_socket[s] = NULL THEN prev_socket[s] ELSE last

Without(seq, s) == SelectSeq(seq, LAMBDA c : c # s)

\* LookupServer: the sockets bound to a name, at most one of them.
LookupServer(n) == {s \in Members(first_server) : name[s] = n}

Goto(s, step) == pc' = [pc EXCEPT ![s] = step]

Halt(why) ==
  /\ halted' = why
  /\ UNCHANGED <<flags, links, pendings, servers, calls, accept_poll, arrivals>>

-----------------------------------------------------------------------------
(* bind, listen and connect.                                               *)

Bind(s, n) ==
  /\ pc[s] = "idle"
  /\ ~is_connected[s] /\ ~is_listening[s] /\ name[s] = NULL
  /\ LookupServer(n) = {}
  /\ IF CanAppend(s)
     THEN /\ name' = [name EXCEPT ![s] = n]
          /\ is_registered' = [is_registered EXCEPT ![s] = TRUE]
          /\ AppendLinks(last_server, s)
          /\ first_server' = AppendFirst(first_server, s)
          /\ last_server' = s
          /\ UNCHANGED <<is_listening, is_connected, is_refused, pendings, calls,
                         accept_poll, arrivals, halted>>
     ELSE Halt("QueueAppend")

Listen(s) ==
  /\ pc[s] = "idle"
  /\ ~is_connected[s] /\ ~is_listening[s] /\ name[s] # NULL
  /\ is_listening' = [is_listening EXCEPT ![s] = TRUE]
  /\ UNCHANGED <<name, is_registered, is_connected, is_refused, links, pendings,
                 servers, calls, accept_poll, arrivals, halted>>

\* connect to a name that nobody listens on; the socket has that name now.
ConnectRefused(s, n) ==
  /\ pc[s] = "idle" /\ ~is_listening[s] /\ ~is_connected[s]
  /\ \A v \in LookupServer(n) : ~is_listening[v]
  /\ name' = [name EXCEPT ![s] = IF @ = NULL THEN n ELSE @]
  /\ UNCHANGED <<is_registered, is_listening, is_connected, is_refused, links,
                 pendings, servers, calls, accept_poll, arrivals, halted>>

\* connect to the name of a listening socket v: the client joins the queue of
\* the server, signals it, and sleeps.
Connect(s, v) ==
  /\ pc[s] = "idle" /\ ~is_listening[s] /\ ~is_connected[s]
  /\ is_listening[v] /\ v \in LookupServer(name[v])
  /\ \/ /\ CanAppend(s)
        /\ name' = [name EXCEPT ![s] = IF @ = NULL THEN name[v] ELSE @]
        /\ is_refused' = [is_refused EXCEPT ![s] = FALSE]
        /\ AppendLinks(last_pending[v], s)
        /\ first_pending' = [first_pending EXCEPT ![v] = AppendFirst(@, s)]
        /\ last_pending' = [last_pending EXCEPT ![v] = s]
        /\ Goto(s, "connect")
        /\ asleep' = (asleep \ {v}) \cup {s}
        /\ accept_poll' = accept_poll \ {v}
        /\ server' = [server EXCEPT ![s] = v]
        /\ arrivals' = Append(arrivals, s)
        /\ UNCHANGED <<is_registered, is_listening, is_connected, servers,
                       interrupted, halted>>
     \/ ~CanAppend(s) /\ Halt("QueueAppend")

\* A signal interrupts a call that waits.
Interrupt(s) ==
  /\ pc[s] \in {"connect", "accept"} /\ s \notin interrupted
  /\ interrupted' = interrupted \cup {s}
  /\ asleep' = asleep \ {s}
  /\ UNCHANGED <<flags, links, pendings, servers, pc, server, accept_poll,
                 arrivals, halted>>

\* Mutant: an interrupted client that was accepted leaves the queue again.
ConnectResume_Forgets(s) ==
  LET v == server[s]
  IN /\ pc[s] = "connect" /\ s \notin asleep
     /\ \/ /\ s \notin interrupted
           /\ UNCHANGED <<links, pendings, arrivals>>
        \/ /\ s \in interrupted
           /\ RemoveLinks(s)
           /\ first_pending' = [first_pending EXCEPT ![v] = RemoveFirst(@, s)]
           /\ last_pending' = [last_pending EXCEPT ![v] = RemoveLast(@, s)]
           /\ arrivals' = Without(arrivals, s)
     /\ Goto(s, "idle")
     /\ interrupted' = interrupted \ {s}
     /\ UNCHANGED <<flags, servers, asleep, server, accept_poll, halted>>

\* The client is connected or refused, or interrupted, in which case it
\* leaves the queue.
ConnectResume(s) ==
  LET v == server[s]
  IN /\ pc[s] = "connect" /\ s \notin asleep
     /\ \/ /\ is_connected[s] \/ is_refused[s]
           /\ UNCHANGED <<links, pendings, arrivals>>
        \/ /\ ~is_connected[s] /\ ~is_refused[s]
           /\ RemoveLinks(s)
           /\ first_pending' = [first_pending EXCEPT ![v] = RemoveFirst(@, s)]
           /\ last_pending' = [last_pending EXCEPT ![v] = RemoveLast(@, s)]
           /\ arrivals' = Without(arrivals, s)
     /\ Goto(s, "idle")
     /\ interrupted' = interrupted \ {s}
     /\ UNCHANGED <<flags, servers, asleep, server, accept_poll, halted>>

-----------------------------------------------------------------------------
(* accept and poll.  Without O_NONBLOCK: a non-blocking accept that finds  *)
(* nobody changes nothing.                                                 *)

\* accept takes the first pending client.  Where memory runs out before the new
\* socket has a name, nothing happened; later, the new socket is destroyed
\* while manager_lock is held, and its destructor takes that lock.
AcceptClient(s) ==
  LET client == first_pending[s]
  IN \/ /\ Goto(s, "idle")
        /\ RemoveLinks(client)
        /\ first_pending' = [first_pending EXCEPT ![s] = RemoveFirst(@, client)]
        /\ last_pending' = [last_pending EXCEPT ![s] = RemoveLast(@, client)]
        /\ is_connected' = [is_connected EXCEPT ![client] = TRUE]
        /\ asleep' = asleep \ {client}
        /\ arrivals' = Without(arrivals, client)
        /\ UNCHANGED <<name, is_registered, is_listening, is_refused, servers,
                       interrupted, server, accept_poll, halted>>
     \/ /\ "early" \in Failures
        /\ Goto(s, "idle")
        /\ UNCHANGED <<flags, links, pendings, servers, asleep, interrupted, server,
                       accept_poll, arrivals, halted>>
     \/ "late" \in Failures /\ Halt("manager_lock")

\* accept sleeps on pending_cond.
AcceptWait(s) ==
  /\ Goto(s, "accept")
  /\ asleep' = asleep \cup {s}
  /\ UNCHANGED <<flags, links, pendings, servers, interrupted, server, accept_poll,
                 arrivals, halted>>

Accept(s) ==
  /\ pc[s] = "idle" /\ is_listening[s]
  /\ IF first_pending[s] = NULL THEN AcceptWait(s) ELSE AcceptClient(s)

\* accept after its sleep: an interrupt comes first.  A client that signalled
\* pending_cond may be gone again.
AcceptResume(s) ==
  /\ pc[s] = "accept" /\ s \notin asleep
  /\ \/ /\ s \in interrupted
        /\ Goto(s, "idle")
        /\ interrupted' = interrupted \ {s}
        /\ UNCHANGED <<flags, links, pendings, servers, asleep, server, accept_poll,
                       arrivals, halted>>
     \/ /\ s \notin interrupted
        /\ IF first_pending[s] = NULL THEN AcceptWait(s) ELSE AcceptClient(s)

\* Mutant: the poll does not look at the queue before it registers.
AcceptPoll_Blind(s) ==
  /\ is_listening[s]
  /\ s \notin accept_poll
  /\ accept_poll' = accept_poll \cup {s}
  /\ UNCHANGED <<flags, links, pendings, servers, calls, arrivals, halted>>

\* A poll of a listening socket with no client to accept registers.  poll takes
\* no socket_lock, so it does not wait for the call on the socket, and sys_ppoll
\* keeps no reference to the socket while it waits.
AcceptPoll(s) ==
  /\ is_listening[s]
  /\ s \notin accept_poll /\ first_pending[s] = NULL
  /\ accept_poll' = accept_poll \cup {s}
  /\ UNCHANGED <<flags, links, pendings, servers, calls, arrivals, halted>>

\* The poll ends by itself, and unregisters.
AcceptPollCancel(s) ==
  /\ s \in accept_poll
  /\ accept_poll' = accept_poll \ {s}
  /\ UNCHANGED <<flags, links, pendings, servers, calls, arrivals, halted>>

-----------------------------------------------------------------------------
(* The destructor, when no call holds the socket any more: Unlisten,       *)
(* Unbind, and ~PollChannel, which wakes the polls that are registered and *)
(* waits for them to unregister.                                           *)

Unlisten(s) ==
  /\ pc[s] = "idle" /\ is_listening[s]
  /\ is_listening' = [is_listening EXCEPT ![s] = FALSE]
  /\ Goto(s, "unbind")
  /\ UNCHANGED <<name, is_registered, is_connected, is_refused, links, pendings,
                 servers, asleep, interrupted, server, accept_poll, arrivals, halted>>

Pending(s) == Members(first_pending[s])

\* Mutant: only the first pending client is woken.
Unbind_First(s) ==
  /\ \/ pc[s] = "unbind"
     \/ pc[s] = "idle" /\ ~is_listening[s] /\ name[s] # NULL
  /\ is_refused' = [c \in Sockets |-> is_refused[c] \/ c \in Pending(s)]
  /\ asleep' = asleep \ {first_pending[s]}
  /\ first_pending' = [first_pending EXCEPT ![s] = NULL]
  /\ last_pending' = [last_pending EXCEPT ![s] = NULL]
  /\ IF is_registered[s]
     THEN /\ RemoveLinks(s)
          /\ first_server' = RemoveFirst(first_server, s)
          /\ last_server' = RemoveLast(last_server, s)
     ELSE UNCHANGED <<links, servers>>
  /\ name' = [name EXCEPT ![s] = NULL]
  /\ Goto(s, "destroy")
  /\ arrivals' = SelectSeq(arrivals, LAMBDA c : c \notin Pending(s))
  /\ UNCHANGED <<is_registered, is_listening, is_connected, interrupted, server,
                 accept_poll, halted>>

\* The clients that wait for this server are refused and woken, and the socket
\* leaves the list of servers.
Unbind(s) ==
  /\ \/ pc[s] = "unbind"
     \/ pc[s] = "idle" /\ ~is_listening[s] /\ name[s] # NULL
  /\ is_refused' = [c \in Sockets |-> is_refused[c] \/ c \in Pending(s)]
  /\ asleep' = asleep \ Pending(s)
  /\ first_pending' = [first_pending EXCEPT ![s] = NULL]
  /\ last_pending' = [last_pending EXCEPT ![s] = NULL]
  /\ IF is_registered[s]
     THEN /\ RemoveLinks(s)
          /\ first_server' = RemoveFirst(first_server, s)
          /\ last_server' = RemoveLast(last_server, s)
     ELSE UNCHANGED <<links, servers>>
  /\ name' = [name EXCEPT ![s] = NULL]
  /\ Goto(s, "destroy")
  /\ arrivals' = SelectSeq(arrivals, LAMBDA c : c \notin Pending(s))
  /\ UNCHANGED <<is_registered, is_listening, is_connected, interrupted, server,
                 accept_poll, halted>>

DestroyPollChannel(s) ==
  /\ pc[s] = "destroy"
  /\ accept_poll' = accept_poll \ {s}
  /\ Goto(s, "closed")
  /\ UNCHANGED <<flags, links, pendings, servers, asleep, interrupted, server,
                 arrivals, halted>>

-----------------------------------------------------------------------------
Next ==
  /\ halted = "no"
  /\ \E s \in Sockets :
       \/ \E n \in Names : Bind(s, n) \/ ConnectRefused(s, n)
       \/ \E v \in Sockets : Connect(s, v)
       \/ Listen(s) \/ ConnectResume(s) \/ Interrupt(s)
       \/ Accept(s) \/ AcceptResume(s)
       \/ AcceptPoll(s) \/ AcceptPollCancel(s)
       \/ Unlisten(s) \/ Unbind(s) \/ DestroyPollChannel(s)

Spec == Init /\ [][Next]_vars

\* The scheduler runs a thread that is awake, and a server keeps calling accept.
FairSpec ==
  /\ Spec
  /\ \A s \in Sockets :
       /\ WF_vars(halted = "no" /\ ConnectResume(s))
       /\ WF_vars(halted = "no" /\ AcceptResume(s))
       /\ WF_vars(halted = "no" /\ Accept(s))
       /\ WF_vars(halted = "no" /\ pc[s] = "unbind" /\ Unbind(s))

-----------------------------------------------------------------------------
(* Properties.                                                             *)

Socket == Sockets \cup {NULL}

\* The variables have their types; only calls sleep and are interrupted, and
\* no poll is registered with a socket that is gone.
TypeOK ==
  /\ name \in [Sockets -> Names \cup {NULL}]
  /\ {is_registered, is_listening, is_connected, is_refused}
       \subseteq [Sockets -> BOOLEAN]
  /\ {prev_socket, next_socket, first_pending, last_pending, server}
       \subseteq [Sockets -> Socket]
  /\ {first_server, last_server} \subseteq Socket
  /\ pc \in [Sockets -> {"idle", "connect", "accept", "unbind", "destroy", "closed"}]
  /\ asleep \subseteq {s \in Sockets : pc[s] \in {"connect", "accept"}}
  /\ interrupted \subseteq {s \in Sockets : pc[s] \in {"connect", "accept"}}
  /\ accept_poll \subseteq {s \in Sockets : pc[s] # "closed"}
  /\ arrivals \in Seq(Sockets)
  /\ halted \in {"no", "QueueAppend", "manager_lock"}

IsLast(last, chain) == last = IF chain = <<>> THEN NULL ELSE chain[Len(chain)]

\* Although the links of the list of servers are those of the queues, that list
\* holds exactly the bound sockets that are not closed, no two with one name.
ServersExact ==
  LET list == Chain(first_server)
      bound == {s \in Sockets : is_registered[s] /\ pc[s] \notin {"destroy", "closed"}}
  IN /\ Len(list) = Cardinality(bound)
     /\ \A s \in bound : \E i \in 1..Len(list) : list[i] = s
     /\ \A s, t \in bound : name[s] = name[t] => s = t
     /\ IsLast(last_server, list)

\* Although QueueRemove leaves a removed socket its links, and an interrupted
\* client leaves from the middle, each server's queue holds exactly the clients
\* that wait for it, in the order they called connect; and the list of servers,
\* that shares its links with the queues, holds exactly the servers.
QueuesExact ==
  /\ TypeOK /\ ServersExact
  /\ \A s \in Sockets :
       LET queue == Chain(first_pending[s])
       IN /\ queue = SelectSeq(arrivals, LAMBDA c : server[c] = s)
          /\ IsLast(last_pending[s], queue)

\* A client whose connect sleeps on accepted_cond is neither connected nor
\* refused, and the socket it waits for is still there and has it in its queue:
\* no close of a server and no accept leaves a client behind.
ClientsKnown ==
  \A s \in asleep : pc[s] = "connect" =>
    /\ ~is_connected[s] /\ ~is_refused[s]
    /\ pc[server[s]] \notin {"destroy", "closed"} /\ s \in Pending(server[s])

\* An accept sleeps, and a poll stays registered, only while no client is
\* pending: the one signal of connect is enough, although an interrupted accept
\* may swallow it.
AcceptersAwake ==
  \A s \in Sockets :
    (s \in accept_poll \/ (s \in asleep /\ pc[s] = "accept"))
      => first_pending[s] = NULL

\* While servers keep calling accept, every connect returns, unless the kernel
\* stopped.
ConnectReturns ==
  \A s \in Sockets : pc[s] = "connect" ~> (pc[s] # "connect" \/ halted # "no")

\* QueueAppend's assertions hold: a socket put into a list is in no list and
\* has no links.
QueueAppendAssertions == halted # "QueueAppend"
=============================================================================
