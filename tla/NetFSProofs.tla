----------------------------- MODULE NetFSProofs -----------------------------
(***************************************************************************)
(* The lists of NetFS hold the sockets they should, and so no accept and   *)
(* no connect sleeps while it could go on, for any set of sockets, names   *)
(* and failures.                                                           *)
(*                                                                         *)
(* The two links of a socket serve the list of servers and the queues, and *)
(* QueueRemove leaves a removed socket its links.  What makes this safe is *)
(* that no socket is in two lists, and that a list is not only linked      *)
(* consistently from each of its sockets to the next, but all of it is     *)
(* reached from its first one: Linked says both of one list.  The lemmas   *)
(* show what QueueAppend and QueueRemove do to a list so described, and    *)
(* that they do nothing to another one.                                    *)
(***************************************************************************)
EXTENDS NetFS, TLAPS

\* A set of sockets that a walk along next from first does not leave.
Closed(P, first, next) ==
  /\ first = NULL \/ first \in P
  /\ \A c \in P : next[c] = NULL \/ next[c] \in P

\* The sockets S are a doubly linked list, and reached from its first one.
Linked(S, first, last, prev, next) ==
  /\ S \subseteq Sockets
  /\ IF S = {} THEN first = NULL /\ last = NULL ELSE first \in S /\ last \in S
  /\ \A s \in S : IF prev[s] = NULL THEN s = first
                  ELSE s # first /\ prev[s] \in S /\ next[prev[s]] = s
  /\ \A s \in S : IF next[s] = NULL THEN s = last
                  ELSE s # last /\ next[s] \in S /\ prev[next[s]] = s
  /\ \A P \in SUBSET Sockets : Closed(P, first, next) => S \subseteq P

\* The servers: the bound sockets that are not closed.
Bound == {s \in Sockets : is_registered[s] /\ pc[s] \notin {"destroy", "closed"}}

\* The clients that wait for a server.
Waiting(v) == {c \in Sockets : /\ pc[c] = "connect" /\ server[c] = v
                               /\ ~is_connected[c] /\ ~is_refused[c]}

\* The variables but arrivals, which no step reads, have their types.
Types ==
  /\ name \in [Sockets -> Names \cup {NULL}]
  /\ is_registered \in [Sockets -> BOOLEAN]
  /\ is_listening \in [Sockets -> BOOLEAN]
  /\ is_connected \in [Sockets -> BOOLEAN]
  /\ is_refused \in [Sockets -> BOOLEAN]
  /\ prev_socket \in [Sockets -> Socket]
  /\ next_socket \in [Sockets -> Socket]
  /\ first_pending \in [Sockets -> Socket]
  /\ last_pending \in [Sockets -> Socket]
  /\ server \in [Sockets -> Socket]
  /\ first_server \in Socket /\ last_server \in Socket
  /\ pc \in [Sockets -> {"idle", "connect", "accept", "unbind", "destroy", "closed"}]
  /\ asleep \subseteq Sockets

ServerList == Linked(Bound, first_server, last_server, prev_socket, next_socket)
Queue(v) ==
  Linked(Waiting(v), first_pending[v], last_pending[v], prev_socket, next_socket)

\* A server has a name of its own, and is not itself a waiting client.
ServersApart ==
  /\ \A s \in Bound : name[s] # NULL /\ \A v \in Sockets : s \notin Waiting(v)
  /\ \A s, t \in Bound : name[s] = name[t] => s = t

\* A client waits for a server that listens, or has not yet refused its clients.
ClientsServed ==
  /\ \A c \in Sockets : (pc[c] = "connect" => server[c] \in Sockets)
  /\ \A v \in Sockets : Waiting(v) # {} =>
       v \in Bound /\ (is_listening[v] \/ pc[v] = "unbind")

\* A client that sleeps is neither connected nor refused.
SleepersWait ==
  \A c \in asleep : pc[c] = "connect" => ~is_connected[c] /\ ~is_refused[c]

NetInv ==
  /\ Types /\ ServerList /\ (\A v \in Sockets : Queue(v))
  /\ ServersApart /\ ClientsServed /\ SleepersWait /\ AcceptersAwake

-----------------------------------------------------------------------------
(* The lists.                                                              *)

\* A walk from the first socket of a list meets exactly the list's sockets.
LEMMA MembersAreTheList ==
  ASSUME NEW S, NEW first, NEW last,
         Linked(S, first, last, prev_socket, next_socket)
  PROVE  Members(first) = S
<1>1. S \in SUBSET Sockets /\ Closed(S, first, next_socket)
  BY Zenon DEF Linked, Closed
<1>2. Members(first) \subseteq S
  BY Zenon, <1>1 DEF Members, Closed
<1>3. S \subseteq Members(first)
  BY Zenon DEF Members, Linked, Closed
<1> QED
  BY Zenon, <1>2, <1>3

\* A list stays a list while the links of its own sockets stay.
LEMMA OtherLinks ==
  ASSUME NEW S, NEW first, NEW last, NEW prev, NEW next, NEW prev2, NEW next2,
         Linked(S, first, last, prev, next),
         \A s \in S : prev2[s] = prev[s] /\ next2[s] = next[s]
  PROVE  Linked(S, first, last, prev2, next2)
<1>1. ASSUME NEW P \in SUBSET Sockets, Closed(P, first, next2)
      PROVE  S \subseteq P
  <2>1. P \cap S \in SUBSET Sockets /\ Closed(P \cap S, first, next)
    BY Zenon, <1>1 DEF Closed, Linked
  <2> QED
    BY Zenon, <2>1 DEF Linked
<1> QED
  BY <1>1 DEF Linked

\* QueueAppend adds a socket without links to a list.
LEMMA AppendLinked ==
  ASSUME NEW S, NEW first, NEW last,
         prev_socket \in [Sockets -> Socket], next_socket \in [Sockets -> Socket],
         Linked(S, first, last, prev_socket, next_socket),
         NEW s \in Sockets \ S, CanAppend(s), AppendLinks(last, s)
  PROVE  Linked(S \cup {s}, AppendFirst(first, s), s, prev_socket', next_socket')
<1> DEFINE T == S \cup {s}
<1>1. s # NULL /\ NULL \notin S
  BY Zenon, NetFSAssumption DEF Linked
<1>2. /\ T \subseteq Sockets /\ s \in T
      /\ AppendFirst(first, s) \in T
  BY Zenon, <1>1 DEF Linked, AppendFirst
<1>3. ASSUME NEW t \in T
      PROVE  /\ prev_socket'[t] = IF t = s THEN last ELSE prev_socket[t]
             /\ next_socket'[t] = IF t = last THEN s ELSE next_socket[t]
  BY <1>1 DEF AppendLinks, Linked
<1>4. ASSUME NEW t \in T
      PROVE  IF prev_socket'[t] = NULL THEN t = AppendFirst(first, s)
             ELSE /\ t # AppendFirst(first, s) /\ prev_socket'[t] \in T
                  /\ next_socket'[prev_socket'[t]] = t
  <2>1. CASE t = s
    BY <2>1, <1>1, <1>3 DEF Linked, AppendFirst
  <2>2. CASE t # s
    BY <2>2, <1>1, <1>3 DEF Linked, AppendFirst
  <2> QED
    BY Zenon, <2>1, <2>2
<1>5. ASSUME NEW t \in T
      PROVE  IF next_socket'[t] = NULL THEN t = s
             ELSE t # s /\ next_socket'[t] \in T /\ prev_socket'[next_socket'[t]] = t
  <2>1. CASE t = s
    BY Zenon, <2>1, <1>1, <1>3 DEF Linked, CanAppend
  <2>2. CASE t # s
    BY <2>2, <1>1, <1>3 DEF Linked
  <2> QED
    BY Zenon, <2>1, <2>2
<1>6. ASSUME NEW P \in SUBSET Sockets,
             Closed(P, AppendFirst(first, s), next_socket')
      PROVE  T \subseteq P
  <2>1. CASE S = {}
    BY Zenon, <2>1, <1>1, <1>6 DEF Closed, AppendFirst, Linked
  <2>2. CASE S # {}
    <3>1. first \in S /\ last \in S /\ first # NULL /\ next_socket[last] = NULL
      BY Zenon, <2>2, <1>1 DEF Linked
    <3>2. \A c \in P : next_socket'[c] = IF c = last THEN s ELSE next_socket[c]
      BY Zenon, <3>1, <1>1 DEF AppendLinks
    <3>3. Closed(P, first, next_socket)
      BY Zenon, <1>6, <3>1, <3>2 DEF Closed, AppendFirst
    <3>4. S \subseteq P
      BY Zenon, <3>3 DEF Linked
    <3> QED
      BY Zenon, <3>1, <3>2, <3>4, <1>1, <1>6 DEF Closed
  <2> QED
    BY Zenon, <2>1, <2>2
<1> QED
  BY Zenon, <1>2, <1>4, <1>5, <1>6 DEF Linked

\* QueueRemove takes a socket out of its list.
LEMMA RemoveLinked ==
  ASSUME NEW S, NEW first, NEW last,
         prev_socket \in [Sockets -> Socket], next_socket \in [Sockets -> Socket],
         Linked(S, first, last, prev_socket, next_socket),
         NEW s \in S, RemoveLinks(s)
  PROVE  Linked(S \ {s}, RemoveFirst(first, s), RemoveLast(last, s),
                prev_socket', next_socket')
<1> DEFINE T == S \ {s}
           p == prev_socket[s]
           n == next_socket[s]
<1>1. NULL \notin S /\ S \subseteq Sockets
  BY Zenon, NetFSAssumption DEF Linked
<1>2. /\ IF p = NULL THEN s = first ELSE s # first /\ p \in S /\ next_socket[p] = s
      /\ IF n = NULL THEN s = last ELSE s # last /\ n \in S /\ prev_socket[n] = s
      /\ first \in S /\ last \in S
  BY Zenon DEF Linked
<1>3. p # s /\ n # s
  <2>1. ASSUME n = s PROVE FALSE
    <3>1. p = s
      BY Zenon, <2>1, <1>1, <1>2
    <3>2. Closed(S \ {s}, first, next_socket)
      BY Zenon, <1>1, <1>2, <3>1 DEF Closed, Linked
    <3> QED
      BY Zenon, <3>2, <1>1 DEF Linked
  <2>2. ASSUME p = s PROVE FALSE
    BY Zenon, <2>1, <2>2, <1>1, <1>2
  <2> QED
    BY Zenon, <2>1, <2>2
<1>4. \A t \in Sockets :
        /\ next_socket'[t] = IF t = p THEN n ELSE next_socket[t]
        /\ prev_socket'[t] = IF t = n THEN p ELSE prev_socket[t]
  BY Zenon, <1>1, <1>2, NetFSAssumption DEF RemoveLinks
<1>5. \A t \in T : (next_socket[t] = s => t = p) /\ (prev_socket[t] = s => t = n)
  BY Zenon, <1>1, <1>2 DEF Linked
<1>6. /\ T \subseteq Sockets
      /\ IF T = {} THEN RemoveFirst(first, s) = NULL /\ RemoveLast(last, s) = NULL
         ELSE RemoveFirst(first, s) \in T /\ RemoveLast(last, s) \in T
  <2>1. (p # NULL => p \in T) /\ (n # NULL => n \in T)
    BY Zenon, <1>2, <1>3
  <2>2. p # NULL => first \in T
    BY Zenon, <1>2
  <2>3. n # NULL => last \in T
    BY Zenon, <1>2
  <2>4. ASSUME p = NULL, n = NULL
        PROVE  T = {}
    <3>1. Closed({s}, first, next_socket) /\ {s} \in SUBSET Sockets
      BY Zenon, <2>4, <1>1, <1>2 DEF Closed
    <3> QED
      BY Zenon, <3>1 DEF Linked
  <2> QED
    BY Zenon, <2>1, <2>2, <2>3, <2>4, <1>1 DEF RemoveFirst, RemoveLast
<1>7. ASSUME NEW t \in T
      PROVE  IF prev_socket'[t] = NULL THEN t = RemoveFirst(first, s)
             ELSE /\ t # RemoveFirst(first, s) /\ prev_socket'[t] \in T
                  /\ next_socket'[prev_socket'[t]] = t
  <2>1. t \in Sockets /\ t # s /\ t # NULL
    BY Zenon, <1>1
  <2>2. CASE t = n
    <3>1. t # first
      BY Zenon, <2>1, <2>2, <1>1, <1>2 DEF Linked
    <3> QED
      BY Zenon, <2>1, <2>2, <3>1, <1>1, <1>2, <1>3, <1>4 DEF RemoveFirst
  <2>3. CASE t # n
    <3>1. prev_socket'[t] = prev_socket[t] /\ prev_socket[t] # s
      BY Zenon, <2>1, <2>3, <1>4, <1>5
    <3>2. IF prev_socket[t] = NULL THEN t = first
          ELSE t # first /\ prev_socket[t] \in T /\ next_socket[prev_socket[t]] = t
      BY Zenon, <3>1 DEF Linked
    <3>3. prev_socket[t] # NULL => prev_socket[t] # p
      BY Zenon, <3>2, <2>1, <1>2
    <3>4. RemoveFirst(first, s) # t <=> first # t
      BY Zenon, <2>1, <2>3, <1>2, <1>3, <3>2 DEF RemoveFirst
    <3> QED
      BY Zenon, <3>1, <3>2, <3>3, <3>4, <1>1, <1>4
  <2> QED
    BY Zenon, <2>2, <2>3
<1>8. ASSUME NEW t \in T
      PROVE  IF next_socket'[t] = NULL THEN t = RemoveLast(last, s)
             ELSE /\ t # RemoveLast(last, s) /\ next_socket'[t] \in T
                  /\ prev_socket'[next_socket'[t]] = t
  <2>1. t \in Sockets /\ t # s /\ t # NULL
    BY Zenon, <1>1
  <2>2. CASE t = p
    <3>1. t # last
      BY Zenon, <2>1, <2>2, <1>1, <1>2 DEF Linked
    <3> QED
      BY Zenon, <2>1, <2>2, <3>1, <1>1, <1>2, <1>3, <1>4 DEF RemoveLast
  <2>3. CASE t # p
    <3>1. next_socket'[t] = next_socket[t] /\ next_socket[t] # s
      BY Zenon, <2>1, <2>3, <1>4, <1>5
    <3>2. IF next_socket[t] = NULL THEN t = last
          ELSE t # last /\ next_socket[t] \in T /\ prev_socket[next_socket[t]] = t
      BY Zenon, <3>1 DEF Linked
    <3>3. next_socket[t] # NULL => next_socket[t] # n
      BY Zenon, <3>2, <2>1, <1>2
    <3>4. RemoveLast(last, s) # t <=> last # t
      BY Zenon, <2>1, <2>3, <1>2, <1>3, <3>2 DEF RemoveLast
    <3> QED
      BY Zenon, <3>1, <3>2, <3>3, <3>4, <1>1, <1>4
  <2> QED
    BY Zenon, <2>2, <2>3
<1>9. ASSUME NEW P \in SUBSET Sockets,
             Closed(P, RemoveFirst(first, s), next_socket')
      PROVE  T \subseteq P
  <2> DEFINE R == (P \cap T) \cup (IF p = NULL \/ p \in P THEN {s} ELSE {})
  <2>1. R \in SUBSET Sockets
    BY Zenon, <1>1
  <2>2. first \in R
    BY Zenon, <1>2, <1>9, <1>1 DEF Closed, RemoveFirst
  <2>3. ASSUME NEW c \in R PROVE next_socket[c] = NULL \/ next_socket[c] \in R
    <3>1. CASE c = s
      BY Zenon, <3>1, <2>3, <1>1, <1>2, <1>3, <1>4, <1>9 DEF Closed, RemoveFirst
    <3>2. CASE c # s /\ next_socket[c] = s
      BY Zenon, <3>2, <2>3, <1>5
    <3>3. CASE c # s /\ next_socket[c] # s
      <4>1. c \in P /\ c \in T /\ c # p
        BY Zenon, <3>3, <2>3, <1>2, <1>1
      <4>2. next_socket'[c] = next_socket[c]
        BY Zenon, <4>1, <1>1, <1>4
      <4> QED
        BY Zenon, <4>1, <4>2, <3>3, <1>9 DEF Closed, Linked
    <3> QED
      BY Zenon, <3>1, <3>2, <3>3
  <2>4. S \subseteq R
    BY Zenon, <2>1, <2>2, <2>3 DEF Linked, Closed
  <2> QED
    BY Zenon, <2>4
<1> QED
  BY Zenon, <1>6, <1>7, <1>8, <1>9 DEF Linked

\* QueueAppend leaves every list alone that shares no socket with its own.
LEMMA AppendElsewhere ==
  ASSUME NEW S, NEW first, NEW last, NEW T, NEW f, NEW l,
         prev_socket \in [Sockets -> Socket], next_socket \in [Sockets -> Socket],
         Linked(S, first, last, prev_socket, next_socket),
         Linked(T, f, l, prev_socket, next_socket),
         NEW s \in Sockets, AppendLinks(last, s), T \cap (S \cup {s}) = {}
  PROVE  Linked(T, f, l, prev_socket', next_socket')
<1>1. last = NULL \/ last \in S
  BY Zenon DEF Linked
<1>2. T \subseteq Sockets
  BY Zenon DEF Linked
<1>3. \A t \in T : prev_socket'[t] = prev_socket[t] /\ next_socket'[t] = next_socket[t]
  BY Zenon, <1>1, <1>2 DEF AppendLinks
<1> QED
  BY ZenonT(30), <1>3, OtherLinks

\* So does QueueRemove.
LEMMA RemoveElsewhere ==
  ASSUME NEW S, NEW first, NEW last, NEW T, NEW f, NEW l,
         prev_socket \in [Sockets -> Socket], next_socket \in [Sockets -> Socket],
         Linked(S, first, last, prev_socket, next_socket),
         Linked(T, f, l, prev_socket, next_socket),
         NEW s \in S, RemoveLinks(s), T \cap S = {}
  PROVE  Linked(T, f, l, prev_socket', next_socket')
<1>1. /\ prev_socket[s] = NULL \/ prev_socket[s] \in S
      /\ next_socket[s] = NULL \/ next_socket[s] \in S
  BY Zenon DEF Linked
<1>2. T \subseteq Sockets
  BY Zenon DEF Linked
<1>3. \A t \in T : prev_socket'[t] = prev_socket[t] /\ next_socket'[t] = next_socket[t]
  BY Zenon, <1>1, <1>2 DEF RemoveLinks
<1> QED
  BY ZenonT(30), <1>3, OtherLinks

\* The links stay of their type.
LEMMA LinkTypes ==
  ASSUME prev_socket \in [Sockets -> Socket], next_socket \in [Sockets -> Socket],
         NEW s \in Sockets, NEW last \in Socket,
         AppendLinks(last, s) \/ RemoveLinks(s)
  PROVE  prev_socket' \in [Sockets -> Socket] /\ next_socket' \in [Sockets -> Socket]
BY Zenon DEF AppendLinks, RemoveLinks, Socket

\* The lists stay when neither their links nor their sockets change.
LEMMA QuietLists ==
  ASSUME ServerList, \A v \in Sockets : Queue(v),
         UNCHANGED <<links, pendings, servers>>,
         Bound' = Bound, \A v \in Sockets : Waiting(v)' = Waiting(v)
  PROVE  ServerList' /\ \A v \in Sockets : Queue(v)'
BY Zenon DEF ServerList, Queue, links, pendings, servers

-----------------------------------------------------------------------------
(* The actions.                                                            *)

LEMMA InitHolds == Init => NetInv
<1> SUFFICES ASSUME Init PROVE NetInv
  BY Zenon
<1>1. Bound = {} /\ \A v \in Sockets : Waiting(v) = {}
  BY Zenon DEF Init, Everywhere, Bound, Waiting
<1>2. Types
  BY Zenon DEF Init, Everywhere, Types, Socket
<1>3. Linked({}, NULL, NULL, prev_socket, next_socket)
  BY Zenon DEF Linked
<1>4. ServerList /\ \A v \in Sockets : Queue(v)
  BY Zenon, <1>1, <1>3 DEF ServerList, Queue, Init, Everywhere
<1> QED
  BY Zenon, <1>1, <1>2, <1>4
     DEF NetInv, ServersApart, ClientsServed, SleepersWait, AcceptersAwake, Init,
         Everywhere

\* A step that changes none of what the invariant is about keeps it.
LEMMA FrameKeeps ==
  ASSUME NetInv,
         UNCHANGED <<flags, links, pendings, servers, pc, asleep, server, accept_poll>>
  PROVE  NetInv'
<1>1. Types'
  BY Zenon DEF NetInv, Types, flags, links, pendings, servers
<1>2. Bound' = Bound
  BY Zenon DEF Bound, flags
<1>3. \A v \in Sockets : Waiting(v)' = Waiting(v)
  BY Zenon DEF Waiting, flags
<1>4. ServerList' /\ \A v \in Sockets : Queue(v)'
  BY Zenon, <1>2, <1>3, QuietLists DEF NetInv
<1>5. ServersApart' /\ ClientsServed'
  BY <1>2, <1>3 DEF NetInv, ServersApart, ClientsServed, flags
<1>6. SleepersWait' /\ AcceptersAwake'
  BY Zenon DEF NetInv, SleepersWait, AcceptersAwake, flags, pendings
<1> QED
  BY Zenon, <1>1, <1>4, <1>5, <1>6 DEF NetInv

LEMMA BindKeeps ==
  ASSUME NetInv, NEW s \in Sockets, NEW n \in Names, Bind(s, n)
  PROVE  NetInv'
<1>1. CASE ~CanAppend(s)
  BY Zenon, <1>1, FrameKeeps DEF Bind, Halt, calls
<1>2. CASE CanAppend(s)
  <2> USE <1>2
  <2>1. Types
    BY Zenon DEF NetInv
  <2>2. Bound' = Bound \cup {s}
    BY <2>1 DEF Bind, Bound, calls, Types
  <2>3. \A v \in Sockets : Waiting(v)' = Waiting(v) /\ s \notin Waiting(v)
    BY Zenon DEF Bind, Waiting, calls
  <2>4. s \notin Bound
    BY Zenon DEF Bind, NetInv, ServersApart
  <2>5. ServerList'
    <3>1. Linked(Bound \cup {s}, AppendFirst(first_server, s), s,
                 prev_socket', next_socket')
      BY Zenon, <2>1, <2>4, AppendLinked DEF NetInv, Bind, ServerList, Types
    <3> QED
      BY Zenon, <3>1, <2>2 DEF Bind, ServerList
  <2>6. ASSUME NEW v \in Sockets PROVE Queue(v)'
    <3>1. Waiting(v) \cap (Bound \cup {s}) = {}
      BY Zenon, <2>3 DEF NetInv, ServersApart
    <3>2. Linked(Waiting(v), first_pending[v], last_pending[v],
                 prev_socket', next_socket')
      BY Zenon, <3>1, <2>1, AppendElsewhere
         DEF NetInv, Bind, ServerList, Queue, Types
    <3> QED
      BY Zenon, <3>2, <2>3 DEF Bind, Queue, pendings
  <2>7. Types'
    <3>1. last_server \in Socket
      BY Zenon, <2>1 DEF Types
    <3>2. prev_socket' \in [Sockets -> Socket] /\ next_socket' \in [Sockets -> Socket]
      BY Zenon, <2>1, <3>1, LinkTypes DEF Bind, Types
    <3> QED
      BY ZenonT(30), <2>1, <3>2 DEF Bind, Types, pendings, calls, AppendFirst, Socket
  <2>8. ServersApart'
    <3>1. Members(first_server) = Bound
      BY Zenon, MembersAreTheList DEF NetInv, ServerList
    <3>2. \A t \in Bound : name[t] # n
      BY Zenon, <3>1 DEF Bind, LookupServer
    <3>3. /\ n # NULL /\ name'[s] = n
          /\ \A t \in Bound : name'[t] = name[t] /\ t \in Sockets
      BY <2>1, <2>4, NetFSAssumption DEF Bind, Types, Bound
    <3> QED
      BY <2>2, <2>3, <3>2, <3>3 DEF NetInv, ServersApart
  <2>9. ClientsServed'
    BY Zenon, <2>1, <2>2, <2>3 DEF NetInv, ClientsServed, Bind, calls
  <2>10. SleepersWait' /\ AcceptersAwake'
    BY Zenon DEF NetInv, SleepersWait, AcceptersAwake, Bind, calls, pendings
  <2> QED
    BY Zenon, <2>5, <2>6, <2>7, <2>8, <2>9, <2>10 DEF NetInv
<1> QED
  BY Zenon, <1>1, <1>2

LEMMA ListenKeeps ==
  ASSUME NetInv, NEW s \in Sockets, Listen(s)
  PROVE  NetInv'
<1>1. Types
  BY Zenon DEF NetInv
<1>2. Bound' = Bound /\ \A v \in Sockets : Waiting(v)' = Waiting(v)
  BY Zenon DEF Bound, Waiting, Listen, calls
<1>3. ServerList' /\ \A v \in Sockets : Queue(v)'
  BY Zenon, <1>2, QuietLists DEF NetInv, Listen
<1>4. Types'
  BY Zenon, <1>1 DEF Types, Listen, links, pendings, servers, calls
<1>5. ServersApart'
  BY Zenon, <1>2 DEF NetInv, ServersApart, Listen
<1>6. ClientsServed'
  BY Zenon, <1>1, <1>2 DEF NetInv, ClientsServed, Listen, calls, Types
<1>7. SleepersWait' /\ AcceptersAwake'
  BY Zenon DEF NetInv, SleepersWait, AcceptersAwake, Listen, calls, pendings
<1> QED
  BY Zenon, <1>3, <1>4, <1>5, <1>6, <1>7 DEF NetInv

LEMMA ConnectRefusedKeeps ==
  ASSUME NetInv, NEW s \in Sockets, NEW n \in Names, ConnectRefused(s, n)
  PROVE  NetInv'
<1>1. Types
  BY Zenon DEF NetInv
<1>2. Bound' = Bound /\ \A v \in Sockets : Waiting(v)' = Waiting(v)
  BY Zenon DEF Bound, Waiting, ConnectRefused, calls
<1>3. ServerList' /\ \A v \in Sockets : Queue(v)'
  BY Zenon, <1>2, QuietLists DEF NetInv, ConnectRefused
<1>4. Types'
  BY Zenon, <1>1 DEF Types, ConnectRefused, links, pendings, servers, calls
<1>5. ServersApart'
  <2>1. \A t \in Bound : name'[t] = name[t]
    BY Zenon, <1>1 DEF NetInv, ServersApart, ConnectRefused, Bound, Types
  <2> QED
    BY <1>2, <2>1 DEF NetInv, ServersApart
<1>6. ClientsServed'
  BY Zenon, <1>2 DEF NetInv, ClientsServed, ConnectRefused, calls
<1>7. SleepersWait' /\ AcceptersAwake'
  BY Zenon
     DEF NetInv, SleepersWait, AcceptersAwake, ConnectRefused, calls, pendings
<1> QED
  BY Zenon, <1>3, <1>4, <1>5, <1>6, <1>7 DEF NetInv

LEMMA ConnectKeeps ==
  ASSUME NetInv, NEW s \in Sockets, NEW v \in Sockets, Connect(s, v)
  PROVE  NetInv'
<1>1. CASE ~CanAppend(s)
  BY Zenon, <1>1, FrameKeeps DEF Connect, Halt, calls
<1>2. CASE CanAppend(s)
  <2> USE <1>2
  <2>1. Types
    BY Zenon DEF NetInv
  <2>2. v \in Bound /\ v # s
    <3>1. Members(first_server) = Bound
      BY Zenon, MembersAreTheList DEF NetInv, ServerList
    <3> QED
      BY Zenon, <3>1 DEF Connect, LookupServer
  \* A server without links would be the only one.
  <2>3. s \notin Bound
    <3> SUFFICES ASSUME s \in Bound PROVE FALSE
      BY Zenon
    <3>1. Linked(Bound, first_server, last_server, prev_socket, next_socket)
      BY Zenon DEF NetInv, ServerList
    <3>2. {s} \in SUBSET Sockets /\ Closed({s}, first_server, next_socket)
      BY Zenon, <3>1 DEF Linked, Closed, CanAppend
    <3> QED
      BY Zenon, <2>2, <3>1, <3>2 DEF Linked
  <2>4. /\ s \notin Waiting(v)
        /\ Waiting(v)' = Waiting(v) \cup {s}
        /\ \A w \in Sockets \ {v} : Waiting(w)' = Waiting(w) /\ s \notin Waiting(w)
    BY <2>1 DEF Connect, Waiting, Goto, Types
  <2>5. Bound' = Bound
    BY <2>1, <2>3 DEF Connect, Bound, Goto, Types
  <2>6. Queue(v)'
    <3>1. Linked(Waiting(v) \cup {s}, AppendFirst(first_pending[v], s), s,
                 prev_socket', next_socket')
      BY Zenon, <2>1, <2>4, AppendLinked DEF NetInv, Connect, Queue, Types
    <3> QED
      BY ZenonT(30), <2>1, <2>4, <3>1 DEF Connect, Queue, Types
  <2>7. ASSUME NEW w \in Sockets \ {v} PROVE Queue(w)'
    <3>1. Waiting(w) \cap (Waiting(v) \cup {s}) = {}
      BY Zenon, <2>4 DEF Waiting
    <3>2. Linked(Waiting(w), first_pending[w], last_pending[w],
                 prev_socket', next_socket')
      BY Zenon, <3>1, <2>1, AppendElsewhere DEF NetInv, Connect, Queue, Types
    <3> QED
      BY Zenon, <2>1, <2>4, <3>2 DEF Connect, Queue, Types
  <2>8. ServerList'
    <3>1. Bound \cap (Waiting(v) \cup {s}) = {}
      BY Zenon, <2>3 DEF NetInv, ServersApart
    <3>2. Linked(Bound, first_server, last_server, prev_socket', next_socket')
      BY Zenon, <3>1, <2>1, AppendElsewhere
         DEF NetInv, Connect, Queue, ServerList, Types
    <3> QED
      BY Zenon, <2>5, <3>2 DEF Connect, ServerList, servers
  <2>9. Types'
    <3>1. last_pending[v] \in Socket
      BY Zenon, <2>1 DEF Types
    <3>2. prev_socket' \in [Sockets -> Socket] /\ next_socket' \in [Sockets -> Socket]
      BY Zenon, <2>1, <3>1, LinkTypes DEF Connect, Types
    <3>3. /\ first_pending' \in [Sockets -> Socket]
          /\ last_pending' \in [Sockets -> Socket]
          /\ server' \in [Sockets -> Socket]
      <4>1. /\ AppendFirst(first_pending[v], s) \in Socket
            /\ s \in Socket /\ v \in Socket
        BY Zenon, <2>1 DEF AppendFirst, Socket, Types
      <4> QED
        BY SMTT(30), <2>1, <4>1 DEF Connect, Types
    <3>4. name' \in [Sockets -> Names \cup {NULL}]
      BY SMTT(30), <2>1 DEF Connect, Types
    <3>5. is_refused' \in [Sockets -> BOOLEAN] /\ asleep' \subseteq Sockets
      BY Zenon, <2>1 DEF Connect, Types
    <3>6. pc' \in [Sockets -> {"idle", "connect", "accept", "unbind", "destroy",
                               "closed"}]
      BY <2>1 DEF Connect, Types, Goto
    <3> QED
      BY Zenon, <2>1, <3>2, <3>3, <3>4, <3>5, <3>6 DEF Connect, Types, servers
  <2>10. ServersApart'
    <3>1. \A t \in Bound : name'[t] = name[t]
      BY Zenon, <2>1, <2>3 DEF Connect, Bound, Types
    <3> QED
      BY <2>3, <2>4, <2>5, <3>1 DEF NetInv, ServersApart
  <2>11. ClientsServed'
    <3>1. \A c \in Sockets : pc'[c] = "connect" => server'[c] \in Sockets
      BY <2>1 DEF NetInv, ClientsServed, Connect, Goto, Types
    <3>2. is_listening' = is_listening /\ pc'[v] = pc[v]
          /\ \A w \in Sockets \ {s} : pc'[w] = pc[w]
      BY ZenonT(30), <2>1, <2>2 DEF Connect, Goto, Types
    <3>3. is_listening[v]
      BY Zenon DEF Connect
    <3> QED
      BY Zenon, <2>2, <2>3, <2>4, <2>5, <3>1, <3>2, <3>3
         DEF NetInv, ClientsServed
  <2>12. SleepersWait'
    BY <2>1 DEF NetInv, SleepersWait, Connect, Goto, Types
  <2>13. AcceptersAwake'
    BY <2>1, <2>2 DEF NetInv, AcceptersAwake, Connect, Goto, Types
  <2> QED
    BY Zenon, <2>6, <2>7, <2>8, <2>9, <2>10, <2>11, <2>12, <2>13 DEF NetInv
<1> QED
  BY Zenon, <1>1, <1>2

LEMMA InterruptKeeps ==
  ASSUME NetInv, NEW s \in Sockets, Interrupt(s)
  PROVE  NetInv'
<1>1. Types' /\ SleepersWait' /\ AcceptersAwake'
  BY Zenon
     DEF NetInv, Types, SleepersWait, AcceptersAwake, Interrupt, flags, links,
         pendings, servers
<1>2. Bound' = Bound /\ \A v \in Sockets : Waiting(v)' = Waiting(v)
  BY Zenon DEF Bound, Waiting, Interrupt, flags
<1>3. ServerList' /\ \A v \in Sockets : Queue(v)'
  BY Zenon, <1>2, QuietLists DEF NetInv, Interrupt
<1>4. ServersApart' /\ ClientsServed'
  BY <1>2 DEF NetInv, ServersApart, ClientsServed, Interrupt, flags
<1> QED
  BY Zenon, <1>1, <1>3, <1>4 DEF NetInv

\* A client c leaves the queue of its server v, in connect or in accept.
LEMMA LeaveQueue ==
  ASSUME NetInv, NEW v \in Sockets, NEW c \in Waiting(v),
         RemoveLinks(c),
         first_pending' = [first_pending EXCEPT ![v] = RemoveFirst(@, c)],
         last_pending' = [last_pending EXCEPT ![v] = RemoveLast(@, c)],
         UNCHANGED servers, Bound' = Bound,
         Waiting(v)' = Waiting(v) \ {c},
         \A w \in Sockets \ {v} : Waiting(w)' = Waiting(w)
  PROVE  /\ ServerList' /\ \A w \in Sockets : Queue(w)'
         /\ prev_socket' \in [Sockets -> Socket] /\ next_socket' \in [Sockets -> Socket]
         /\ first_pending' \in [Sockets -> Socket]
         /\ last_pending' \in [Sockets -> Socket]
         /\ first_pending[v] # NULL
<1>1. Types
  BY Zenon DEF NetInv
<1>2. Queue(v) /\ c \in Sockets
  BY Zenon DEF NetInv, Waiting
<1>3. Queue(v)'
  <2>1. Linked(Waiting(v) \ {c}, RemoveFirst(first_pending[v], c),
               RemoveLast(last_pending[v], c), prev_socket', next_socket')
    BY Zenon, <1>1, <1>2, RemoveLinked DEF Queue, Types
  <2> QED
    BY Zenon, <1>1, <2>1 DEF Queue, Types
<1>4. ASSUME NEW w \in Sockets \ {v} PROVE Queue(w)'
  <2>1. Waiting(w) \cap Waiting(v) = {}
    BY Zenon DEF Waiting
  <2>2. Linked(Waiting(w), first_pending[w], last_pending[w],
               prev_socket', next_socket')
    BY Zenon, <1>1, <2>1, RemoveElsewhere DEF NetInv, Queue, Types
  <2> QED
    BY Zenon, <1>1, <2>2 DEF Queue, Types
<1>5. ServerList'
  <2>1. Bound \cap Waiting(v) = {}
    BY Zenon DEF NetInv, ServersApart
  <2>2. Linked(Bound, first_server, last_server, prev_socket', next_socket')
    BY Zenon, <1>1, <2>1, RemoveElsewhere DEF NetInv, Queue, ServerList, Types
  <2> QED
    BY Zenon, <2>2 DEF ServerList, servers
<1>6. prev_socket' \in [Sockets -> Socket] /\ next_socket' \in [Sockets -> Socket]
  BY Zenon, <1>1, <1>2, LinkTypes DEF Types, Socket
<1>7. first_pending' \in [Sockets -> Socket] /\ last_pending' \in [Sockets -> Socket]
  BY Zenon, <1>1, <1>2 DEF Types, RemoveFirst, RemoveLast
<1>8. first_pending[v] # NULL
  BY <1>2, NetFSAssumption DEF Queue, Linked
<1> QED
  BY Zenon, <1>3, <1>4, <1>5, <1>6, <1>7, <1>8

LEMMA ConnectResumeKeeps ==
  ASSUME NetInv, NEW s \in Sockets, ConnectResume(s)
  PROVE  NetInv'
<1>1. Types
  BY Zenon DEF NetInv
<1>2. Bound' = Bound
  BY Zenon, <1>1 DEF ConnectResume, Goto, Bound, Types, flags
<1>3. PICK v \in Sockets : v = server[s]
  BY Zenon DEF NetInv, ClientsServed, ConnectResume
<1>4. CASE is_connected[s] \/ is_refused[s]
  <2>1. UNCHANGED <<links, pendings, servers>>
    BY Zenon, <1>4 DEF ConnectResume
  <2>2. \A w \in Sockets : Waiting(w)' = Waiting(w)
    BY Zenon, <1>1, <1>4 DEF Waiting, ConnectResume, Goto, Types, flags
  <2>3. ServerList' /\ \A w \in Sockets : Queue(w)'
    BY Zenon, <1>2, <2>1, <2>2, QuietLists DEF NetInv
  <2>4. Types'
    BY Zenon, <1>1, <2>1
       DEF Types, ConnectResume, Goto, links, pendings, servers, flags
  <2>5. ServersApart' /\ ClientsServed'
    BY <1>1, <1>2, <2>2
       DEF NetInv, ServersApart, ClientsServed, ConnectResume, Goto, flags, Types
  <2>6. SleepersWait' /\ AcceptersAwake'
    BY <1>1, <2>1 DEF NetInv, SleepersWait, AcceptersAwake, ConnectResume, Goto, flags,
                      pendings, Types
  <2> QED
    BY Zenon, <2>3, <2>4, <2>5, <2>6 DEF NetInv
<1>5. CASE ~is_connected[s] /\ ~is_refused[s]
  <2>1. /\ s \in Waiting(v) /\ RemoveLinks(s)
        /\ first_pending' = [first_pending EXCEPT ![v] = RemoveFirst(@, s)]
        /\ last_pending' = [last_pending EXCEPT ![v] = RemoveLast(@, s)]
        /\ UNCHANGED servers
    BY Zenon, <1>3, <1>5 DEF ConnectResume, Waiting
  <2>2. /\ Waiting(v)' = Waiting(v) \ {s}
        /\ \A w \in Sockets \ {v} : Waiting(w)' = Waiting(w)
    BY <1>1, <1>3 DEF Waiting, ConnectResume, Goto, Types, flags
  <2>3. /\ ServerList' /\ \A w \in Sockets : Queue(w)'
        /\ prev_socket' \in [Sockets -> Socket] /\ next_socket' \in [Sockets -> Socket]
        /\ first_pending' \in [Sockets -> Socket]
        /\ last_pending' \in [Sockets -> Socket]
        /\ first_pending[v] # NULL
    BY Zenon, <1>2, <2>1, <2>2, LeaveQueue
  <2>4. Types'
    BY Zenon, <1>1, <2>3 DEF Types, ConnectResume, Goto, servers, flags
  <2>5. \A w \in Sockets : Waiting(w)' \subseteq Waiting(w)
    BY Zenon, <2>2
  <2>6. ServersApart' /\ ClientsServed'
    BY <1>1, <1>2, <2>5
       DEF NetInv, ServersApart, ClientsServed, ConnectResume, Goto, flags, Types
  <2>7. SleepersWait'
    BY Zenon, <1>1 DEF NetInv, SleepersWait, ConnectResume, Goto, flags, Types
  <2>8. AcceptersAwake'
    BY Zenon, <1>1, <2>1, <2>3
       DEF NetInv, AcceptersAwake, ConnectResume, Goto, Types
  <2> QED
    BY Zenon, <2>3, <2>4, <2>6, <2>7, <2>8 DEF NetInv
<1> QED
  BY Zenon, <1>4, <1>5

LEMMA AcceptWaitKeeps ==
  ASSUME NetInv, NEW s \in Sockets, first_pending[s] = NULL,
         pc[s] \in {"idle", "accept"}, AcceptWait(s)
  PROVE  NetInv'
<1>1. Types
  BY Zenon DEF NetInv
<1>2. Bound' = Bound /\ \A v \in Sockets : Waiting(v)' = Waiting(v)
  BY Zenon, <1>1 DEF Bound, Waiting, AcceptWait, Goto, Types, flags
<1>3. ServerList' /\ \A v \in Sockets : Queue(v)'
  BY Zenon, <1>2, QuietLists DEF NetInv, AcceptWait
<1>4. Types'
  BY Zenon, <1>1 DEF Types, AcceptWait, Goto, links, pendings, servers, flags
<1>5. ServersApart' /\ ClientsServed'
  BY <1>1, <1>2 DEF NetInv, ServersApart, ClientsServed, AcceptWait, Goto, flags, Types
<1>6. SleepersWait' /\ AcceptersAwake'
  BY ZenonT(30), <1>1
     DEF NetInv, SleepersWait, AcceptersAwake, AcceptWait, Goto, flags,
     pendings,
              Types
<1> QED
  BY Zenon, <1>3, <1>4, <1>5, <1>6 DEF NetInv

LEMMA AcceptClientKeeps ==
  ASSUME NetInv, NEW s \in Sockets, first_pending[s] # NULL,
         pc[s] \in {"idle", "accept"}, AcceptClient(s)
  PROVE  NetInv'
<1>1. Types
  BY Zenon DEF NetInv
<1>2. CASE "late" \in Failures /\ Halt("manager_lock")
  BY Zenon, <1>2, FrameKeeps DEF Halt, calls
<1>3. CASE /\ Goto(s, "idle")
           /\ UNCHANGED <<flags, links, pendings, servers, asleep, interrupted, server,
                          accept_poll, arrivals, halted>>
  <2>1. Bound' = Bound /\ \A v \in Sockets : Waiting(v)' = Waiting(v)
    BY Zenon, <1>1, <1>3 DEF Bound, Waiting, Goto, Types, flags
  <2>2. ServerList' /\ \A v \in Sockets : Queue(v)'
    BY Zenon, <1>3, <2>1, QuietLists DEF NetInv
  <2>3. Types'
    BY Zenon, <1>1, <1>3 DEF Types, Goto, links, pendings, servers, flags
  <2>4. ServersApart' /\ ClientsServed'
    BY <1>1, <1>3, <2>1 DEF NetInv, ServersApart, ClientsServed, Goto, flags, Types
  <2>5. SleepersWait' /\ AcceptersAwake'
    BY Zenon, <1>1, <1>3
       DEF NetInv, SleepersWait, AcceptersAwake, Goto, flags, pendings, Types
  <2> QED
    BY Zenon, <2>2, <2>3, <2>4, <2>5 DEF NetInv
<1>4. CASE /\ Goto(s, "idle")
           /\ RemoveLinks(first_pending[s])
           /\ first_pending' = [first_pending EXCEPT
                                  ![s] = RemoveFirst(@, first_pending[s])]
           /\ last_pending' = [last_pending EXCEPT
                                 ![s] = RemoveLast(@, first_pending[s])]
           /\ is_connected' = [is_connected EXCEPT ![first_pending[s]] = TRUE]
           /\ asleep' = asleep \ {first_pending[s]}
           /\ UNCHANGED <<name, is_registered, is_listening, is_refused, servers,
                          interrupted, server, accept_poll, halted>>
  <2>1. PICK c \in Waiting(s) : c = first_pending[s]
    BY Zenon DEF NetInv, Queue, Linked
  <2>2. c \in Sockets /\ pc[c] = "connect" /\ server[c] = s /\ c # s
    BY Zenon DEF Waiting
  <2>3. Bound' = Bound
    BY Zenon, <1>1, <1>4 DEF Bound, Goto, Types
  <2>4. /\ Waiting(s)' = Waiting(s) \ {c}
        /\ \A w \in Sockets \ {s} : Waiting(w)' = Waiting(w)
    BY Zenon, <1>1, <1>4, <2>1, <2>2 DEF Waiting, Goto, Types
  <2>5. /\ ServerList' /\ \A w \in Sockets : Queue(w)'
        /\ prev_socket' \in [Sockets -> Socket] /\ next_socket' \in [Sockets -> Socket]
        /\ first_pending' \in [Sockets -> Socket]
        /\ last_pending' \in [Sockets -> Socket]
    BY Zenon, <1>4, <2>1, <2>3, <2>4, LeaveQueue
  <2>6. Types'
    BY Zenon, <1>1, <1>4, <2>5 DEF Types, Goto, servers
  <2>7. \A w \in Sockets : Waiting(w)' \subseteq Waiting(w)
    BY Zenon, <2>4
  <2>8. ServersApart' /\ ClientsServed'
    BY <1>1, <1>4, <2>3, <2>7 DEF NetInv, ServersApart, ClientsServed, Goto, Types
  <2>9. SleepersWait'
    BY Zenon, <1>1, <1>4 DEF NetInv, SleepersWait, Goto, Types
  <2>10. AcceptersAwake'
    BY Zenon, <1>1, <1>4 DEF NetInv, AcceptersAwake, Goto, Types
  <2> QED
    BY Zenon, <2>5, <2>6, <2>8, <2>9, <2>10 DEF NetInv
<1> QED
  BY Zenon, <1>2, <1>3, <1>4 DEF AcceptClient

LEMMA AcceptResumeKeeps ==
  ASSUME NetInv, NEW s \in Sockets, AcceptResume(s)
  PROVE  NetInv'
<1>1. Types
  BY Zenon DEF NetInv
<1>2. CASE s \notin interrupted
  BY Zenon, <1>2, AcceptWaitKeeps, AcceptClientKeeps DEF AcceptResume
<1>3. CASE s \in interrupted
  <2>1. /\ pc[s] = "accept" /\ Goto(s, "idle")
        /\ UNCHANGED <<flags, links, pendings, servers, asleep, server, accept_poll>>
    BY Zenon, <1>3 DEF AcceptResume
  <2>2. Bound' = Bound /\ \A v \in Sockets : Waiting(v)' = Waiting(v)
    BY Zenon, <1>1, <2>1 DEF Bound, Waiting, Goto, Types, flags
  <2>3. ServerList' /\ \A v \in Sockets : Queue(v)'
    BY Zenon, <2>1, <2>2, QuietLists DEF NetInv
  <2>4. Types'
    BY Zenon, <1>1, <2>1 DEF Types, Goto, links, pendings, servers, flags
  <2>5. ServersApart' /\ ClientsServed'
    BY <1>1, <2>1, <2>2 DEF NetInv, ServersApart, ClientsServed, Goto, flags, Types
  <2>6. SleepersWait' /\ AcceptersAwake'
    BY Zenon, <1>1, <2>1
       DEF NetInv, SleepersWait, AcceptersAwake, Goto, flags, pendings, Types
  <2> QED
    BY Zenon, <2>3, <2>4, <2>5, <2>6 DEF NetInv
<1> QED
  BY Zenon, <1>2, <1>3

\* A poll registers, ends, or is ended by the destructor.
LEMMA PollKeeps ==
  ASSUME NetInv, NEW s \in Sockets, AcceptPoll(s) \/ AcceptPollCancel(s)
  PROVE  NetInv'
<1>1. UNCHANGED <<flags, links, pendings, servers, calls>>
  BY Zenon DEF AcceptPoll, AcceptPollCancel
<1>2. Types'
  BY Zenon, <1>1 DEF NetInv, Types, flags, links, pendings, servers, calls
<1>3. Bound' = Bound /\ \A v \in Sockets : Waiting(v)' = Waiting(v)
  BY Zenon, <1>1 DEF Bound, Waiting, flags, calls
<1>4. ServerList' /\ \A v \in Sockets : Queue(v)'
  BY Zenon, <1>1, <1>3, QuietLists DEF NetInv
<1>5. ServersApart' /\ ClientsServed' /\ SleepersWait'
  BY <1>1, <1>3 DEF NetInv, ServersApart, ClientsServed, SleepersWait, flags, calls
<1>6. AcceptersAwake'
  BY Zenon, <1>1
     DEF NetInv, AcceptersAwake, AcceptPoll, AcceptPollCancel, pendings, calls
<1> QED
  BY Zenon, <1>2, <1>4, <1>5, <1>6 DEF NetInv

LEMMA UnlistenKeeps ==
  ASSUME NetInv, NEW s \in Sockets, Unlisten(s)
  PROVE  NetInv'
<1>1. Types
  BY Zenon DEF NetInv
<1>2. Bound' = Bound /\ \A v \in Sockets : Waiting(v)' = Waiting(v)
  BY Zenon, <1>1 DEF Bound, Waiting, Unlisten, Goto, Types
<1>3. ServerList' /\ \A v \in Sockets : Queue(v)'
  BY Zenon, <1>2, QuietLists DEF NetInv, Unlisten
<1>4. Types'
  BY Zenon, <1>1 DEF Types, Unlisten, Goto, links, pendings, servers
<1>5. ServersApart'
  BY <1>2 DEF NetInv, ServersApart, Unlisten
<1>6. ClientsServed'
  BY Zenon, <1>1, <1>2 DEF NetInv, ClientsServed, Unlisten, Goto, Types
<1>7. SleepersWait' /\ AcceptersAwake'
  BY Zenon, <1>1
     DEF NetInv, SleepersWait, AcceptersAwake, Unlisten, Goto, pendings, Types
<1> QED
  BY Zenon, <1>3, <1>4, <1>5, <1>6, <1>7 DEF NetInv

\* The clients that wait for s are refused, and a bound s leaves the servers.
LEMMA UnbindKeeps ==
  ASSUME NetInv, NEW s \in Sockets, Unbind(s)
  PROVE  NetInv'
<1>1. Types
  BY Zenon DEF NetInv
<1>2. Pending(s) = Waiting(s)
  BY Zenon, MembersAreTheList DEF NetInv, Queue, Pending
<1>3. pc[s] \in {"idle", "unbind"} /\ \A v \in Sockets : s \notin Waiting(v)
  BY Zenon DEF Unbind, Waiting
<1>4. Bound' = Bound \ {s}
  BY Zenon, <1>1 DEF Bound, Unbind, Goto, Types
<1>5. s \in Bound <=> is_registered[s]
  BY Zenon, <1>3 DEF Bound
<1>6. /\ Waiting(s)' = {}
      /\ \A v \in Sockets \ {s} : Waiting(v)' = Waiting(v)
  <2>1. \A c \in Sockets : is_refused'[c] = (is_refused[c] \/ c \in Waiting(s))
    BY Zenon, <1>2 DEF Unbind
  <2>2. \A c \in Sockets : pc'[c] = IF c = s THEN "destroy" ELSE pc[c]
    BY Zenon, <1>1 DEF Unbind, Goto, Types
  <2>3. server' = server /\ is_connected' = is_connected
    BY Zenon DEF Unbind
  <2> QED
    BY Zenon, <1>3, <2>1, <2>2, <2>3 DEF Waiting
<1>7. /\ first_pending' = [first_pending EXCEPT ![s] = NULL]
      /\ last_pending' = [last_pending EXCEPT ![s] = NULL]
  BY Zenon DEF Unbind
<1>8. /\ ServerList'
      /\ \A v \in Sockets \ {s} : Linked(Waiting(v), first_pending[v], last_pending[v],
                                         prev_socket', next_socket')
      /\ prev_socket' \in [Sockets -> Socket] /\ next_socket' \in [Sockets -> Socket]
      /\ first_server' \in Socket /\ last_server' \in Socket
  <2>1. CASE is_registered[s]
    <3>1. /\ s \in Bound /\ RemoveLinks(s)
          /\ first_server' = RemoveFirst(first_server, s)
          /\ last_server' = RemoveLast(last_server, s)
      BY Zenon, <1>5, <2>1 DEF Unbind
    <3>2. Linked(Bound \ {s}, RemoveFirst(first_server, s), RemoveLast(last_server, s),
                 prev_socket', next_socket')
      BY Zenon, <1>1, <3>1, RemoveLinked DEF NetInv, ServerList, Types
    <3>3. ASSUME NEW v \in Sockets \ {s}
          PROVE  Linked(Waiting(v), first_pending[v], last_pending[v],
                        prev_socket', next_socket')
      <4>1. Waiting(v) \cap Bound = {}
        BY Zenon DEF NetInv, ServersApart
      <4> QED
        BY Zenon, <1>1, <3>1, <4>1, RemoveElsewhere
           DEF NetInv, ServerList, Queue, Types
    <3>4. prev_socket' \in [Sockets -> Socket] /\ next_socket' \in [Sockets -> Socket]
      BY Zenon, <1>1, <3>1, LinkTypes DEF Types, Socket
    <3>5. first_server' \in Socket /\ last_server' \in Socket
      BY Zenon, <1>1, <3>1 DEF Types, RemoveFirst, RemoveLast
    <3> QED
      BY Zenon, <1>4, <3>1, <3>2, <3>3, <3>4, <3>5 DEF ServerList
  <2>2. CASE ~is_registered[s]
    <3>1. Bound' = Bound /\ UNCHANGED <<links, servers>>
      BY Zenon, <1>4, <1>5, <2>2 DEF Unbind
    <3> QED
      BY Zenon, <1>1, <3>1 DEF NetInv, ServerList, Queue, links, servers, Types
  <2> QED
    BY Zenon, <2>1, <2>2
<1>9. \A v \in Sockets : Queue(v)'
  <2>1. Linked({}, NULL, NULL, prev_socket', next_socket')
    BY Zenon DEF Linked
  <2> QED
    BY SMTT(30), <1>1, <1>6, <1>7, <1>8, <2>1 DEF Queue, Types
<1>10. Types'
  <2>1. first_pending' \in [Sockets -> Socket] /\ last_pending' \in [Sockets -> Socket]
    BY Zenon, <1>1, <1>7 DEF Types, Socket
  <2>2. is_refused' \in [Sockets -> BOOLEAN] /\ asleep' \subseteq Sockets
    BY Zenon, <1>1 DEF Unbind, Types
  <2> QED
    BY Zenon, <1>1, <1>8, <2>1, <2>2 DEF Unbind, Goto, Types
<1>11. ServersApart'
  <2>1. \A t \in Bound \ {s} : name'[t] = name[t]
    BY Zenon, <1>1 DEF Unbind, Types, Bound
  <2> QED
    BY <1>4, <1>6, <2>1 DEF NetInv, ServersApart
<1>12. ClientsServed'
  <2>1. /\ server' = server /\ is_listening' = is_listening
        /\ \A c \in Sockets : pc'[c] = IF c = s THEN "destroy" ELSE pc[c]
    BY Zenon, <1>1 DEF Unbind, Goto, Types
  <2> QED
    BY Zenon, <1>4, <1>6, <2>1 DEF NetInv, ClientsServed
<1>13. SleepersWait'
  BY Zenon, <1>1, <1>2 DEF NetInv, SleepersWait, Unbind, Goto, Types
<1>14. AcceptersAwake'
  BY Zenon, <1>1, <1>7 DEF NetInv, AcceptersAwake, Unbind, Goto, Types
<1> QED
  BY Zenon, <1>8, <1>9, <1>10, <1>11, <1>12, <1>13, <1>14 DEF NetInv

LEMMA DestroyKeeps ==
  ASSUME NetInv, NEW s \in Sockets, DestroyPollChannel(s)
  PROVE  NetInv'
<1>1. Types
  BY Zenon DEF NetInv
<1>2. Bound' = Bound /\ \A v \in Sockets : Waiting(v)' = Waiting(v)
  BY Zenon, <1>1 DEF Bound, Waiting, DestroyPollChannel, Goto, Types, flags
<1>3. ServerList' /\ \A v \in Sockets : Queue(v)'
  BY Zenon, <1>2, QuietLists DEF NetInv, DestroyPollChannel
<1>4. Types'
  BY Zenon, <1>1
     DEF Types, DestroyPollChannel, Goto, links, pendings, servers, flags
<1>5. ServersApart'
  BY Zenon, <1>2 DEF NetInv, ServersApart, DestroyPollChannel, flags
<1>6. ClientsServed'
  BY Zenon, <1>1, <1>2
     DEF NetInv, ClientsServed, DestroyPollChannel, Goto, Types, flags
<1>7. SleepersWait' /\ AcceptersAwake'
  BY Zenon, <1>1
     DEF NetInv, SleepersWait, AcceptersAwake, DestroyPollChannel, Goto, flags,
              pendings, Types
<1> QED
  BY Zenon, <1>3, <1>4, <1>5, <1>6, <1>7 DEF NetInv

LEMMA NextKeeps == NetInv /\ [Next]_vars => NetInv'
<1> SUFFICES ASSUME NetInv, [Next]_vars PROVE NetInv'
  BY Zenon
<1>1. CASE UNCHANGED vars
  BY Zenon, <1>1, FrameKeeps DEF vars, calls
<1>2. ASSUME NEW s \in Sockets, NEW n \in Names, Bind(s, n) \/ ConnectRefused(s, n)
      PROVE  NetInv'
  BY Zenon, <1>2, BindKeeps, ConnectRefusedKeeps
<1>3. ASSUME NEW s \in Sockets, NEW v \in Sockets, Connect(s, v)
      PROVE  NetInv'
  BY Zenon, <1>3, ConnectKeeps
<1>4. ASSUME NEW s \in Sockets, Listen(s) \/ ConnectResume(s) \/ Interrupt(s)
      PROVE  NetInv'
  BY Zenon, <1>4, ListenKeeps, ConnectResumeKeeps, InterruptKeeps
<1>5. ASSUME NEW s \in Sockets, Accept(s)
      PROVE  NetInv'
  BY Zenon, <1>5, AcceptWaitKeeps, AcceptClientKeeps DEF Accept
<1>6. ASSUME NEW s \in Sockets, AcceptResume(s)
      PROVE  NetInv'
  BY Zenon, <1>6, AcceptResumeKeeps
<1>7. ASSUME NEW s \in Sockets, AcceptPoll(s) \/ AcceptPollCancel(s)
      PROVE  NetInv'
  BY Zenon, <1>7, PollKeeps
<1>8. ASSUME NEW s \in Sockets, Unlisten(s) \/ Unbind(s) \/ DestroyPollChannel(s)
      PROVE  NetInv'
  BY Zenon, <1>8, UnlistenKeeps, UnbindKeeps, DestroyKeeps
<1> QED
  BY Zenon, <1>1, <1>2, <1>3, <1>4, <1>5, <1>6, <1>7, <1>8 DEF Next

-----------------------------------------------------------------------------
(* The theorems.                                                           *)

LEMMA Invariance == Spec => []NetInv
<1> QED
  BY InitHolds, NextKeeps, PTL DEF Spec

\* For any sockets and names, and wherever the memory runs out in accept: an
\* accept sleeps on pending_cond, and a poll stays registered, only while the
\* queue is empty, although connect signals once (fs.cpp:662) and an interrupted
\* accept swallows the signal.
THEOREM AcceptersStayAwake == Spec => []AcceptersAwake
<1>1. NetInv => AcceptersAwake
  BY Zenon DEF NetInv
<1> QED
  BY <1>1, Invariance, PTL

\* A client that sleeps in connect is in the queue of a socket that is still
\* there: no accept, no close of the server and no interrupted client that
\* leaves the middle of the queue lets go of it.
THEOREM ClientsStayKnown == Spec => []ClientsKnown
<1>1. NetInv => ClientsKnown
  <2> SUFFICES ASSUME NetInv, NEW s \in asleep, pc[s] = "connect"
               PROVE  /\ ~is_connected[s] /\ ~is_refused[s]
                      /\ pc[server[s]] \notin {"destroy", "closed"}
                      /\ s \in Pending(server[s])
    BY Zenon DEF ClientsKnown
  <2>1. s \in Sockets /\ ~is_connected[s] /\ ~is_refused[s]
    BY Zenon DEF NetInv, Types, SleepersWait
  <2>2. PICK v \in Sockets : v = server[s]
    BY Zenon, <2>1 DEF NetInv, ClientsServed
  <2>3. s \in Waiting(v)
    BY Zenon, <2>1, <2>2 DEF Waiting
  <2>4. Pending(v) = Waiting(v)
    BY Zenon, MembersAreTheList DEF NetInv, Queue, Pending
  <2>5. pc[v] \notin {"destroy", "closed"}
    BY Zenon, <2>3 DEF NetInv, ClientsServed, Bound
  <2> QED
    BY Zenon, <2>1, <2>2, <2>3, <2>4, <2>5
<1> QED
  BY <1>1, Invariance, PTL

\* Although a removed socket keeps its links and all lists use the same two, a
\* walk of the list of servers meets exactly the bound sockets, no two of one
\* name, and a walk of a server's queue exactly the clients that wait for it.
THEOREM ListsStayExact ==
  Spec => [](/\ Members(first_server) = Bound
             /\ \A s, t \in Bound : name[s] = name[t] => s = t
             /\ \A v \in Sockets : Pending(v) = Waiting(v))
<1>1. NetInv => /\ Members(first_server) = Bound
                /\ \A s, t \in Bound : name[s] = name[t] => s = t
                /\ \A v \in Sockets : Pending(v) = Waiting(v)
  BY Zenon, MembersAreTheList
     DEF NetInv, ServerList, Queue, Pending, ServersApart
<1> QED
  BY <1>1, Invariance, PTL

=============================================================================
