-------------------------------- MODULE Pipe --------------------------------
(***************************************************************************)
(* A pipe channel (class PipeChannel in kernel/pipe.cpp): the ring buffer  *)
(* of segments, and recvmsg, sendmsg, close, resize and poll on it.        *)
(*                                                                         *)
(* A cell of the buffer stands for what takes several bytes in the code: a *)
(* segment header, the header of a control message, the pointer of a       *)
(* passed descriptor, or one byte of normal data.  Bytes are numbered in   *)
(* the order they are sent.  A thread works under pipe_lock, one step for  *)
(* each turn of a loop, until it returns, waits or yields; KThread shows   *)
(* what the lock and the conditions promise, and a broadcast empties the   *)
(* set of the threads that sleep.  User memory is valid: no copy faults.   *)
(***************************************************************************)
EXTENDS Naturals, Sequences

CONSTANTS Readers, Writers, \* the threads that receive and that send
          NULL,             \* no thread
          BufferSize,       \* the first size of the buffer
          Sizes,            \* the sizes that WriteResize is asked for
          Nonblocking,      \* whether calls are made with O_NONBLOCK: a set
          Peeking,          \* whether calls are made with MSG_PEEK: a set
          MaxCount,         \* bound: how many bytes a call transfers
          MaxFds,           \* bound: how many descriptors a message passes
          MaxSent           \* bound: how many bytes are sent

ASSUME PipeAssumption ==
  /\ NULL \notin Readers \cup Writers
  /\ Readers \cap Writers = {}
  /\ BufferSize \in Nat /\ BufferSize >= 2
  /\ Sizes \subseteq Nat \ {0}
  /\ Nonblocking \subseteq BOOLEAN /\ Peeking \subseteq BOOLEAN
  /\ MaxCount \in Nat /\ MaxFds \in Nat /\ MaxSent \in Nat

VARIABLES buffer, buffer_offset, buffer_used, buffer_size,
          last_header_position,
          pledged_read, pledged_write,
          any_reading, any_writing,
          pipe_lock,              \* the thread that holds the lock, or NULL
          read_cond, write_cond,  \* the threads that sleep
          read_poll, write_poll,  \* whether a poll of that end sleeps
          pc, local,              \* where each thread is, and its locals
          sent                    \* number of bytes sent

ring == <<buffer, buffer_offset, buffer_used, buffer_size,
          last_header_position, sent>>
ends == <<any_reading, any_writing>>
pledges == <<pledged_read, pledged_write>>
conds == <<read_cond, write_cond, read_poll, write_poll>>
threads == <<pipe_lock, pc, local>>
vars == <<ring, ends, pledges, conds, threads>>

Threads == Readers \cup Writers
Smaller(a, b) == IF a < b THEN a ELSE b
Larger(a, b) == IF a < b THEN b ELSE a

Cell(kind, a, b) == [kind |-> kind, a |-> a, b |-> b]
Header(ancillary, normal) == Cell("header", ancillary, normal)
Byte(n) == Cell("byte", n, 0)
Free == Cell("free", 0, 0)
ControlItems == {Cell("cmsg", n, 0) : n \in 1..MaxFds}
                \cup {Cell("fd", n, 0) : n \in 1..MaxFds}

NoCall == [count |-> 0, so_far |-> 0, waitall |-> FALSE, nonblock |-> FALSE,
           peek |-> FALSE, fds |-> 0, i |-> 0, normal |-> 0, saved |-> 0,
           need_header |-> FALSE, interrupted |-> FALSE]

Init ==
  /\ buffer = [i \in 0..BufferSize - 1 |-> Free]
  /\ buffer_offset = 0 /\ buffer_used = 0 /\ buffer_size = BufferSize
  /\ last_header_position = 0
  /\ pledged_read = 0 /\ pledged_write = 0
  /\ any_reading = TRUE /\ any_writing = TRUE
  /\ pipe_lock = NULL
  /\ read_cond = {} /\ write_cond = {}
  /\ read_poll = FALSE /\ write_poll = FALSE
  /\ pc = [t \in Threads |-> "idle"]
  /\ local = [t \in Threads |-> NoCall]
  /\ sent = 0

-----------------------------------------------------------------------------
(* The ring buffer.                                                        *)

ReadBuffer(position) == buffer[(buffer_offset + position) % buffer_size]

\* The buffer with the cells, a sequence, written from the position on, and
\* then the header at its position.
WriteBuffer(cells, position, header, at) ==
  [i \in 0..buffer_size - 1 |->
    LET start == (buffer_offset + position) % buffer_size
        k == (i + buffer_size - start) % buffer_size
    IN IF i = (buffer_offset + at) % buffer_size THEN header
       ELSE IF k < Len(cells) THEN cells[k + 1]
       ELSE buffer[i]]

\* ReadPollEventStatus has POLLIN or POLLHUP; WritePollEventStatus has
\* POLLOUT or POLLERR.
ReadPollEventStatus(used, writing) == used > 0 \/ ~writing
WritePollEventStatus(used, size, last, reading) ==
  ~reading \/ (IF last = size THEN 1 ELSE 0) < size - used

\* read_poll_channel.Signal and write_poll_channel.Signal.
SignalPolls(used, last) ==
  /\ read_poll' = (read_poll /\ ~ReadPollEventStatus(used, any_writing))
  /\ write_poll' =
       (write_poll /\ ~WritePollEventStatus(used, buffer_size, last, any_reading))

\* Take the amount from a header.
Less(header, amount) ==
  IF header.a > 0 THEN Header(header.a - amount, header.b)
  ELSE Header(header.a, header.b - amount)

NonEmpty(header) == header.a > 0 \/ header.b > 0

\* Mutant: signal in place of broadcast.
Enqueue_Signal(cells, is_ancillary) ==
  LET last == ReadBuffer(last_header_position)
      has_header == /\ last_header_position < buffer_used
                    /\ ~(is_ancillary /\ last.b > 0)
      old == IF has_header THEN last ELSE Header(0, 0)
      at == IF has_header THEN last_header_position ELSE buffer_used
      header == IF is_ancillary THEN Header(old.a + Len(cells), old.b)
                ELSE Header(old.a, old.b + Len(cells))
      position == buffer_used + (IF has_header THEN 0 ELSE 1)
  IN /\ buffer' = WriteBuffer(cells, position, header, at)
     /\ last_header_position' = at
     /\ buffer_used' = position + Len(cells)
     /\ read_cond' = IF read_cond = {} THEN {}
                     ELSE read_cond \ {CHOOSE r \in read_cond : TRUE}
     /\ SignalPolls(position + Len(cells), at)
     /\ UNCHANGED <<buffer_offset, buffer_size, write_cond>>

Enqueue(cells, is_ancillary) ==
  LET last == ReadBuffer(last_header_position)
      has_header == /\ last_header_position < buffer_used
                    /\ ~(is_ancillary /\ last.b > 0)
      old == IF has_header THEN last ELSE Header(0, 0)
      at == IF has_header THEN last_header_position ELSE buffer_used
      header == IF is_ancillary THEN Header(old.a + Len(cells), old.b)
                ELSE Header(old.a, old.b + Len(cells))
      position == buffer_used + (IF has_header THEN 0 ELSE 1)
  IN /\ buffer' = WriteBuffer(cells, position, header, at)
     /\ last_header_position' = at
     /\ buffer_used' = position + Len(cells)
     /\ read_cond' = {}
     /\ SignalPolls(position + Len(cells), at)
     /\ UNCHANGED <<buffer_offset, buffer_size, write_cond>>

\* Take the last cell back.
Unenqueue(saved) ==
  LET header == Less(ReadBuffer(last_header_position), 1)
      used == buffer_used - (IF NonEmpty(header) THEN 1 ELSE 2)
      last == IF NonEmpty(header) THEN last_header_position ELSE saved
  IN /\ buffer' = IF NonEmpty(header)
                  THEN WriteBuffer(<<>>, 0, header, last_header_position)
                  ELSE buffer
     /\ buffer_used' = used
     /\ last_header_position' = last
     /\ write_cond' = {}
     /\ SignalPolls(used, last)
     /\ UNCHANGED <<buffer_offset, buffer_size, read_cond, sent>>

\* Mutant: writers are not woken.
Dequeue_NoWake(amount) ==
  LET header == Less(ReadBuffer(0), amount)
      shift == amount + (IF NonEmpty(header) THEN 0 ELSE 1)
      used == buffer_used - shift
      last == IF shift <= last_header_position
              THEN last_header_position - shift ELSE 0
  IN /\ buffer' = IF NonEmpty(header) THEN WriteBuffer(<<>>, 0, header, amount)
                  ELSE buffer
     /\ buffer_offset' = IF used = 0 THEN 0
                         ELSE (buffer_offset + shift) % buffer_size
     /\ buffer_used' = used
     /\ last_header_position' = IF used = 0 THEN 0 ELSE last
     /\ SignalPolls(used, last)
     /\ UNCHANGED <<buffer_size, read_cond, write_cond, sent>>

\* Mutant: last_header_position does not move with the data.
Dequeue_KeepsLast(amount) ==
  LET header == Less(ReadBuffer(0), amount)
      shift == amount + (IF NonEmpty(header) THEN 0 ELSE 1)
      used == buffer_used - shift
      last == Smaller(last_header_position, used)
  IN /\ buffer' = IF NonEmpty(header) THEN WriteBuffer(<<>>, 0, header, amount)
                  ELSE buffer
     /\ buffer_offset' = IF used = 0 THEN 0
                         ELSE (buffer_offset + shift) % buffer_size
     /\ buffer_used' = used
     /\ last_header_position' = last
     /\ write_cond' = {}
     /\ SignalPolls(used, last)
     /\ UNCHANGED <<buffer_size, read_cond, sent>>

\* Remove cells from the first segment, and shift its header.
Dequeue(amount) ==
  LET header == Less(ReadBuffer(0), amount)
      shift == amount + (IF NonEmpty(header) THEN 0 ELSE 1)
      used == buffer_used - shift
      last == IF shift <= last_header_position
              THEN last_header_position - shift ELSE 0
  IN /\ buffer' = IF NonEmpty(header) THEN WriteBuffer(<<>>, 0, header, amount)
                  ELSE buffer
     /\ buffer_offset' = IF used = 0 THEN 0
                         ELSE (buffer_offset + shift) % buffer_size
     /\ buffer_used' = used
     /\ last_header_position' = IF used = 0 THEN 0 ELSE last
     /\ write_cond' = {}
     /\ SignalPolls(used, last)
     /\ UNCHANGED <<buffer_size, read_cond, sent>>

-----------------------------------------------------------------------------
(* Threads.                                                                *)

Goto(t, step, locals) ==
  /\ pc' = [pc EXCEPT ![t] = step]
  /\ local' = [local EXCEPT ![t] = locals]
  /\ UNCHANGED pipe_lock

\* Start a call, under the lock.
Enter(t, step, locals) ==
  /\ pc[t] = "idle" /\ pipe_lock = NULL
  /\ pipe_lock' = t
  /\ pc' = [pc EXCEPT ![t] = step]
  /\ local' = [local EXCEPT ![t] = locals]
  /\ UNCHANGED <<ring, ends, pledges, conds>>

\* Unlock and go to step, where the thread yields or waits.
Release(t, step, locals) ==
  /\ pipe_lock' = NULL
  /\ pc' = [pc EXCEPT ![t] = step]
  /\ local' = [local EXCEPT ![t] = locals]

Return(t) == Release(t, "idle", NoCall)

\* A thread in a wait or a yield of these two steps has the lock again.
Reenter(t, steps) ==
  /\ pc[t] \in steps
  /\ t \notin read_cond \cup write_cond
  /\ pipe_lock = NULL

Waits == {"recv_first_wait", "recv_normal_wait", "send_room_wait",
          "send_normal_wait"}

\* A signal ends a wait.  It may come after the thread was woken as well.
Interrupt(t) ==
  /\ pc[t] \in Waits /\ ~local[t].interrupted
  /\ local' = [local EXCEPT ![t].interrupted = TRUE]
  /\ read_cond' = read_cond \ {t}
  /\ write_cond' = write_cond \ {t}
  /\ UNCHANGED <<ring, ends, pledges, read_poll, write_poll, pipe_lock, pc>>

\* pledged_read++, and unlock: yield, or sleep on read_cond.
YieldRead(t, step) ==
  /\ Release(t, step, local[t])
  /\ pledged_read' = pledged_read + 1
  /\ UNCHANGED <<ring, ends, pledged_write, conds>>

WaitRead(t, step) ==
  /\ Release(t, step, local[t])
  /\ pledged_read' = pledged_read + 1
  /\ read_cond' = read_cond \cup {t}
  /\ UNCHANGED <<ring, ends, pledged_write, write_cond, read_poll, write_poll>>

-----------------------------------------------------------------------------
(* recvmsg_internal.                                                       *)

Recv(r, n, waitall, nonblock, peek) ==
  /\ any_reading
  /\ Enter(r, "recv_first",
           [NoCall EXCEPT !.count = n, !.waitall = waitall,
                          !.nonblock = nonblock, !.peek = peek])

\* Wait for the first segment.  Peeking at it removes nothing.
RecvFirst(r) ==
  /\ pc[r] = "recv_first"
  /\ \/ /\ buffer_used = 0 /\ ~any_writing
        /\ Return(r) /\ UNCHANGED <<ring, ends, pledges, conds>>
     \/ /\ buffer_used = 0 /\ any_writing /\ pledged_write > 0
        /\ YieldRead(r, "recv_first_yield")
     \/ /\ buffer_used = 0 /\ any_writing /\ pledged_write = 0
        /\ local[r].nonblock
        /\ Return(r) /\ UNCHANGED <<ring, ends, pledges, conds>>
     \/ /\ buffer_used = 0 /\ any_writing /\ pledged_write = 0
        /\ ~local[r].nonblock
        /\ WaitRead(r, "recv_first_wait")
     \/ /\ buffer_used > 0 /\ local[r].peek
        /\ Return(r) /\ UNCHANGED <<ring, ends, pledges, conds>>
     \/ /\ buffer_used > 0 /\ ~local[r].peek
        /\ Goto(r, "recv_ancillary",
                [local[r] EXCEPT !.normal = ReadBuffer(0).b,
                                 !.i = ReadBuffer(0).a])
        /\ UNCHANGED <<ring, ends, pledges, conds>>

RecvFirstResume(r) ==
  /\ Reenter(r, {"recv_first_yield", "recv_first_wait"})
  /\ pledged_read' = pledged_read - 1
  /\ \/ /\ local[r].interrupted
        /\ Return(r)
     \/ /\ ~local[r].interrupted
        /\ pipe_lock' = r
        /\ pc' = [pc EXCEPT ![r] = "recv_first"]
        /\ UNCHANGED local
  /\ UNCHANGED <<ring, ends, pledged_write, conds>>

\* Take the segment's control data, local[r].i cells of it.  If it cannot be
\* given to the caller it is dropped, and the call may fail.
RecvAncillary(r) ==
  /\ pc[r] = "recv_ancillary"
  /\ \/ /\ local[r].i > 0
        /\ Dequeue(1)
        /\ \/ Goto(r, "recv_ancillary", [local[r] EXCEPT !.i = @ - 1])
           \/ local[r].i = 1 /\ Return(r)
     \/ /\ local[r].i = 0
        /\ Goto(r, "recv_normal", local[r])
        /\ UNCHANGED <<ring, conds>>
  /\ UNCHANGED <<ends, pledges>>

\* The loop over the normal data: it goes on into what others add to the
\* depleted buffer.
RecvNormal(r) ==
  LET l == local[r]
      amount == Smaller(l.count, l.normal)
      depleted == l.count > 0 /\ l.normal = 0 /\ any_writing /\ buffer_used = 0
  IN /\ pc[r] = "recv_normal"
     /\ \/ /\ l.count > 0 /\ l.normal > 0
           /\ Dequeue(amount)
           /\ Goto(r, "recv_normal",
                   [l EXCEPT !.so_far = @ + amount, !.count = @ - amount,
                             !.normal = @ - amount])
           /\ UNCHANGED <<ends, pledges>>
        \/ /\ \/ l.count = 0
              \/ l.normal = 0 /\ (~any_writing \/ buffer_used > 0)
              \/ depleted /\ pledged_write = 0 /\ ~l.waitall /\ l.so_far > 0
           /\ Return(r) /\ UNCHANGED <<ring, ends, pledges, conds>>
        \/ /\ depleted /\ pledged_write > 0
           /\ YieldRead(r, "recv_normal_yield")
        \/ /\ depleted /\ pledged_write = 0 /\ (l.waitall \/ l.so_far = 0)
           /\ l.nonblock
           /\ Return(r) /\ UNCHANGED <<ring, ends, pledges, conds>>
        \/ /\ depleted /\ pledged_write = 0 /\ (l.waitall \/ l.so_far = 0)
           /\ ~l.nonblock
           /\ WaitRead(r, "recv_normal_wait")

\* Mutant: the header read before the wait is used after it.
RecvNormalResume_Crosses(r) ==
  /\ Reenter(r, {"recv_normal_yield", "recv_normal_wait"})
  /\ pledged_read' = pledged_read - 1
  /\ \/ /\ local[r].interrupted
        /\ Return(r)
     \/ /\ ~local[r].interrupted
        /\ pipe_lock' = r
        /\ pc' = [pc EXCEPT ![r] = "recv_normal"]
        /\ local' = [local EXCEPT ![r].normal =
                       IF buffer_used > 0 THEN ReadBuffer(0).b ELSE 0]
  /\ UNCHANGED <<ring, ends, pledged_write, conds>>

\* After a yield or a wait the header is read again, and data with control
\* data before it is left for another call.
RecvNormalResume(r) ==
  LET crosses == buffer_used > 0 /\ ReadBuffer(0).a > 0
  IN /\ Reenter(r, {"recv_normal_yield", "recv_normal_wait"})
     /\ pledged_read' = pledged_read - 1
     /\ \/ /\ local[r].interrupted \/ crosses
           /\ Return(r)
        \/ /\ ~local[r].interrupted /\ ~crosses
           /\ pipe_lock' = r
           /\ pc' = [pc EXCEPT ![r] = "recv_normal"]
           /\ local' = [local EXCEPT ![r].normal =
                          IF buffer_used > 0 THEN ReadBuffer(0).b ELSE 0]
     /\ UNCHANGED <<ring, ends, pledged_write, conds>>

-----------------------------------------------------------------------------
(* sendmsg_internal.                                                       *)

Send(w, n, fds, nonblock) ==
  /\ any_writing
  /\ sent + n <= MaxSent
  /\ Enter(w, "send_room",
           [NoCall EXCEPT !.count = n, !.fds = fds, !.nonblock = nonblock])

\* Room for one byte, and for the control data.
Required(fds) == IF fds > 0 THEN fds + 2 ELSE 1

NeedsHeader(fds) ==
  \/ last_header_position >= buffer_used
  \/ fds > 0 /\ ReadBuffer(last_header_position).b > 0

\* Mutant: the header is forgotten.
HasRoom_NoHeader(fds) == Required(fds) <= buffer_size - buffer_used

HasRoom(fds) ==
  Required(fds) + (IF NeedsHeader(fds) THEN 1 ELSE 0) <= buffer_size - buffer_used

\* Wait until all the control data and one byte fit.
SendRoom(w) ==
  LET l == local[w]
      stays == any_reading /\ Required(l.fds) <= buffer_size - 1
  IN /\ pc[w] = "send_room"
     /\ \/ /\ ~stays \/ (~HasRoom(l.fds) /\ l.nonblock)
           /\ Return(w) /\ UNCHANGED conds
        \/ /\ stays /\ HasRoom(l.fds)
           /\ Goto(w, IF l.fds > 0 THEN "send_cmsg" ELSE "send_normal",
                   [l EXCEPT !.need_header = NeedsHeader(l.fds)])
           /\ UNCHANGED conds
        \/ /\ stays /\ ~HasRoom(l.fds) /\ ~l.nonblock
           /\ Release(w, "send_room_wait", l)
           /\ write_cond' = write_cond \cup {w}
           /\ UNCHANGED <<read_cond, read_poll, write_poll>>
     /\ UNCHANGED <<ring, ends, pledges>>

SendRoomResume(w) ==
  /\ Reenter(w, {"send_room_wait"})
  /\ \/ /\ local[w].interrupted
        /\ Return(w)
     \/ /\ ~local[w].interrupted
        /\ pipe_lock' = w
        /\ pc' = [pc EXCEPT ![w] = "send_room"]
        /\ UNCHANGED local
  /\ UNCHANGED <<ring, ends, pledges, conds>>

\* Put the header of the control message.
SendCmsg(w) ==
  /\ pc[w] = "send_cmsg"
  /\ Enqueue(<<Cell("cmsg", local[w].fds, 0)>>, TRUE)
  /\ Goto(w, "send_fd", [local[w] EXCEPT !.need_header = FALSE,
                                         !.saved = last_header_position])
  /\ UNCHANGED <<sent, ends, pledges>>

\* Put the next descriptor; if it is not one or may not be passed, undo the
\* whole message.
SendFd(w) ==
  LET l == local[w]
  IN /\ pc[w] = "send_fd"
     /\ \/ /\ l.i < l.fds
           /\ Enqueue(<<Cell("fd", l.i + 1, 0)>>, TRUE)
           /\ Goto(w, "send_fd", [l EXCEPT !.i = @ + 1])
        \/ /\ l.i < l.fds
           /\ Goto(w, "send_undo", l)
           /\ UNCHANGED <<ring, conds>>
        \/ /\ l.i = l.fds
           /\ Goto(w, "send_normal", l)
           /\ UNCHANGED <<ring, conds>>
     /\ UNCHANGED <<sent, ends, pledges>>

\* Mutant: the header of the control message stays behind.
SendUndo_KeepsHeader(w) ==
  /\ pc[w] = "send_undo"
  /\ \/ /\ local[w].i > 0
        /\ Unenqueue(local[w].saved)
        /\ Goto(w, "send_undo", [local[w] EXCEPT !.i = @ - 1])
     \/ /\ local[w].i = 0
        /\ Return(w)
        /\ UNCHANGED <<ring, conds>>
  /\ UNCHANGED <<ends, pledges>>

\* Take back the descriptors and then the header of the control message.
SendUndo(w) ==
  /\ pc[w] = "send_undo"
  /\ Unenqueue(local[w].saved)
  /\ \/ /\ local[w].i > 0
        /\ Goto(w, "send_undo", [local[w] EXCEPT !.i = @ - 1])
     \/ /\ local[w].i = 0
        /\ Return(w)
  /\ UNCHANGED <<ends, pledges>>

Overhead(w) == IF local[w].need_header THEN 1 ELSE 0

\* The loop over the normal data.  With the buffer full it goes on only for
\* a reader that has pledged to read.
SendNormal(w) ==
  LET l == local[w]
      full == buffer_size - buffer_used <= Overhead(w)
      amount == Smaller(l.count, buffer_size - buffer_used - Overhead(w))
  IN /\ pc[w] = "send_normal"
     /\ \/ /\ \/ l.count = 0
              \/ ~any_reading
              \/ full /\ pledged_read = 0 /\ (l.so_far > 0 \/ l.nonblock)
           /\ Return(w) /\ UNCHANGED <<ring, pledges, conds>>
        \/ /\ l.count > 0 /\ any_reading /\ ~full
           /\ Enqueue([i \in 1..amount |-> Byte(sent + i)], FALSE)
           /\ sent' = sent + amount
           /\ Goto(w, "send_normal", [l EXCEPT !.so_far = @ + amount,
                                               !.count = @ - amount])
           /\ UNCHANGED pledges
        \/ /\ l.count > 0 /\ any_reading /\ full
           /\ pledged_read > 0 \/ (l.so_far = 0 /\ ~l.nonblock)
           /\ pledged_write' = pledged_write + 1
           /\ IF pledged_read > 0
              THEN /\ Release(w, "send_normal_yield", l)
                   /\ UNCHANGED conds
              ELSE /\ Release(w, "send_normal_wait", l)
                   /\ write_cond' = write_cond \cup {w}
                   /\ UNCHANGED <<read_cond, read_poll, write_poll>>
           /\ UNCHANGED <<ring, pledged_read>>
     /\ UNCHANGED ends

\* Mutant: the last pledge is not taken back.
SendNormalResume_KeepsPledge(w) ==
  /\ Reenter(w, {"send_normal_yield", "send_normal_wait"})
  /\ pipe_lock' = w
  /\ pc' = [pc EXCEPT ![w] = "send_normal"]
  /\ local' = [local EXCEPT ![w].need_header =
                  (last_header_position = buffer_used)]
  /\ pledged_write' = Larger(pledged_write - 1, 1)
  /\ UNCHANGED <<ring, ends, pledged_read, conds>>

SendNormalResume(w) ==
  /\ Reenter(w, {"send_normal_yield", "send_normal_wait"})
  /\ pledged_write' = pledged_write - 1
  /\ IF local[w].interrupted
     THEN Return(w)
     ELSE /\ pipe_lock' = w
          /\ pc' = [pc EXCEPT ![w] = "send_normal"]
          /\ local' = [local EXCEPT ![w].need_header =
                         (last_header_position = buffer_used)]
  /\ UNCHANGED <<ring, ends, pledged_read, conds>>

-----------------------------------------------------------------------------
(* Closing, resizing and polling.                                          *)

\* The end is closed when no thread uses it any more.
CloseReading ==
  /\ pipe_lock = NULL /\ any_reading
  /\ \A r \in Readers : pc[r] = "idle"
  /\ any_reading' = FALSE
  /\ write_cond' = {}
  /\ read_poll' = (read_poll /\ ~ReadPollEventStatus(buffer_used, any_writing))
  /\ write_poll' = FALSE
  /\ UNCHANGED <<ring, any_writing, pledges, read_cond, threads>>

CloseWriting ==
  /\ pipe_lock = NULL /\ any_writing
  /\ \A w \in Writers : pc[w] = "idle"
  /\ any_writing' = FALSE
  /\ read_cond' = {}
  /\ read_poll' = FALSE
  /\ write_poll' = (write_poll /\ ~WritePollEventStatus(buffer_used, buffer_size,
                                     last_header_position, any_reading))
  /\ UNCHANGED <<ring, any_reading, pledges, write_cond, threads>>

\* The new buffer starts where the data does.
WriteResize(new_size) ==
  LET size == Larger(Larger(new_size, 2), buffer_used)
  IN /\ pipe_lock = NULL /\ any_writing
     /\ size # buffer_size
     /\ buffer_size' = size
     /\ buffer' = [i \in 0..size - 1 |->
                    IF i < buffer_used THEN ReadBuffer(i) ELSE Free]
     /\ buffer_offset' = 0
     /\ UNCHANGED <<buffer_used, last_header_position, sent, ends, pledges,
                    conds, threads>>

\* A poll that finds nothing to report sleeps.
ReadPoll ==
  /\ pipe_lock = NULL /\ any_reading
  /\ ~ReadPollEventStatus(buffer_used, any_writing)
  /\ read_poll' = TRUE
  /\ UNCHANGED <<ring, ends, pledges, read_cond, write_cond, write_poll, threads>>

WritePoll ==
  /\ pipe_lock = NULL /\ any_writing
  /\ ~WritePollEventStatus(buffer_used, buffer_size, last_header_position,
                           any_reading)
  /\ write_poll' = TRUE
  /\ UNCHANGED <<ring, ends, pledges, read_cond, write_cond, read_poll, threads>>

RecvStep(r) ==
  \/ RecvFirst(r) \/ RecvFirstResume(r)
  \/ RecvAncillary(r)
  \/ RecvNormal(r) \/ RecvNormalResume(r)

SendStep(w) ==
  \/ SendRoom(w) \/ SendRoomResume(w)
  \/ SendCmsg(w) \/ SendFd(w) \/ SendUndo(w)
  \/ SendNormal(w) \/ SendNormalResume(w)

Next ==
  \/ \E r \in Readers :
       \/ \E n \in 1..MaxCount, waitall \in BOOLEAN,
            nonblock \in Nonblocking, peek \in Peeking :
            Recv(r, n, waitall, nonblock, peek)
       \/ RecvStep(r)
  \/ \E w \in Writers :
       \/ \E n \in 0..MaxCount, fds \in 0..MaxFds, nonblock \in Nonblocking :
            n + fds > 0 /\ Send(w, n, fds, nonblock)
       \/ SendStep(w)
  \/ \E t \in Threads : Interrupt(t)
  \/ CloseReading \/ CloseWriting
  \/ \E size \in Sizes : WriteResize(size)
  \/ ReadPoll \/ WritePoll

Spec == Init /\ [][Next]_vars

\* A thread in a call runs again, and one that waits for the lock gets it
\* some time: kthread_yield lets the thread run that pledged to go on.  The
\* reader receives again and again while its end is open.
FairSpec ==
  /\ Spec
  /\ \A r \in Readers : SF_vars(RecvStep(r))
  /\ \A w \in Writers : SF_vars(SendStep(w))
  /\ \A r \in Readers :
       SF_vars(\E n \in 1..MaxCount : Recv(r, n, FALSE, FALSE, FALSE))

-----------------------------------------------------------------------------
(* Properties.                                                             *)

Steps == {"idle", "recv_first", "recv_first_yield", "recv_first_wait",
          "recv_ancillary", "recv_normal", "recv_normal_yield",
          "recv_normal_wait", "send_room", "send_room_wait", "send_cmsg",
          "send_fd", "send_undo", "send_normal", "send_normal_yield",
          "send_normal_wait"}

TypeOK ==
  /\ buffer_size \in Nat \ {0}
  /\ buffer \in [0..buffer_size - 1 ->
                  [kind : {"free", "header", "cmsg", "fd", "byte"},
                   a : Nat, b : Nat]]
  /\ buffer_offset \in 0..buffer_size - 1
  /\ buffer_used \in 0..buffer_size
  /\ last_header_position \in 0..buffer_used
  /\ pledged_read \in Nat /\ pledged_write \in Nat
  /\ any_reading \in BOOLEAN /\ any_writing \in BOOLEAN
  /\ pipe_lock \in Threads \cup {NULL}
  /\ read_cond \subseteq Readers /\ write_cond \subseteq Writers
  /\ read_poll \in BOOLEAN /\ write_poll \in BOOLEAN
  /\ pc \in [Threads -> Steps]
  /\ sent \in Nat

\* The segments in the buffer, found by following the headers from the start.
Segments ==
  LET Part(p, n) == [k \in 1..n |-> ReadBuffer(p + k - 1)]
      Malformed == [ancillary |-> <<Free>>, normal |-> <<>>]
      from[p \in 0..buffer_used] ==
        LET header == ReadBuffer(p)
            end == p + 1 + header.a + header.b
            bytes == Part(p + 1 + header.a, header.b)
        IN IF p = buffer_used THEN <<>>
           ELSE IF header.kind # "header" \/ end > buffer_used THEN <<Malformed>>
           ELSE <<[ancillary |-> Part(p + 1, header.a),
                   normal |-> [k \in 1..header.b |-> bytes[k].a]]>> \o from[end]
  IN from[0]

Queue == INSTANCE SegmentQueue WITH segments <- Segments

\* The ring buffer is a queue of segments: whatever is sent, received, undone
\* and resized, and wherever headers and data wrap around, the headers cover
\* the buffer exactly, no byte is lost, duplicated or reordered, control data
\* stays in front of the data it was sent with, and last_header_position
\* leads to the segment that new data joins.
ImplementsSegmentQueue == Queue!Spec

\* A reader sleeps only while the buffer is empty and a writer is left, so no
\* broadcast of read_cond is missing.
ReadersAwake == read_cond # {} => buffer_used = 0 /\ any_writing

\* A writer sleeps only while what it sends does not fit and a reader is
\* left, whatever the readers took meanwhile and other writers undid.
WritersAwake ==
  \A w \in write_cond : any_reading /\ ~HasRoom(local[w].fds)

\* A poll sleeps only while its end has nothing to report.
PollsAwake ==
  /\ read_poll => ~ReadPollEventStatus(buffer_used, any_writing)
  /\ write_poll => ~WritePollEventStatus(buffer_used, buffer_size,
                                         last_header_position, any_reading)

\* Nobody sleeps who could go on: no reader, no writer and no poll, whatever
\* the other threads did between its test and its sleep.
ThreadsAwake == ReadersAwake /\ WritersAwake /\ PollsAwake

\* When poll reports POLLOUT, a byte can be sent without waiting.
PollTellsTruth ==
  any_reading /\ WritePollEventStatus(buffer_used, buffer_size,
                                      last_header_position, any_reading)
    => HasRoom(0)

\* recvmsg's copy of the segment header is still right when it takes normal
\* data, although it waits and yields in between: it never reads past the
\* segment or into control data.
HeaderFresh ==
  \A r \in Readers :
    pc[r] = "recv_normal" /\ local[r].normal > 0 =>
      buffer_used > 0 /\ ReadBuffer(0) = Header(0, local[r].normal)

\* "If the estimated of the required buffer space was accurate, it will
\* always have been possible to write at least one byte of data": sendmsg
\* never waits between its control data and its first byte.
FirstByteFits ==
  \A w \in Writers :
    pc[w] = "send_normal" /\ local[w].so_far = 0 /\ local[w].count > 0 =>
      buffer_size - buffer_used > Overhead(w)

\* What was counted on as room is there: for a poll that reported POLLOUT, for
\* the first byte after control data, and in the ring itself, whose offset,
\* use and last header stay within it however it is resized.
RoomExact == TypeOK /\ PollTellsTruth /\ FirstByteFits

\* "either none of them got sent or all of them": whenever the lock is free,
\* every control message in the buffer is followed by all its descriptors, and
\* every descriptor is one of a control message.
ControlWhole ==
  pipe_lock = NULL =>
    \A p \in 0..buffer_used - 1 :
      LET cell == ReadBuffer(p)
          cmsg == ReadBuffer(p - cell.a)
      IN /\ cell.kind = "cmsg" =>
              \A k \in 1..cell.a :
                p + k < buffer_used /\ ReadBuffer(p + k) = Cell("fd", k, 0)
         /\ cell.kind = "fd" =>
              cell.a <= p /\ cmsg.kind = "cmsg" /\ cell.a <= cmsg.a

\* A thread that yields for another's pledge does not spin forever: the
\* pledge is kept or taken back.
SpinEnds ==
  /\ \A r \in Readers :
       /\ pc[r] = "recv_first_yield" ~>
            pc[r] \notin {"recv_first", "recv_first_yield"}
       /\ pc[r] = "recv_normal_yield" ~>
            pc[r] \notin {"recv_normal", "recv_normal_yield"}
  /\ \A w \in Writers :
       pc[w] = "send_normal_yield" ~>
         pc[w] \notin {"send_normal", "send_normal_yield"}

\* While somebody receives, every call of sendmsg returns, however long it
\* had to wait for room.
SendReturns == \A w \in Writers : pc[w] # "idle" ~> pc[w] = "idle"

=============================================================================
