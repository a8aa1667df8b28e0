-------------------------- MODULE DescriptorTable --------------------------
(***************************************************************************)
(* A process's table of file descriptors (kernel/dtable.cpp) and the       *)
(* system calls that reserve entries before they make what goes in them    *)
(* (open, fsm_mount, pipe2, recvmsg).                                      *)
(*                                                                         *)
(* A critical section of dtablelock is one step.  Reserve and Unreserve do *)
(* not take the lock, although Enlargen, which Reserve calls, replaces the *)
(* table: they are several steps here, and the other threads' operations   *)
(* may come between them.                                                  *)
(***************************************************************************)
EXTENDS Integers, FiniteSets

CONSTANTS Threads,       \* the threads of the process
          Descs,         \* the open file descriptions
          NULL,          \* the entry has no description
          FirstLength,   \* the first length of a table (8 in the code)
          IntMax,        \* INT_MAX
          MaxReserve     \* bound: how many entries are reserved at a time

ASSUME TableAssumption ==
  /\ NULL \notin Descs
  /\ FirstLength \in Nat \ {0}
  /\ IntMax \in Nat /\ IntMax >= FirstLength
  /\ MaxReserve \in Nat

VARIABLES entries,          \* entries[i].desc; NULL from entries_length on
          flags,            \* entries[i].flags
          entries_used, entries_length, reserved_count, first_not_taken,
          reservation,      \* the reservation of each thread's system call
          pc,               \* where each thread is
          new_entries,      \* the local variables of Enlargen in Reserve:
          new_length,       \*   the new table and its length,
          copied,           \*   how many entries are in it already,
          count             \*   and how many entries Reserve reserves

table == <<entries, flags, entries_used, entries_length, reserved_count,
           first_not_taken>>
locals == <<reservation, pc, new_entries, new_length, copied, count>>
vars == <<table, locals>>

Indexes == 0..IntMax - 1
Flags == {"none", "FD_CLOEXEC", "FD_CLOFORK"}
Empty == [i \in Indexes |-> NULL]
Larger(a, b) == IF a < b THEN b ELSE a

Init ==
  /\ entries = Empty
  /\ flags = [i \in Indexes |-> "none"]
  /\ entries_used = 0
  /\ entries_length = 0
  /\ reserved_count = 0
  /\ first_not_taken = 0
  /\ reservation = [t \in Threads |-> 0]
  /\ pc = [t \in Threads |-> "idle"]
  /\ new_entries = [t \in Threads |-> Empty]
  /\ new_length = [t \in Threads |-> 0]
  /\ copied = [t \in Threads |-> 0]
  /\ count = [t \in Threads |-> 0]

IsGoodEntry(i) == i \in Indexes /\ i < entries_length /\ entries[i] # NULL

-----------------------------------------------------------------------------
(* Enlargen.                                                               *)

\* The entries needed, when the sum does not overflow.
Needed(need_entries, need_unused) ==
  Larger(need_entries, need_unused + entries_used + reserved_count)

CanEnlargen(need_unused) ==
  need_unused + entries_used + reserved_count <= IntMax

\* The length of the table afterwards; doubling stops at INT_MAX.
NewLength(need_entries, need_unused) ==
  LET need == Needed(need_entries, need_unused)
      double == IF entries_length = 0 THEN FirstLength
                ELSE IF 2 * entries_length > IntMax THEN IntMax
                ELSE 2 * entries_length
  IN IF need <= entries_length THEN entries_length ELSE Larger(double, need)

-----------------------------------------------------------------------------
(* Reserve and Unreserve, without the lock.                                *)

\* The end of Reserve: the assertions, and the reservation.
ReserveCount(t, n, used, length) ==
  IF reserved_count + n <= length - used
  THEN /\ reserved_count' = reserved_count + n
       /\ reservation' = [reservation EXCEPT ![t] = n]
       /\ pc' = [pc EXCEPT ![t] = "reserved"]
  ELSE /\ pc' = [pc EXCEPT ![t] = "assertion_failed"]
       /\ UNCHANGED <<reserved_count, reservation>>

\* Reserve, up to the allocation of a larger table.
Reserve(t) ==
  \E n \in 1..MaxReserve :
    /\ pc[t] = "idle"
    /\ CanEnlargen(n)
    /\ \/ /\ NewLength(0, n) = entries_length
          /\ ReserveCount(t, n, entries_used, entries_length)
          /\ UNCHANGED <<new_entries, new_length, copied, count>>
       \/ /\ NewLength(0, n) # entries_length
          /\ pc' = [pc EXCEPT ![t] = "copy"]
          /\ new_entries' = [new_entries EXCEPT ![t] = Empty]
          /\ new_length' = [new_length EXCEPT ![t] = NewLength(0, n)]
          /\ copied' = [copied EXCEPT ![t] = 0]
          /\ count' = [count EXCEPT ![t] = n]
          /\ UNCHANGED <<reserved_count, reservation>>
    /\ UNCHANGED <<entries, flags, entries_used, entries_length,
                   first_not_taken>>

\* One round of Enlargen's loop: move an entry to the new table.
ReserveCopy(t) ==
  /\ pc[t] = "copy"
  /\ copied[t] < entries_length
  /\ new_entries' = [new_entries EXCEPT ![t][copied[t]] = entries[copied[t]]]
  /\ entries' = [entries EXCEPT ![copied[t]] = NULL]
  /\ copied' = [copied EXCEPT ![t] = copied[t] + 1]
  /\ UNCHANGED <<flags, entries_used, entries_length, reserved_count,
                 first_not_taken, reservation, pc, new_length, count>>

\* Install the new table and finish Reserve.
ReservePublish(t) ==
  /\ pc[t] = "copy"
  /\ copied[t] >= entries_length
  /\ entries' = new_entries[t]
  /\ entries_length' = new_length[t]
  /\ ReserveCount(t, count[t], entries_used, new_length[t])
  /\ UNCHANGED <<flags, entries_used, first_not_taken, new_entries,
                 new_length, copied, count>>

\* Mutant: the reservation is forgotten and its entries are not given back.
Unreserve_Leaks(t) ==
  /\ pc[t] = "reserved"
  /\ reservation' = [reservation EXCEPT ![t] = 0]
  /\ pc' = [pc EXCEPT ![t] = "idle"]
  /\ UNCHANGED <<table, new_entries, new_length, copied, count>>

Unreserve(t) ==
  /\ pc[t] = "reserved"
  /\ reserved_count' = reserved_count - reservation[t]
  /\ reservation' = [reservation EXCEPT ![t] = 0]
  /\ pc' = [pc EXCEPT ![t] = "idle"]
  /\ UNCHANGED <<entries, flags, entries_used, entries_length,
                 first_not_taken, new_entries, new_length, copied, count>>

-----------------------------------------------------------------------------
(* Allocate.                                                               *)

\* Where AllocateInternal's loop stops: at the first entry without a
\* description from the larger of min_index and first_not_taken on.
Available(min_index) ==
  CHOOSE i \in Larger(min_index, first_not_taken)..IntMax :
    /\ i = IntMax \/ i >= entries_length \/ entries[i] = NULL
    /\ \A k \in Larger(min_index, first_not_taken)..i - 1 :
         k < entries_length /\ entries[k] # NULL

\* first_not_taken after the loop stopped at i.
SkipTaken(min_index, i) ==
  IF min_index <= first_not_taken THEN i ELSE first_not_taken

\* Mutant: first_not_taken moves although the search started beyond it.
Fill_SkipsAlways(t, i, desc, fl, min_index, length) ==
  /\ entries' = [entries EXCEPT ![i] = desc]
  /\ flags' = [flags EXCEPT ![i] = fl]
  /\ entries_used' = entries_used + 1
  /\ entries_length' = length
  /\ first_not_taken' = i + 1

\* Store the description in entry i.
Fill(t, i, desc, fl, min_index, length) ==
  /\ entries' = [entries EXCEPT ![i] = desc]
  /\ flags' = [flags EXCEPT ![i] = fl]
  /\ entries_used' = entries_used + 1
  /\ entries_length' = length
  /\ first_not_taken' = IF SkipTaken(min_index, i) = i THEN i + 1
                        ELSE first_not_taken

\* AllocateInternal without a reservation.  When it fails (no memory, no
\* more descriptors) only first_not_taken may have moved.
AllocateInternal(t, desc, fl, min_index) ==
  LET i == Available(min_index)
  IN /\ \/ /\ i < entries_length - reserved_count
           /\ Fill(t, i, desc, fl, min_index, entries_length)
        \/ /\ i >= entries_length - reserved_count
           /\ i < IntMax /\ CanEnlargen(1)
           /\ Fill(t, i, desc, fl, min_index, NewLength(i + 1, 1))
        \/ /\ i >= entries_length - reserved_count
           /\ i = IntMax \/ ~CanEnlargen(1) \/ NewLength(i + 1, 1) # entries_length
           /\ first_not_taken' = SkipTaken(min_index, i)
           /\ UNCHANGED <<entries, flags, entries_used, entries_length>>
     /\ UNCHANGED <<reserved_count, locals>>

\* AllocateInternal with a reservation, which it may not run out of.
AllocateReserved(t, desc, fl) ==
  LET i == Available(0)
  IN /\ pc[t] = "reserved" /\ reservation[t] >= 1
     /\ IF i < entries_length
        THEN /\ Fill(t, i, desc, fl, 0, entries_length)
             /\ reservation' = [reservation EXCEPT ![t] = @ - 1]
             /\ reserved_count' = reserved_count - 1
             /\ UNCHANGED pc
        ELSE /\ pc' = [pc EXCEPT ![t] = "assertion_failed"]
             /\ UNCHANGED <<table, reservation>>
     /\ UNCHANGED <<new_entries, new_length, copied, count>>

\* Allocate for a description made without a reservation (accept, socket).
Allocate(t, desc, fl) == pc[t] = "idle" /\ AllocateInternal(t, desc, fl, 0)

\* Allocate for a duplicate (fcntl F_DUPFD).
AllocateDup(t, src_index, fl, min_index) ==
  /\ pc[t] = "idle"
  /\ IsGoodEntry(src_index)
  /\ AllocateInternal(t, entries[src_index], fl, min_index)

-----------------------------------------------------------------------------
(* The other operations.                                                   *)

Copy(t, from, to, fl) ==
  /\ pc[t] = "idle"
  /\ IsGoodEntry(from)
  /\ from # to
  /\ entries_length' = IF IsGoodEntry(to) THEN entries_length
                       ELSE NewLength(to + 1, 1)
  /\ IsGoodEntry(to) \/ CanEnlargen(1)
  /\ entries' = [entries EXCEPT ![to] = entries[from]]
  /\ entries_used' = entries_used + (IF entries[to] = NULL THEN 1 ELSE 0)
  /\ flags' = [flags EXCEPT ![to] = fl]
  /\ first_not_taken' = IF first_not_taken = to THEN to + 1 ELSE first_not_taken
  /\ UNCHANGED <<reserved_count, locals>>

\* Mutant: first_not_taken stays behind.
FreeAll_KeepsFirst(S) ==
  /\ entries' = [i \in Indexes |-> IF i \in S THEN NULL ELSE entries[i]]
  /\ entries_used' = entries_used - Cardinality(S)
  /\ first_not_taken' = first_not_taken
  /\ UNCHANGED <<entries_length, reserved_count, locals>>

\* Close the entries of S, all of them good.
FreeAll(S) ==
  /\ entries' = [i \in Indexes |-> IF i \in S THEN NULL ELSE entries[i]]
  /\ entries_used' = entries_used - Cardinality(S)
  /\ first_not_taken' =
       CHOOSE m \in S \cup {first_not_taken} :
         \A i \in S \cup {first_not_taken} : m <= i
  /\ UNCHANGED <<entries_length, reserved_count, locals>>

ClearFlags(S) == flags' = [i \in Indexes |-> IF i \in S THEN "none" ELSE flags[i]]

FreeKeep(t, index) ==
  pc[t] = "idle" /\ IsGoodEntry(index) /\ FreeAll({index}) /\ ClearFlags({index})

CloseFrom(t, index) ==
  LET S == {i \in Indexes : index <= i /\ IsGoodEntry(i)}
  IN pc[t] = "idle" /\ FreeAll(S) /\ ClearFlags(S)

\* execve; an entry it closes keeps its flags.
OnExecute(t) ==
  /\ pc[t] = "idle"
  /\ FreeAll({i \in Indexes : IsGoodEntry(i) /\ flags[i] = "FD_CLOEXEC"})
  /\ UNCHANGED flags

SetFlags(t, index, fl) ==
  /\ pc[t] = "idle"
  /\ IsGoodEntry(index)
  /\ flags' = [flags EXCEPT ![index] = fl]
  /\ UNCHANGED <<entries, entries_used, entries_length, reserved_count,
                 first_not_taken, locals>>

\* fork; the model goes on in the child, which has only the calling thread.
Fork(t) ==
  LET kept == {i \in Indexes : IsGoodEntry(i) /\ flags[i] # "FD_CLOFORK"}
  IN /\ pc[t] = "idle"
     /\ entries' = [i \in Indexes |-> IF i \in kept THEN entries[i] ELSE NULL]
     /\ flags' = [i \in Indexes |-> IF i \in kept THEN flags[i] ELSE "none"]
     /\ entries_used' = Cardinality(kept)
     /\ first_not_taken' = CHOOSE i \in 0..entries_length :
                             /\ i \notin kept
                             /\ \A k \in 0..i - 1 : k \in kept
     /\ reserved_count' = 0
     /\ pc' = [u \in Threads |-> IF u = t THEN "idle" ELSE "gone"]
     /\ reservation' = [u \in Threads |-> 0]
     /\ UNCHANGED <<entries_length, new_entries, new_length, copied, count>>

Next ==
  \E t \in Threads :
    \/ Reserve(t) \/ ReserveCopy(t) \/ ReservePublish(t) \/ Unreserve(t)
    \/ \E d \in Descs, f \in Flags : AllocateReserved(t, d, f)
    \/ \E d \in Descs, f \in Flags : Allocate(t, d, f)
    \/ \E i, m \in Indexes, f \in Flags : AllocateDup(t, i, f, m)
    \/ \E i, k \in Indexes, f \in Flags : Copy(t, i, k, f)
    \/ \E i \in Indexes : FreeKeep(t, i)
    \/ \E i \in Indexes : CloseFrom(t, i)
    \/ \E i \in Indexes, f \in Flags : SetFlags(t, i, f)
    \/ OnExecute(t)
    \/ Fork(t)

Spec == Init /\ [][Next]_vars

-----------------------------------------------------------------------------
(* Properties.                                                             *)

TypeOK ==
  /\ entries \in [Indexes -> Descs \cup {NULL}]
  /\ flags \in [Indexes -> Flags]
  /\ entries_used \in 0..IntMax
  /\ entries_length \in 0..IntMax
  /\ reserved_count \in 0..IntMax
  /\ first_not_taken \in 0..entries_length
  /\ reservation \in [Threads -> 0..MaxReserve]
  /\ pc \in [Threads -> {"idle", "copy", "reserved", "assertion_failed", "gone"}]
  /\ new_entries \in [Threads -> [Indexes -> Descs \cup {NULL}]]
  /\ new_length \in [Threads -> 0..IntMax]
  /\ copied \in [Threads -> 0..IntMax]
  /\ count \in [Threads -> 0..MaxReserve]

Copying == \E t \in Threads : pc[t] = "copy"

\* The counters agree with the table whenever it is not being replaced:
\* entries_used counts the taken entries, none of them beyond the end, and
\* every entry below first_not_taken is taken, after any sequence of opens,
\* duplicates, closes, executes and forks.  The counters never leave the range
\* of an int, nor first_not_taken the table.
CountersExact ==
  /\ TypeOK
  /\ ~Copying =>
       /\ entries_used = Cardinality({i \in Indexes : entries[i] # NULL})
       /\ \A i \in Indexes : entries[i] # NULL => i < entries_length
       /\ \A i \in 0..first_not_taken - 1 : entries[i] # NULL

\* Every reservation is backed by a free entry, so that what was reserved can
\* be allocated: DescriptorTable::Reserve asserts
\* "reserved_count <= entries_length - entries_used".
ReservationBacked == reserved_count <= entries_length - entries_used

\* An allocation takes the lowest free descriptor from min_index on, whatever
\* first_not_taken remembers and however the table grows, up to INT_MAX.
AllocatesLowest ==
  [][\A t \in Threads, d \in Descs, f \in Flags, m \in Indexes :
       AllocateInternal(t, d, f, m) =>
         \A i \in Indexes : entries'[i] # entries[i] =>
           /\ m <= i /\ entries[i] = NULL
           /\ \A k \in m..i - 1 : entries[k] # NULL]_vars

\* Nobody else changes the table while Enlargen moves it to new memory:
\* Enlargen is marked "dtablelock taken".
EnlargenExcludes ==
  [][\A t \in Threads :
       pc[t] = "copy" /\ pc'[t] = "copy" /\ copied'[t] = copied[t] =>
         UNCHANGED table]_vars

=============================================================================
