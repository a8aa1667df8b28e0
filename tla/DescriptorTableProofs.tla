----------------------- MODULE DescriptorTableProofs -----------------------
(***************************************************************************)
(* Proofs about DescriptorTable for a process with one thread and tables   *)
(* of every length, up to INT_MAX.  With a second thread the properties do *)
(* not hold: Reserve replaces the table without the lock.                  *)
(***************************************************************************)
EXTENDS DescriptorTable, FiniteSetTheorems, WellFoundedInduction, TLAPS

-----------------------------------------------------------------------------
(* The inductive invariant, of the only thread t.                          *)

\* The table as one function, also while Reserve moves it: the entries that
\* were moved are in the new table.
Whole(t) ==
  [i \in Indexes |-> IF pc[t] = "copy" /\ i < copied[t] THEN new_entries[t][i]
                     ELSE entries[i]]

TakenIn(e) == {i \in Indexes : e[i] # NULL}

\* The counters agree with the table e.
Counts(e, used, length, first) ==
  /\ used = Cardinality(TakenIn(e))
  /\ \A i \in Indexes : e[i] # NULL => i < length
  /\ \A i \in 0..first - 1 : e[i] # NULL

\* What was not moved yet is not in the new table, which has room for what is
\* going to be reserved.
Moving(t) ==
  pc[t] = "copy" =>
    /\ copied[t] <= entries_length /\ entries_length < new_length[t]
    /\ \A i \in Indexes : copied[t] <= i => new_entries[t][i] = NULL
    /\ count[t] + entries_used <= new_length[t]

\* Only the thread's own reservation counts.
Reserved(t) ==
  /\ reserved_count = IF pc[t] = "reserved" THEN reservation[t] ELSE 0
  /\ reserved_count <= entries_length - entries_used

TableInv(t) ==
  /\ TypeOK
  /\ pc[t] \in {"idle", "copy", "reserved"}
  /\ Counts(Whole(t), entries_used, entries_length, first_not_taken)
  /\ Moving(t)
  /\ Reserved(t)

-----------------------------------------------------------------------------
(* Minima.                                                                 *)

LEMMA Minimum ==
  ASSUME NEW S \in SUBSET Nat, S # {}
  PROVE  \E m \in S : \A i \in S : m <= i
<1>1. \E m \in S : \A i \in S : ~(<<i, m>> \in OpToRel(<, Nat))
  BY Zenon, NatLessThanWellFounded, WFMin
<1>2. PICK m \in S : \A i \in S : ~(<<i, m>> \in OpToRel(<, Nat))
  BY Zenon, <1>1
<1>3. \A i \in S : ~(i < m)
  BY Zenon, <1>2 DEF OpToRel
<1> QED
  BY <1>3

-----------------------------------------------------------------------------
(* The operators of the table.                                             *)

LEMMA IndexFacts ==
  /\ IntMax \in Nat \ {0} /\ 0 \in Indexes
  /\ Indexes \subseteq Nat /\ \A i \in Indexes : i < IntMax
  /\ IsFiniteSet(Indexes) /\ Cardinality(Indexes) = IntMax
<1>1. IntMax \in Nat \ {0}
  BY TableAssumption
<1>2. IsFiniteSet(Indexes) /\ Cardinality(Indexes) = IntMax
  <2>1. 0 \in Int /\ IntMax - 1 \in Int /\ ~(0 > IntMax - 1) /\ (IntMax - 1) - 0 + 1 = IntMax
    BY <1>1
  <2> QED
    BY Zenon, <2>1, FS_Interval DEF Indexes
<1> QED
  BY <1>1, <1>2 DEF Indexes

\* An int counter of the table may be zero.
LEMMA ZeroFits == 0 \in 0..IntMax
<1>1. IntMax \in Nat
  BY Zenon, IndexFacts
<1> QED
  BY <1>1

\* A table that is not overfull has a natural number of spare entries.
LEMMA SpareFits ==
  ASSUME NEW used \in Nat, NEW length \in Nat, used <= length
  PROVE  0 <= length - used
OBVIOUS

\* A table has no more taken entries than its length.
LEMMA CountsFit ==
  ASSUME NEW e, NEW used, NEW length \in 0..IntMax, NEW first, Counts(e, used, length, first)
  PROVE  /\ IsFiniteSet(TakenIn(e)) /\ used \in 0..IntMax /\ used <= length
         /\ used < length => \E i \in Indexes : i < length /\ e[i] = NULL
<1>1. IsFiniteSet(TakenIn(e)) /\ Cardinality(TakenIn(e)) \in Nat
  <2>1. TakenIn(e) \in SUBSET Indexes
    BY Zenon DEF TakenIn
  <2> QED
    BY Zenon, <2>1, IndexFacts, FS_Subset, FS_CardinalityType
<1>2. /\ IsFiniteSet(0..length - 1) /\ Cardinality(0..length - 1) = length
  <2>1. /\ 0 \in Int /\ length - 1 \in Int
        /\ (IF 0 > length - 1 THEN 0 ELSE (length - 1) - 0 + 1) = length
    BY IndexFacts
  <2> QED
    BY Zenon, <2>1, FS_Interval
<1>3. TakenIn(e) \in SUBSET (0..length - 1)
  <2> SUFFICES ASSUME NEW i \in Indexes, e[i] # NULL PROVE i \in 0..length - 1
    BY Zenon DEF TakenIn
  <2>1. i \in Nat /\ length \in Nat /\ i < length
    BY IndexFacts DEF Counts
  <2> QED
    BY <2>1
<1>4. /\ Cardinality(TakenIn(e)) <= length
      /\ length = Cardinality(TakenIn(e)) => 0..length - 1 = TakenIn(e)
  BY ZenonT(30), <1>2, <1>3, FS_Subset
<1>5. ASSUME used < length PROVE \E i \in Indexes : i < length /\ e[i] = NULL
  <2>1. SUFFICES ASSUME \A i \in Indexes : i < length => e[i] # NULL PROVE FALSE
    BY Zenon
  <2>2. 0..length - 1 \in SUBSET TakenIn(e)
    BY <2>1, IndexFacts DEF TakenIn, Indexes
  <2>3. Cardinality(0..length - 1) <= Cardinality(TakenIn(e))
    BY Zenon, <1>1, <2>2, FS_Subset
  <2> QED
    BY <1>1, <1>2, <1>5, <2>3 DEF Counts
<1> QED
  BY <1>1, <1>4, <1>5, IndexFacts DEF Counts

\* Storing a description in an entry.
LEMMA CountsStore ==
  ASSUME NEW e \in [Indexes -> Descs \cup {NULL}], NEW used, NEW length \in 0..IntMax,
         NEW first \in 0..length, Counts(e, used, length, first),
         NEW i \in Indexes, NEW d \in Descs, NEW length2 \in 0..IntMax, NEW first2 \in Nat,
         length <= length2, i < length2,
         \/ first2 = first
         \/ first2 = i + 1 /\ \A k \in first..i - 1 : e[k] # NULL
  PROVE  Counts([e EXCEPT ![i] = d], used + (IF e[i] = NULL THEN 1 ELSE 0), length2, first2)
<1> DEFINE f == [e EXCEPT ![i] = d]
<1>1. /\ d # NULL /\ f[i] = d
      /\ \A k \in Indexes : k # i => f[k] = e[k]
  BY Zenon, TableAssumption
<1>2. TakenIn(f) = TakenIn(e) \cup {i} /\ (i \in TakenIn(e) <=> e[i] # NULL)
  BY Zenon, <1>1 DEF TakenIn
<1> HIDE DEF f
<1>3. IsFiniteSet(TakenIn(e)) /\ used = Cardinality(TakenIn(e)) /\ used \in Nat
  <2>1. IsFiniteSet(TakenIn(e)) /\ used \in 0..IntMax
    BY Zenon, CountsFit
  <2> QED
    BY <2>1, IndexFacts DEF Counts
<1>4. Cardinality(TakenIn(f)) = used + (IF e[i] = NULL THEN 1 ELSE 0)
  <2>1. Cardinality(TakenIn(e) \cup {i}) =
          IF i \in TakenIn(e) THEN Cardinality(TakenIn(e)) ELSE Cardinality(TakenIn(e)) + 1
    BY Zenon, <1>3, FS_AddElement
  <2> QED
    BY <1>2, <1>3, <2>1
<1>5. \A k \in Indexes : f[k] # NULL => k < length2
  BY <1>1, IndexFacts DEF Counts
<1>6. \A k \in 0..first2 - 1 : f[k] # NULL
  <2> SUFFICES ASSUME NEW k \in 0..first2 - 1, k # i PROVE e[k] # NULL /\ k \in Indexes
    BY Zenon, <1>1
  <2>1. i \in Nat /\ first \in Nat /\ first <= IntMax /\ IntMax \in Nat /\ i < IntMax
    BY IndexFacts
  <2>2. k \in Indexes /\ (k < first \/ k \in first..i - 1)
    BY <2>1 DEF Indexes
  <2> QED
    BY <2>1, <2>2 DEF Counts
<1> QED
  BY Zenon, <1>4, <1>5, <1>6 DEF Counts, f

\* Closing the entries of a set.
LEMMA CountsFree ==
  ASSUME NEW e \in [Indexes -> Descs \cup {NULL}], NEW used, NEW length \in 0..IntMax,
         NEW first \in 0..length, Counts(e, used, length, first),
         NEW S \in SUBSET TakenIn(e), NEW first2 \in Nat,
         first2 <= first, \A i \in S : first2 <= i
  PROVE  Counts([i \in Indexes |-> IF i \in S THEN NULL ELSE e[i]],
                used - Cardinality(S), length, first2)
<1> DEFINE f == [i \in Indexes |-> IF i \in S THEN NULL ELSE e[i]]
<1>1. IsFiniteSet(TakenIn(e)) /\ used = Cardinality(TakenIn(e))
  BY Zenon, CountsFit DEF Counts
<1>2. TakenIn(f) = TakenIn(e) \ S /\ TakenIn(e) \cap S = S
  BY Zenon DEF TakenIn
<1>3. Cardinality(TakenIn(f)) = used - Cardinality(S)
  <2>1. Cardinality(TakenIn(e) \ S) =
          Cardinality(TakenIn(e)) - Cardinality(TakenIn(e) \cap S)
    BY Zenon, <1>1, FS_Difference
  <2> QED
    BY Zenon, <1>1, <1>2, <2>1
<1>4. \A i \in Indexes : f[i] # NULL => i < length
  BY Zenon DEF Counts
<1>5. \A i \in 0..first2 - 1 : f[i] # NULL
  <2> SUFFICES ASSUME NEW i \in 0..first2 - 1 PROVE i \in Indexes /\ i \notin S /\ e[i] # NULL
    BY Zenon
  <2>1. first \in Nat /\ first <= IntMax /\ IntMax \in Nat /\ S \subseteq Nat
    BY IndexFacts DEF TakenIn
  <2> QED
    BY <2>1 DEF Indexes, Counts
<1> HIDE DEF f
<1> QED
  BY Zenon, <1>3, <1>4, <1>5 DEF Counts, f

\* Enlargen makes the table as long as it has to be and no longer than INT_MAX.
LEMMA NewLengthFacts ==
  ASSUME TypeOK, NEW need_entries \in 0..IntMax, NEW need_unused \in Nat,
         CanEnlargen(need_unused)
  PROVE  LET length == NewLength(need_entries, need_unused)
         IN /\ length \in 0..IntMax
            /\ entries_length <= length /\ need_entries <= length
            /\ need_unused + entries_used + reserved_count <= length
<1>1. /\ entries_used \in Nat /\ entries_length \in Nat /\ reserved_count \in Nat
      /\ entries_length <= IntMax /\ need_entries \in Nat /\ need_entries <= IntMax
      /\ IntMax \in Nat /\ FirstLength \in Nat /\ FirstLength <= IntMax
  BY IndexFacts, TableAssumption DEF TypeOK
<1>2. PICK need : need = Needed(need_entries, need_unused)
  BY Zenon
<1>3. /\ need \in Nat /\ need <= IntMax /\ need_entries <= need
      /\ need_unused + entries_used + reserved_count <= need
  BY <1>1, <1>2 DEF CanEnlargen, Needed, Larger
<1>4. CASE need <= entries_length
  BY <1>1, <1>2, <1>3, <1>4 DEF NewLength
<1>5. CASE ~(need <= entries_length)
  BY <1>1, <1>2, <1>3, <1>5 DEF NewLength, Larger
<1> QED
  BY Zenon, <1>4, <1>5

\* The loop of AllocateInternal stops.
LEMMA AvailableFacts ==
  ASSUME TypeOK, NEW min_index \in Indexes
  PROVE  LET i == Available(min_index)
         IN /\ i \in Larger(min_index, first_not_taken)..IntMax
            /\ i = IntMax \/ i >= entries_length \/ entries[i] = NULL
            /\ \A k \in Larger(min_index, first_not_taken)..i - 1 :
                 k < entries_length /\ entries[k] # NULL
<1> DEFINE L == Larger(min_index, first_not_taken)
           Stops(i) == i = IntMax \/ i >= entries_length \/ entries[i] = NULL
           S == {i \in L..IntMax : Stops(i)}
<1>1. L \in Nat /\ L <= IntMax /\ IntMax \in Nat /\ entries_length \in Nat
  BY IndexFacts DEF TypeOK, Larger
<1> HIDE DEF L
<1>2. S \in SUBSET Nat /\ IntMax \in S
  BY <1>1
<1>3. PICK m \in S : \A i \in S : m <= i
  BY Zenon, <1>2, Minimum
<1>4. \A k \in L..m - 1 : k < entries_length /\ entries[k] # NULL
  BY <1>1, <1>3
<1>5. \E i \in L..IntMax :
         /\ i = IntMax \/ i >= entries_length \/ entries[i] = NULL
         /\ \A k \in L..i - 1 : k < entries_length /\ entries[k] # NULL
  BY Zenon, <1>3, <1>4
<1> QED
  BY Zenon, <1>5 DEF Available, L

-----------------------------------------------------------------------------
(* The steps.                                                              *)

\* A table that is not being moved is all there is.
LEMMA Settled ==
  ASSUME NEW t \in Threads, TypeOK, pc[t] # "copy"
  PROVE  Whole(t) = entries
BY Zenon DEF TypeOK, Whole

\* What is left to show for a step that ends with the table in place.
LEMMA SettledKeeps ==
  ASSUME NEW t \in Threads, TypeOK', pc'[t] \in {"idle", "reserved"},
         Counts(entries', entries_used', entries_length', first_not_taken'),
         Reserved(t)'
  PROVE  TableInv(t)'
<1>1. Whole(t)' = entries'
  BY Zenon DEF TypeOK, Whole
<1>2. Moving(t)'
  BY Zenon DEF Moving
<1>3. Counts(Whole(t), entries_used, entries_length, first_not_taken)'
  BY Zenon, <1>1 DEF Counts, TakenIn
<1> QED
  BY Zenon, <1>2, <1>3 DEF TableInv

\* While nothing is reserved, any table with exact counters will do.
LEMMA IdleKeeps ==
  ASSUME NEW t \in Threads, TypeOK, pc[t] = "idle", Reserved(t),
         UNCHANGED <<reserved_count, locals>>,
         entries' \in [Indexes -> Descs \cup {NULL}], flags' \in [Indexes -> Flags],
         entries_length' \in 0..IntMax, first_not_taken' \in 0..entries_length',
         Counts(entries', entries_used', entries_length', first_not_taken')
  PROVE  TableInv(t)'
<1>1. entries_used' \in 0..IntMax /\ entries_used' <= entries_length'
  BY Zenon, CountsFit
<1>2. TypeOK'
  BY Zenon, <1>1 DEF TypeOK, locals
<1>3. Reserved(t)'
  <2>1. reserved_count' = 0 /\ pc'[t] = "idle"
    BY Zenon DEF Reserved, locals
  <2>2. entries_used' \in Nat /\ entries_length' \in Nat
    BY <1>1, IndexFacts
  <2>3. 0 <= entries_length' - entries_used'
    BY Zenon, <1>1, <2>2, SpareFits
  <2> QED
    BY Zenon, <2>1, <2>3 DEF Reserved
<1> QED
  BY Zenon, <1>2, <1>3, SettledKeeps DEF locals

LEMMA ReserveKeeps ==
  ASSUME NEW t \in Threads, TableInv(t), Reserve(t)
  PROVE  TableInv(t)'
<1> USE DEF TableInv
<1>1. PICK n \in 1..MaxReserve :
        /\ pc[t] = "idle"
        /\ CanEnlargen(n)
        /\ \/ /\ NewLength(0, n) = entries_length
              /\ ReserveCount(t, n, entries_used, entries_length)
              /\ UNCHANGED <<new_entries, new_length, copied, count>>
           \/ /\ NewLength(0, n) # entries_length
              /\ pc' = [pc EXCEPT ![t] = "copy"]
              /\ new_entries' = [new_entries EXCEPT ![t] = Empty]
              /\ new_length' = [new_length EXCEPT ![t] = NewLength(0, n)]
              /\ copied' = [copied EXCEPT ![t] = 0]
              /\ count' = [count EXCEPT ![t] = n]
              /\ UNCHANGED <<reserved_count, reservation>>
        /\ UNCHANGED <<entries, flags, entries_used, entries_length, first_not_taken>>
  BY Zenon DEF Reserve
<1>2. /\ MaxReserve \in Nat /\ IntMax \in Nat /\ n \in Nat
      /\ entries_used \in Nat /\ entries_length \in Nat /\ reserved_count = 0
  BY <1>1, IndexFacts, TableAssumption DEF TypeOK, Reserved
<1>3. /\ NewLength(0, n) \in 0..IntMax /\ entries_length <= NewLength(0, n)
      /\ n + entries_used <= NewLength(0, n)
  <2>1. /\ NewLength(0, n) \in 0..IntMax /\ entries_length <= NewLength(0, n)
        /\ n + entries_used + reserved_count <= NewLength(0, n)
    <3>1. 0 \in 0..IntMax
      BY <1>2
    <3> QED
      BY Zenon, <1>1, <1>2, <3>1, NewLengthFacts
  <2> QED
    BY <1>2, <2>1
<1>4. Counts(entries, entries_used, entries_length, first_not_taken)
  BY Zenon, <1>1, Settled
<1>5. CASE NewLength(0, n) = entries_length
  <2>1. reserved_count + n <= entries_length - entries_used
    BY <1>2, <1>3, <1>5
  <2>2. /\ reserved_count' = n /\ n <= entries_length - entries_used
        /\ reservation' = [reservation EXCEPT ![t] = n]
        /\ pc' = [pc EXCEPT ![t] = "reserved"]
        /\ UNCHANGED <<new_entries, new_length, copied, count>>
    BY <1>1, <1>2, <1>5, <2>1 DEF ReserveCount
  <2>3. TypeOK'
    <3>1. n \in 0..IntMax /\ n \in 0..MaxReserve
      BY <1>2, <1>3
    <3> QED
      BY Zenon, <1>1, <2>2, <3>1 DEF TypeOK
  <2>4. Reserved(t)' /\ pc'[t] = "reserved"
    BY Zenon, <1>1, <2>2 DEF Reserved, TypeOK
  <2> QED
    BY Zenon, <1>1, <1>4, <2>3, <2>4, SettledKeeps
<1>6. CASE NewLength(0, n) # entries_length
  <2>1. /\ pc' = [pc EXCEPT ![t] = "copy"]
        /\ new_entries' = [new_entries EXCEPT ![t] = Empty]
        /\ new_length' = [new_length EXCEPT ![t] = NewLength(0, n)]
        /\ copied' = [copied EXCEPT ![t] = 0]
        /\ count' = [count EXCEPT ![t] = n]
        /\ UNCHANGED <<reserved_count, reservation>>
    BY Zenon, <1>1, <1>6
  <2>2. TypeOK'
    <3>1. Empty \in [Indexes -> Descs \cup {NULL}] /\ n \in 0..MaxReserve /\ 0 \in 0..IntMax
      BY <1>2 DEF Empty
    <3> QED
      BY Zenon, <1>1, <1>3, <2>1, <3>1 DEF TypeOK
  <2>3. Whole(t)' = entries
    BY <1>1, <2>1, IndexFacts DEF Whole, TypeOK
  <2>4. Counts(Whole(t), entries_used, entries_length, first_not_taken)'
    BY Zenon, <1>1, <1>4, <2>3 DEF Counts, TakenIn
  <2>5. Moving(t)'
    <3>1. /\ new_length'[t] = NewLength(0, n) /\ copied'[t] = 0 /\ count'[t] = n
          /\ new_entries'[t] = Empty
      BY Zenon, <2>1 DEF TypeOK
    <3>2. entries_length < NewLength(0, n)
      BY <1>2, <1>3, <1>6
    <3> QED
      BY <1>1, <1>2, <1>3, <3>1, <3>2 DEF Moving, Empty
  <2>6. Reserved(t)' /\ pc'[t] = "copy"
    BY Zenon, <1>1, <2>1 DEF Reserved, TypeOK
  <2> QED
    BY Zenon, <2>2, <2>4, <2>5, <2>6
<1> QED
  BY Zenon, <1>5, <1>6

LEMMA ReserveCopyKeeps ==
  ASSUME NEW t \in Threads, TableInv(t), ReserveCopy(t)
  PROVE  TableInv(t)'
<1> USE DEF TableInv
<1>1. PICK c \in Nat : c = copied[t]
  BY IndexFacts DEF TypeOK
<1>2. /\ pc[t] = "copy" /\ c < entries_length
      /\ new_entries' = [new_entries EXCEPT ![t][c] = entries[c]]
      /\ entries' = [entries EXCEPT ![c] = NULL]
      /\ copied' = [copied EXCEPT ![t] = c + 1]
      /\ UNCHANGED <<flags, entries_used, entries_length, reserved_count,
                     first_not_taken, reservation, pc, new_length, count>>
  BY Zenon, <1>1 DEF ReserveCopy
<1>3. /\ c \in Indexes /\ c + 1 \in 0..IntMax /\ c + 1 <= entries_length
      /\ entries_length \in Nat
  BY SMTT(30), <1>1, <1>2, IndexFacts DEF TypeOK, Indexes
<1>4. /\ new_entries' \in [Threads -> [Indexes -> Descs \cup {NULL}]]
      /\ new_entries'[t] = [new_entries[t] EXCEPT ![c] = entries[c]]
  BY Zenon, <1>2, <1>3 DEF TypeOK
<1>5. TypeOK'
  BY Zenon, <1>2, <1>3, <1>4 DEF TypeOK
<1>6. Whole(t)' = Whole(t)
  <2>1. \A i \in Indexes : i < c + 1 <=> i < c \/ i = c
    BY <1>1, IndexFacts
  <2>2. copied'[t] = c + 1
    BY Zenon, <1>2 DEF TypeOK
  <2>3. ASSUME NEW i \in Indexes
        PROVE  (IF i < c + 1 THEN new_entries'[t][i] ELSE entries'[i]) =
                 (IF i < c THEN new_entries[t][i] ELSE entries[i])
    <3>1. CASE i = c
      BY <1>1, <1>2, <1>3, <1>4, <2>1, <3>1 DEF TypeOK
    <3>2. CASE i # c
      BY Zenon, <1>2, <1>3, <1>4, <2>1, <3>2 DEF TypeOK
    <3> QED
      BY Zenon, <3>1, <3>2
  <2> QED
    BY Zenon, <1>1, <1>2, <2>2, <2>3 DEF Whole
<1>7. Counts(Whole(t), entries_used, entries_length, first_not_taken)'
  BY Zenon, <1>2, <1>6 DEF Counts, TakenIn
<1>8. Moving(t)'
  <2>1. copied'[t] = c + 1
    BY Zenon, <1>2 DEF TypeOK
  <2>2. \A i \in Indexes : c + 1 <= i => c <= i /\ i # c
    BY <1>1, IndexFacts
  <2>3. \A i \in Indexes : c + 1 <= i => new_entries'[t][i] = NULL
    BY <1>1, <1>2, <1>4, <2>2 DEF Moving, TypeOK
  <2> QED
    BY Zenon, <1>2, <1>3, <2>1, <2>3 DEF Moving
<1>9. Reserved(t)'
  BY Zenon, <1>2 DEF Reserved
<1> QED
  BY Zenon, <1>2, <1>5, <1>7, <1>8, <1>9

LEMMA ReservePublishKeeps ==
  ASSUME NEW t \in Threads, TableInv(t), ReservePublish(t)
  PROVE  TableInv(t)'
<1> USE DEF TableInv
<1>1. /\ pc[t] = "copy" /\ copied[t] >= entries_length
      /\ entries' = new_entries[t] /\ entries_length' = new_length[t]
      /\ ReserveCount(t, count[t], entries_used, new_length[t])
      /\ UNCHANGED <<flags, entries_used, first_not_taken, new_entries, new_length,
                     copied, count>>
  BY Zenon DEF ReservePublish
<1>2. /\ copied[t] \in Nat /\ entries_length \in Nat /\ new_length[t] \in 0..IntMax
      /\ new_length[t] \in Nat /\ count[t] \in Nat /\ entries_used \in Nat
      /\ first_not_taken \in Nat /\ first_not_taken <= entries_length
  BY IndexFacts, TableAssumption DEF TypeOK
<1>3. /\ copied[t] = entries_length /\ entries_length < new_length[t]
      /\ count[t] + entries_used <= new_length[t] /\ reserved_count = 0
  BY <1>1, <1>2 DEF Moving, Reserved
<1>4. Whole(t) = new_entries[t]
  <2>1. ASSUME NEW i \in Indexes, ~(i < copied[t]) PROVE entries[i] = new_entries[t][i]
    <3>1. entries[i] = NULL
      BY Zenon, <1>1, <1>2, <1>3, <2>1 DEF Counts, Whole, TypeOK
    <3>2. new_entries[t][i] = NULL
      BY <1>1, <1>2, <2>1, IndexFacts DEF Moving
    <3> QED
      BY Zenon, <3>1, <3>2
  <2> QED
    BY Zenon, <1>1, <2>1 DEF Whole, TypeOK
<1>5. Counts(entries', entries_used', entries_length', first_not_taken')
  <2>1. Counts(new_entries[t], entries_used, entries_length, first_not_taken)
    BY Zenon, <1>4
  <2>2. \A i \in Indexes : i < entries_length => i < new_length[t]
    BY <1>2, <1>3, IndexFacts
  <2> QED
    BY Zenon, <1>1, <2>1, <2>2 DEF Counts
<1>6. /\ reserved_count' = count[t] /\ count[t] <= new_length[t] - entries_used
      /\ reservation' = [reservation EXCEPT ![t] = count[t]]
      /\ pc' = [pc EXCEPT ![t] = "reserved"]
  <2>1. count[t] <= new_length[t] - entries_used /\ reserved_count + count[t] = count[t]
    BY <1>2, <1>3
  <2> QED
    BY Zenon, <1>1, <2>1 DEF ReserveCount
<1>7. TypeOK'
  <2>1. first_not_taken \in 0..new_length[t] /\ count[t] \in 0..IntMax
    BY <1>2, <1>3, IndexFacts
  <2> QED
    BY Zenon, <1>1, <1>2, <1>6, <2>1 DEF TypeOK
<1>8. Reserved(t)' /\ pc'[t] = "reserved"
  BY Zenon, <1>1, <1>6 DEF Reserved, TypeOK
<1> QED
  BY Zenon, <1>5, <1>7, <1>8, SettledKeeps

LEMMA UnreserveKeeps ==
  ASSUME NEW t \in Threads, TableInv(t), Unreserve(t)
  PROVE  TableInv(t)'
<1> USE DEF TableInv
<1>1. /\ pc[t] = "reserved" /\ reserved_count' = reserved_count - reservation[t]
      /\ reservation' = [reservation EXCEPT ![t] = 0]
      /\ pc' = [pc EXCEPT ![t] = "idle"]
      /\ UNCHANGED <<entries, flags, entries_used, entries_length, first_not_taken,
                     new_entries, new_length, copied, count>>
  BY Zenon DEF Unreserve
<1>2. /\ reserved_count' = 0 /\ entries_used \in Nat /\ entries_length \in Nat
      /\ reserved_count \in Nat /\ 0 \in 0..IntMax /\ 0 \in 0..MaxReserve
  BY <1>1, IndexFacts, TableAssumption DEF Reserved, TypeOK
<1>3. TypeOK'
  BY Zenon, <1>1, <1>2 DEF TypeOK
<1>4. Reserved(t)' /\ pc'[t] = "idle"
  <2>1. 0 <= entries_length - entries_used
    BY <1>2 DEF Reserved
  <2> QED
    BY Zenon, <1>1, <1>2, <2>1 DEF Reserved, TypeOK
<1>5. Counts(entries, entries_used, entries_length, first_not_taken)
  BY Zenon, <1>1, Settled
<1> QED
  BY Zenon, <1>1, <1>3, <1>4, <1>5, SettledKeeps

\* The entry AllocateInternal finds is free, and everything is taken from
\* first_not_taken up to it when the search began there.
LEMMA FoundFacts ==
  ASSUME TypeOK, Counts(entries, entries_used, entries_length, first_not_taken),
         NEW min_index \in Indexes, NEW i, i = Available(min_index)
  PROVE  /\ i \in Nat /\ i <= IntMax /\ min_index <= i /\ first_not_taken <= i
         /\ i < IntMax => i \in Indexes /\ entries[i] = NULL
         /\ \A k \in Indexes : min_index <= k /\ k < i => entries[k] # NULL
         /\ min_index <= first_not_taken =>
              /\ i <= entries_length
              /\ \A k \in first_not_taken..i - 1 : entries[k] # NULL
         /\ ~(min_index <= first_not_taken) => SkipTaken(min_index, i) # i
<1>1. /\ i \in Larger(min_index, first_not_taken)..IntMax
      /\ i = IntMax \/ i >= entries_length \/ entries[i] = NULL
      /\ \A k \in Larger(min_index, first_not_taken)..i - 1 :
           k < entries_length /\ entries[k] # NULL
  BY Zenon, AvailableFacts
<1>2. /\ min_index \in Nat /\ first_not_taken \in Nat /\ IntMax \in Nat
      /\ entries_length \in Nat /\ first_not_taken <= entries_length
  BY IndexFacts DEF TypeOK
<1>3. i \in Nat /\ i <= IntMax /\ min_index <= i /\ first_not_taken <= i
  BY <1>1, <1>2 DEF Larger
<1>4. ASSUME i < IntMax PROVE i \in Indexes /\ entries[i] = NULL
  <2>1. i \in Indexes /\ i # IntMax
    BY <1>2, <1>3, <1>4 DEF Indexes
  <2>2. CASE i >= entries_length
    BY <1>2, <1>3, <2>1, <2>2 DEF Counts
  <2> QED
    BY Zenon, <1>1, <2>1, <2>2
<1>5. ASSUME NEW k \in Indexes, min_index <= k, k < i PROVE entries[k] # NULL
  <2>1. k \in Nat
    BY Zenon, IndexFacts
  <2>2. k \in 0..first_not_taken - 1 \/ k \in Larger(min_index, first_not_taken)..i - 1
    BY <1>2, <1>3, <1>5, <2>1 DEF Larger
  <2> QED
    BY Zenon, <1>1, <2>2 DEF Counts
<1>6. ASSUME min_index <= first_not_taken
      PROVE  i <= entries_length /\ \A k \in first_not_taken..i - 1 : entries[k] # NULL
  <2>1. Larger(min_index, first_not_taken) = first_not_taken
    BY <1>2, <1>6 DEF Larger
  <2>2. ~(entries_length \in first_not_taken..i - 1)
    BY <1>1, <1>2, <2>1
  <2> QED
    BY <1>1, <1>2, <1>3, <2>1, <2>2
<1>7. ~(min_index <= first_not_taken) => SkipTaken(min_index, i) # i
  BY Zenon, <1>2, <1>3 DEF SkipTaken
<1> QED
  BY Zenon, <1>3, <1>4, <1>5, <1>6, <1>7

LEMMA FillFacts ==
  ASSUME TypeOK, Counts(entries, entries_used, entries_length, first_not_taken),
         NEW min_index \in Indexes, NEW i \in Indexes, i = Available(min_index),
         NEW desc \in Descs, NEW fl \in Flags, NEW length \in 0..IntMax,
         entries_length <= length, i < length, NEW t, Fill(t, i, desc, fl, min_index, length)
  PROVE  /\ entries' \in [Indexes -> Descs \cup {NULL}] /\ flags' \in [Indexes -> Flags]
         /\ entries_used' = entries_used + 1
         /\ entries_length' = length /\ first_not_taken' \in 0..length
         /\ Counts(entries', entries_used', entries_length', first_not_taken')
<1>0. /\ i \in Nat /\ i < IntMax /\ length \in Nat /\ first_not_taken \in Nat
      /\ first_not_taken <= entries_length /\ entries_length \in Nat
  BY IndexFacts DEF TypeOK
<1>1. /\ entries[i] = NULL
      /\ \/ first_not_taken' = first_not_taken
         \/ /\ first_not_taken' = i + 1
            /\ \A k \in first_not_taken..i - 1 : entries[k] # NULL
  BY Zenon, <1>0, FoundFacts DEF Fill
<1>2. /\ entries' = [entries EXCEPT ![i] = desc] /\ flags' = [flags EXCEPT ![i] = fl]
      /\ entries_used' = entries_used + 1 /\ entries_length' = length
  BY Zenon DEF Fill
<1>3. first_not_taken' \in 0..length /\ first_not_taken' \in Nat
  BY <1>0, <1>1
<1>4. /\ entries \in [Indexes -> Descs \cup {NULL}] /\ flags \in [Indexes -> Flags]
      /\ entries_length \in 0..IntMax /\ first_not_taken \in 0..entries_length
  BY Zenon DEF TypeOK
<1>5. Counts([entries EXCEPT ![i] = desc],
             entries_used + (IF entries[i] = NULL THEN 1 ELSE 0), length, first_not_taken')
  BY Zenon, <1>1, <1>3, <1>4, CountsStore
<1> QED
  BY Zenon, <1>1, <1>2, <1>3, <1>4, <1>5

LEMMA AllocateInternalKeeps ==
  ASSUME NEW t \in Threads, TableInv(t), pc[t] = "idle", NEW min_index \in Indexes,
         NEW desc \in Descs, NEW fl \in Flags, AllocateInternal(t, desc, fl, min_index)
  PROVE  TableInv(t)'
<1> USE DEF TableInv
<1>1. Counts(entries, entries_used, entries_length, first_not_taken)
  BY Zenon, Settled
<1>2. PICK i : i = Available(min_index)
  BY Zenon
<1>3. /\ i \in Nat /\ i <= IntMax /\ first_not_taken <= i
      /\ i < IntMax => i \in Indexes
  BY Zenon, <1>1, <1>2, FoundFacts
<1>4. /\ reserved_count = 0 /\ entries_length \in Nat /\ entries_length <= IntMax
      /\ IntMax \in Nat /\ entries_used \in Nat
  BY IndexFacts DEF Reserved, TypeOK
<1>5. /\ UNCHANGED <<reserved_count, locals>>
      /\ \/ /\ i < entries_length
            /\ Fill(t, i, desc, fl, min_index, entries_length)
         \/ /\ i < IntMax /\ CanEnlargen(1)
            /\ Fill(t, i, desc, fl, min_index, NewLength(i + 1, 1))
         \/ /\ first_not_taken' = SkipTaken(min_index, i)
            /\ UNCHANGED <<entries, flags, entries_used, entries_length>>
  BY <1>2, <1>4 DEF AllocateInternal
<1>6. CASE i < entries_length /\ Fill(t, i, desc, fl, min_index, entries_length)
  <2>1. i \in Indexes /\ entries_length \in 0..IntMax /\ entries_length <= entries_length
    BY <1>3, <1>4, <1>6
  <2> QED
    BY Zenon, <1>1, <1>2, <1>5, <1>6, <2>1, FillFacts, IdleKeeps
<1>7. CASE /\ i < IntMax /\ CanEnlargen(1)
           /\ Fill(t, i, desc, fl, min_index, NewLength(i + 1, 1))
  <2>1. i \in Indexes /\ i + 1 \in 0..IntMax
    BY <1>3, <1>4, <1>7
  <2>2. /\ NewLength(i + 1, 1) \in 0..IntMax /\ entries_length <= NewLength(i + 1, 1)
        /\ i + 1 <= NewLength(i + 1, 1)
    BY Zenon, <1>7, <2>1, NewLengthFacts
  <2>3. i < NewLength(i + 1, 1)
    BY <1>3, <1>4, <2>2
  <2> QED
    BY Zenon, <1>1, <1>2, <1>5, <1>7, <2>1, <2>2, <2>3, FillFacts, IdleKeeps
<1>8. CASE /\ first_not_taken' = SkipTaken(min_index, i)
           /\ UNCHANGED <<entries, flags, entries_used, entries_length>>
  <2>1. /\ first_not_taken' \in 0..entries_length
        /\ \A k \in 0..first_not_taken' - 1 : entries[k] # NULL
    <3>1. CASE min_index <= first_not_taken
      <4>1. /\ first_not_taken' = i /\ i <= entries_length
            /\ \A k \in first_not_taken..i - 1 : entries[k] # NULL
        BY Zenon, <1>1, <1>2, <1>8, <3>1, FoundFacts DEF SkipTaken
      <4>2. first_not_taken \in Nat
        BY <1>4 DEF TypeOK
      <4>3. \A k \in 0..i - 1 : k \in 0..first_not_taken - 1 \/ k \in first_not_taken..i - 1
        BY <1>3, <4>2
      <4> QED
        BY <1>1, <1>3, <1>4, <4>1, <4>3 DEF Counts
    <3>2. CASE ~(min_index <= first_not_taken)
      BY Zenon, <1>1, <1>8, <3>2 DEF SkipTaken, Counts, TypeOK
    <3> QED
      BY Zenon, <3>1, <3>2
  <2>2. Counts(entries', entries_used', entries_length', first_not_taken')
    BY Zenon, <1>1, <1>8, <2>1 DEF Counts
  <2>3. /\ entries' \in [Indexes -> Descs \cup {NULL}] /\ flags' \in [Indexes -> Flags]
        /\ entries_length' \in 0..IntMax /\ first_not_taken' \in 0..entries_length'
    BY Zenon, <1>8, <2>1 DEF TypeOK
  <2> QED
    BY Zenon, <1>5, <2>2, <2>3, IdleKeeps
<1> QED
  BY Zenon, <1>5, <1>6, <1>7, <1>8

\* A reservation guarantees a free entry in the table as it is.
LEMMA AllocateReservedKeeps ==
  ASSUME NEW t \in Threads, TableInv(t), NEW desc \in Descs, NEW fl \in Flags,
         AllocateReserved(t, desc, fl)
  PROVE  TableInv(t)'
<1> USE DEF TableInv
<1>1. pc[t] = "reserved" /\ reservation[t] >= 1
  BY Zenon DEF AllocateReserved
<1>2. Counts(entries, entries_used, entries_length, first_not_taken)
  BY Zenon, <1>1, Settled
<1>3. /\ reserved_count = reservation[t] /\ reserved_count \in Nat /\ entries_length \in Nat
      /\ entries_used \in Nat /\ IntMax \in Nat /\ entries_length <= IntMax
      /\ reserved_count <= IntMax /\ MaxReserve \in Nat /\ reserved_count <= MaxReserve
  BY <1>1, IndexFacts, TableAssumption DEF Reserved, TypeOK
<1>4. PICK i : i = Available(0)
  BY Zenon
<1>5. /\ i \in Nat /\ i <= IntMax
      /\ i < IntMax => i \in Indexes
      /\ \A k \in Indexes : 0 <= k /\ k < i => entries[k] # NULL
  BY Zenon, <1>2, <1>4, IndexFacts, FoundFacts
<1>6. i < entries_length
  <2>1. entries_used < entries_length
    BY <1>1, <1>3 DEF Reserved
  <2>2. entries_length \in 0..IntMax
    BY Zenon DEF TypeOK
  <2>3. PICK k \in Indexes : k < entries_length /\ entries[k] = NULL
    BY SMTT(30), <1>2, <2>1, <2>2, CountsFit
  <2>4. k \in Nat /\ ~(k < i)
    BY <1>5, <2>3, IndexFacts
  <2> QED
    BY <1>3, <1>5, <2>3, <2>4
<1>7. /\ Fill(t, i, desc, fl, 0, entries_length)
      /\ reservation' = [reservation EXCEPT ![t] = @ - 1]
      /\ reserved_count' = reserved_count - 1
      /\ UNCHANGED <<pc, new_entries, new_length, copied, count>>
  BY Zenon, <1>4, <1>6 DEF AllocateReserved
<1>8. /\ entries' \in [Indexes -> Descs \cup {NULL}] /\ flags' \in [Indexes -> Flags]
      /\ entries_used' = entries_used + 1
      /\ entries_length' = entries_length /\ first_not_taken' \in 0..entries_length
      /\ Counts(entries', entries_used', entries_length', first_not_taken')
  <2>1. i \in Indexes /\ entries_length \in 0..IntMax /\ entries_length <= entries_length
    BY <1>3, <1>5, <1>6
  <2> QED
    BY Zenon, <1>2, <1>4, <1>6, <1>7, <2>1, IndexFacts, FillFacts
<1>9. TypeOK'
  <2>1. entries_used' \in 0..IntMax
    BY Zenon, <1>3, <1>8, CountsFit DEF TypeOK
  <2>2. reserved_count' \in 0..IntMax /\ reservation[t] - 1 \in 0..MaxReserve
    BY <1>1, <1>3, <1>7
  <2>3. reservation' \in [Threads -> 0..MaxReserve]
    BY Zenon, <1>7, <2>2 DEF TypeOK
  <2> QED
    BY Zenon, <1>7, <1>8, <2>1, <2>2, <2>3 DEF TypeOK
<1>10. Reserved(t)'
  <2>1. reservation'[t] = reservation[t] - 1
    BY Zenon, <1>7 DEF TypeOK
  <2>2. reserved_count - 1 <= entries_length - (entries_used + 1)
    BY <1>3 DEF Reserved
  <2> QED
    BY Zenon, <1>1, <1>3, <1>7, <1>8, <2>1, <2>2 DEF Reserved
<1> QED
  BY Zenon, <1>1, <1>7, <1>8, <1>9, <1>10, SettledKeeps

LEMMA CopyKeeps ==
  ASSUME NEW t \in Threads, TableInv(t), NEW from \in Indexes, NEW to \in Indexes,
         NEW fl \in Flags, Copy(t, from, to, fl)
  PROVE  TableInv(t)'
<1> USE DEF TableInv
<1>1. /\ pc[t] = "idle" /\ IsGoodEntry(from)
      /\ entries_length' = IF IsGoodEntry(to) THEN entries_length ELSE NewLength(to + 1, 1)
      /\ IsGoodEntry(to) \/ CanEnlargen(1)
      /\ entries' = [entries EXCEPT ![to] = entries[from]]
      /\ entries_used' = entries_used + (IF entries[to] = NULL THEN 1 ELSE 0)
      /\ flags' = [flags EXCEPT ![to] = fl]
      /\ first_not_taken' = IF first_not_taken = to THEN to + 1 ELSE first_not_taken
      /\ UNCHANGED <<reserved_count, locals>>
  BY Zenon DEF Copy
<1>2. Counts(entries, entries_used, entries_length, first_not_taken)
  BY Zenon, <1>1, Settled
<1>3. /\ to \in Nat /\ to + 1 \in 0..IntMax /\ entries_length \in 0..IntMax
      /\ entries_length \in Nat /\ first_not_taken \in Nat
      /\ first_not_taken <= entries_length /\ IntMax \in Nat
  BY IndexFacts DEF TypeOK
<1>4. entries_length' \in 0..IntMax /\ entries_length <= entries_length' /\ to < entries_length'
  <2>1. CASE IsGoodEntry(to)
    BY <1>1, <1>3, <2>1 DEF IsGoodEntry
  <2>2. CASE ~IsGoodEntry(to)
    <3>1. /\ NewLength(to + 1, 1) \in 0..IntMax /\ entries_length <= NewLength(to + 1, 1)
          /\ to + 1 <= NewLength(to + 1, 1)
      BY Zenon, <1>1, <1>3, <2>2, NewLengthFacts
    <3> QED
      BY <1>1, <1>3, <2>2, <3>1
  <2> QED
    BY Zenon, <2>1, <2>2
<1>5. entries[from] \in Descs
  BY Zenon, <1>1 DEF IsGoodEntry, TypeOK
<1>6. /\ first_not_taken' \in 0..entries_length' /\ first_not_taken' \in Nat
      /\ \/ first_not_taken' = first_not_taken
         \/ /\ first_not_taken' = to + 1
            /\ \A k \in first_not_taken..to - 1 : entries[k] # NULL
  BY <1>1, <1>3, <1>4
<1>7. entries \in [Indexes -> Descs \cup {NULL}] /\ first_not_taken \in 0..entries_length
  BY Zenon DEF TypeOK
<1>8. Counts([entries EXCEPT ![to] = entries[from]],
             entries_used + (IF entries[to] = NULL THEN 1 ELSE 0), entries_length',
             first_not_taken')
  BY Zenon, <1>2, <1>3, <1>4, <1>5, <1>6, <1>7, CountsStore
<1>9. /\ entries' \in [Indexes -> Descs \cup {NULL}] /\ flags' \in [Indexes -> Flags]
      /\ Counts(entries', entries_used', entries_length', first_not_taken')
  BY Zenon, <1>1, <1>5, <1>8 DEF TypeOK
<1> QED
  BY Zenon, <1>1, <1>4, <1>6, <1>9, IdleKeeps

LEMMA FreeAllKeeps ==
  ASSUME NEW t \in Threads, TableInv(t), pc[t] = "idle", NEW S \in SUBSET Indexes,
         \A i \in S : IsGoodEntry(i), FreeAll(S), flags' \in [Indexes -> Flags]
  PROVE  TableInv(t)'
<1> USE DEF TableInv
<1>1. Counts(entries, entries_used, entries_length, first_not_taken)
  BY Zenon, Settled
<1>2. /\ entries_length \in 0..IntMax /\ first_not_taken \in 0..entries_length
      /\ entries_length \in Nat /\ first_not_taken \in Nat
      /\ entries \in [Indexes -> Descs \cup {NULL}]
  BY IndexFacts DEF TypeOK
<1>3. S \in SUBSET TakenIn(entries)
  BY Zenon DEF IsGoodEntry, TakenIn
<1>4. /\ first_not_taken' \in S \cup {first_not_taken}
      /\ \A i \in S \cup {first_not_taken} : first_not_taken' <= i
  <2>1. S \cup {first_not_taken} \in SUBSET Nat
    BY Zenon, <1>2, IndexFacts
  <2>2. \E m \in S \cup {first_not_taken} : \A i \in S \cup {first_not_taken} : m <= i
    BY Zenon, <2>1, Minimum
  <2> QED
    BY Zenon, <2>2 DEF FreeAll
<1>5. /\ first_not_taken' \in Nat /\ first_not_taken' <= first_not_taken
      /\ first_not_taken' \in 0..entries_length /\ \A i \in S : first_not_taken' <= i
  BY <1>2, <1>4, IndexFacts
<1>6. /\ entries' = [i \in Indexes |-> IF i \in S THEN NULL ELSE entries[i]]
      /\ entries_used' = entries_used - Cardinality(S)
      /\ UNCHANGED <<entries_length, reserved_count, locals>>
  BY Zenon DEF FreeAll
<1>7. Counts(entries', entries_used', entries_length', first_not_taken')
  BY <1>1, <1>2, <1>3, <1>5, <1>6, CountsFree
<1>8. entries' \in [Indexes -> Descs \cup {NULL}]
  BY Zenon, <1>2, <1>6
<1> QED
  BY Zenon, <1>2, <1>5, <1>6, <1>7, <1>8, IdleKeeps

LEMMA ForkKeeps ==
  ASSUME NEW t \in Threads, TableInv(t), Fork(t)
  PROVE  TableInv(t)'
<1> USE DEF TableInv
<1> DEFINE kept == {i \in Indexes : IsGoodEntry(i) /\ flags[i] # "FD_CLOFORK"}
<1>1. /\ pc[t] = "idle"
      /\ entries' = [i \in Indexes |-> IF i \in kept THEN entries[i] ELSE NULL]
      /\ flags' = [i \in Indexes |-> IF i \in kept THEN flags[i] ELSE "none"]
      /\ entries_used' = Cardinality(kept)
      /\ first_not_taken' = CHOOSE i \in 0..entries_length :
                              /\ i \notin kept
                              /\ \A k \in 0..i - 1 : k \in kept
      /\ reserved_count' = 0
      /\ pc' = [u \in Threads |-> IF u = t THEN "idle" ELSE "gone"]
      /\ reservation' = [u \in Threads |-> 0]
      /\ UNCHANGED <<entries_length, new_entries, new_length, copied, count>>
  BY Zenon DEF Fork
<1>2. /\ kept \subseteq Indexes
      /\ \A i \in kept : entries[i] # NULL /\ i < entries_length
  BY Zenon DEF IsGoodEntry
<1> HIDE DEF kept
<1>3. /\ entries_length \in 0..IntMax /\ entries_length \in Nat /\ IntMax \in Nat
      /\ MaxReserve \in Nat
  BY IndexFacts, TableAssumption DEF TypeOK
<1>4. /\ first_not_taken' \in 0..entries_length /\ first_not_taken' \in Nat
      /\ \A k \in 0..first_not_taken' - 1 : k \in kept
  <2> DEFINE S == (0..entries_length) \ kept
  <2>1. S \in SUBSET Nat /\ entries_length \in S
    BY <1>2, <1>3
  <2>2. PICK m \in S : \A i \in S : m <= i
    BY Zenon, <2>1, Minimum
  <2>3. \A k \in 0..m - 1 : k \in kept
    BY <1>3, <2>2
  <2>4. \E i \in 0..entries_length : i \notin kept /\ \A k \in 0..i - 1 : k \in kept
    BY Zenon, <2>2, <2>3
  <2> HIDE DEF S
  <2>5. /\ first_not_taken' \in 0..entries_length
        /\ \A k \in 0..first_not_taken' - 1 : k \in kept
    BY Zenon, <1>1, <2>4
  <2>6. \A n \in 0..entries_length : n \in Nat
    BY <1>3
  <2> QED
    BY Zenon, <2>5, <2>6
<1>5. Counts(entries', entries_used', entries_length', first_not_taken')
  <2>1. \A i \in Indexes : entries'[i] # NULL <=> i \in kept
    BY Zenon, <1>1, <1>2
  <2>2. TakenIn(entries') = kept
    BY Zenon, <1>2, <2>1 DEF TakenIn
  <2> QED
    BY Zenon, <1>1, <1>2, <1>4, <2>1, <2>2 DEF Counts
<1>6. entries_used' \in 0..IntMax /\ entries_used' <= entries_length
  BY Zenon, <1>1, <1>3, <1>5, CountsFit
<1>7. TypeOK'
  <2>1. /\ entries' \in [Indexes -> Descs \cup {NULL}] /\ flags' \in [Indexes -> Flags]
        /\ reservation' \in [Threads -> 0..MaxReserve]
        /\ pc' \in [Threads -> {"idle", "copy", "reserved", "assertion_failed", "gone"}]
    BY <1>1, <1>3 DEF TypeOK, Flags
  <2>2. reserved_count' \in 0..IntMax
    BY Zenon, <1>1, ZeroFits
  <2> QED
    BY Zenon, <1>1, <1>4, <1>6, <2>1, <2>2 DEF TypeOK
<1>8. Reserved(t)' /\ pc'[t] = "idle"
  <2>1. entries_used' \in Nat
    BY <1>3, <1>6
  <2>2. 0 <= entries_length' - entries_used'
    BY Zenon, <1>1, <1>3, <1>6, <2>1, SpareFits
  <2> QED
    BY Zenon, <1>1, <2>2 DEF Reserved
<1> QED
  BY Zenon, <1>5, <1>7, <1>8, SettledKeeps

-----------------------------------------------------------------------------
(* The theorems.                                                           *)

LEMMA TableStep ==
  ASSUME NEW me, Threads = {me}, TableInv(me), [Next]_vars
  PROVE  TableInv(me)'
<1>0. me \in Threads
  BY Zenon
<1>1. CASE UNCHANGED vars
  <2>1. TypeOK'
    BY Zenon, <1>1 DEF vars, table, locals, TableInv, TypeOK
  <2>2. Counts(Whole(me), entries_used, entries_length, first_not_taken)'
    BY Zenon, <1>1 DEF vars, table, locals, TableInv, Counts, TakenIn, Whole
  <2>3. Moving(me)' /\ Reserved(me)' /\ pc'[me] = pc[me]
    BY Zenon, <1>1 DEF vars, table, locals, TableInv, Moving, Reserved
  <2> QED
    BY Zenon, <2>1, <2>2, <2>3 DEF TableInv
<1>2. CASE Next
  <2>0. 0 \in Indexes
    BY Zenon, IndexFacts
  <2>1. ASSUME NEW d \in Descs, NEW f \in Flags, Allocate(me, d, f) PROVE TableInv(me)'
    BY Zenon, <1>0, <2>0, <2>1, AllocateInternalKeeps DEF Allocate
  <2>2. ASSUME NEW i \in Indexes, NEW m \in Indexes, NEW f \in Flags,
               AllocateDup(me, i, f, m)
        PROVE  TableInv(me)'
    <3>1. entries[i] \in Descs
      BY Zenon, <2>2 DEF AllocateDup, IsGoodEntry, TableInv, TypeOK
    <3> QED
      BY Zenon, <1>0, <2>2, <3>1, AllocateInternalKeeps DEF AllocateDup
  <2>3. ASSUME NEW S \in SUBSET Indexes, ClearFlags(S) PROVE flags' \in [Indexes -> Flags]
    BY Zenon, <2>3 DEF ClearFlags, TableInv, TypeOK, Flags
  <2>4. ASSUME NEW i \in Indexes, FreeKeep(me, i) PROVE TableInv(me)'
    <3>1. {i} \in SUBSET Indexes
      BY Zenon
    <3>2. flags' \in [Indexes -> Flags]
      BY Zenon, <2>3, <2>4, <3>1 DEF FreeKeep
    <3> QED
      BY Zenon, <1>0, <2>4, <3>1, <3>2, FreeAllKeeps DEF FreeKeep
  <2>5. ASSUME NEW i \in Indexes, CloseFrom(me, i) PROVE TableInv(me)'
    <3>1. {k \in Indexes : i <= k /\ IsGoodEntry(k)} \in SUBSET Indexes
      BY Zenon
    <3>2. flags' \in [Indexes -> Flags]
      BY Zenon, <2>3, <2>5, <3>1 DEF CloseFrom
    <3> QED
      BY Zenon, <1>0, <2>5, <3>1, <3>2, FreeAllKeeps DEF CloseFrom
  <2>6. ASSUME OnExecute(me) PROVE TableInv(me)'
    <3>1. {k \in Indexes : IsGoodEntry(k) /\ flags[k] = "FD_CLOEXEC"} \in SUBSET Indexes
      BY Zenon
    <3>2. flags' \in [Indexes -> Flags]
      BY Zenon, <2>6 DEF OnExecute, TableInv, TypeOK
    <3> QED
      BY Zenon, <1>0, <2>6, <3>1, <3>2, FreeAllKeeps DEF OnExecute
  <2>7. ASSUME NEW i \in Indexes, NEW f \in Flags, SetFlags(me, i, f) PROVE TableInv(me)'
    <3>1. /\ pc[me] = "idle" /\ flags' = [flags EXCEPT ![i] = f]
          /\ UNCHANGED <<entries, entries_used, entries_length, reserved_count,
                         first_not_taken, locals>>
      BY Zenon, <2>7 DEF SetFlags
    <3>2. Counts(entries, entries_used, entries_length, first_not_taken)
      BY Zenon, <1>0, <3>1, Settled DEF TableInv
    <3>3. flags' \in [Indexes -> Flags]
      BY Zenon, <3>1 DEF TableInv, TypeOK
    <3> QED
      BY Zenon, <1>0, <3>1, <3>2, <3>3, IdleKeeps DEF TableInv, TypeOK
  <2> QED
    BY Zenon, <1>0, <1>2, <2>1, <2>2, <2>4, <2>5, <2>6, <2>7, ReserveKeeps,
       ReserveCopyKeeps,
       ReservePublishKeeps, UnreserveKeeps, AllocateReservedKeeps, CopyKeeps, ForkKeeps
       DEF Next
<1> QED
  BY Zenon, <1>1, <1>2

LEMMA TableInit ==
  ASSUME NEW me, Threads = {me}, Init
  PROVE  TableInv(me)
<1>1. /\ IntMax \in Nat /\ MaxReserve \in Nat /\ 0 \in 0..IntMax /\ 0 \in 0..MaxReserve
      /\ 0 \in 0..0
  BY TableAssumption
<1>2. TypeOK /\ pc[me] = "idle"
  BY Zenon, <1>1 DEF Init, TypeOK, Empty, Flags
<1>3. Whole(me) = Empty
  BY Zenon, <1>2, Settled DEF Init
<1>4. Counts(Empty, 0, 0, 0)
  <2>1. TakenIn(Empty) = {}
    BY Zenon DEF TakenIn, Empty
  <2>2. \A i \in Indexes : Empty[i] = NULL
    BY Zenon DEF Empty
  <2>3. Cardinality(TakenIn(Empty)) = 0
    BY Zenon, <2>1, FS_EmptySet
  <2> QED
    BY <2>2, <2>3 DEF Counts
<1>5. Moving(me) /\ Reserved(me)
  BY <1>2 DEF Init, Moving, Reserved
<1> QED
  BY Zenon, <1>2, <1>3, <1>4, <1>5 DEF TableInv, Init

LEMMA TableInvariant ==
  ASSUME NEW CONSTANT me, Threads = {me}
  PROVE  Spec => []TableInv(me)
<1>1. Init => TableInv(me)
  BY Zenon, TableInit
<1>2. TableInv(me) /\ [Next]_vars => TableInv(me)'
  BY Zenon, TableStep
<1> QED
  BY <1>1, <1>2, PTL DEF Spec

\* In a process with one thread entries_used and first_not_taken agree with
\* the table after any sequence of opens, duplicates, closes, executes and
\* forks, for a table that grows up to any INT_MAX, and stay in range.
THEOREM CountersStayExact ==
  ASSUME NEW CONSTANT me, Threads = {me}
  PROVE  Spec => []CountersExact
<1>1. TableInv(me) => CountersExact
  <2> SUFFICES ASSUME TableInv(me), ~Copying
               PROVE  Counts(entries, entries_used, entries_length, first_not_taken)
    BY Zenon DEF CountersExact, Counts, TakenIn, TableInv
  <2>1. pc[me] # "copy" /\ me \in Threads
    BY Zenon DEF Copying
  <2> QED
    BY Zenon, <2>1, Settled DEF TableInv
<1> QED
  BY <1>1, TableInvariant, PTL

\* In a process with one thread every reserved entry is there to be taken.
THEOREM ReservationsStayBacked ==
  ASSUME NEW CONSTANT me, Threads = {me}
  PROVE  Spec => []ReservationBacked
<1>1. TableInv(me) => ReservationBacked
  BY Zenon DEF TableInv, Reserved, ReservationBacked
<1> QED
  BY <1>1, TableInvariant, PTL

\* In a process with one thread the assertions at the end of Reserve hold, and
\* AllocateInternal finds a free entry for every reservation.
THEOREM TableAssertionsHold ==
  ASSUME NEW CONSTANT me, Threads = {me}
  PROVE  Spec => [](pc[me] # "assertion_failed")
<1>1. TableInv(me) => pc[me] # "assertion_failed"
  BY Zenon DEF TableInv
<1> QED
  BY <1>1, TableInvariant, PTL

\* A step of the only thread that changes none of its locals is outside the
\* system calls that reserve.
LEMMA UnreservedStep ==
  ASSUME NEW me, Threads = {me}, TableInv(me), Next, UNCHANGED locals
  PROVE  pc[me] = "idle"
<1>1. UNCHANGED <<reservation, pc, copied>>
  BY Zenon DEF locals
<1>2. ASSUME ReserveCopy(me) PROVE FALSE
  <2>1. copied[me] \in Nat /\ copied'[me] = copied[me] + 1
    BY <1>2, IndexFacts DEF ReserveCopy, TableInv, TypeOK
  <2> QED
    BY <1>1, <2>1
<1>3. ASSUME ReservePublish(me) \/ Unreserve(me) PROVE FALSE
  BY Zenon, <1>1, <1>3
     DEF ReservePublish, ReserveCount, Unreserve, TableInv, TypeOK
<1>4. ASSUME NEW d \in Descs, NEW f \in Flags, AllocateReserved(me, d, f) PROVE FALSE
  <2>1. reservation[me] \in Nat
    BY TableAssumption DEF TableInv, TypeOK
  <2>2. reservation'[me] = reservation[me] - 1 \/ pc'[me] # pc[me]
    BY Zenon, <1>4 DEF AllocateReserved, TableInv, TypeOK
  <2> QED
    BY <1>1, <2>1, <2>2
<1> QED
  BY Zenon, <1>2, <1>3, <1>4
     DEF Next, Reserve, Allocate, AllocateDup, Copy, FreeKeep, CloseFrom,
     OnExecute, SetFlags, Fork

\* In a process with one thread an allocation takes the lowest free descriptor
\* from min_index on, whatever first_not_taken remembers.
THEOREM AllocatesLowestFree ==
  ASSUME NEW CONSTANT me, Threads = {me}
  PROVE  Spec => AllocatesLowest
<1>1. ASSUME TableInv(me), Next, NEW t \in Threads, NEW d \in Descs, NEW f \in Flags,
             NEW m \in Indexes, AllocateInternal(t, d, f, m), NEW i \in Indexes,
             entries'[i] # entries[i]
      PROVE  m <= i /\ entries[i] = NULL /\ \A k \in m..i - 1 : entries[k] # NULL
  <2>1. pc[me] = "idle"
    BY Zenon, <1>1, UnreservedStep DEF AllocateInternal
  <2>2. TypeOK /\ Counts(entries, entries_used, entries_length, first_not_taken)
    BY Zenon, <1>1, <2>1, Settled DEF TableInv
  <2>3. i = Available(m)
    BY Zenon, <1>1, <2>2 DEF AllocateInternal, Fill, TypeOK
  <2>4. i \in Nat /\ i < IntMax /\ m \in Nat /\ IntMax \in Nat
    BY Zenon, IndexFacts
  <2>5. /\ m <= i /\ entries[i] = NULL
        /\ \A k \in Indexes : m <= k /\ k < i => entries[k] # NULL
    BY Zenon, <2>2, <2>3, <2>4, FoundFacts
  <2>6. \A k \in m..i - 1 : k \in Indexes /\ m <= k /\ k < i
    BY <2>4 DEF Indexes
  <2> QED
    BY Zenon, <2>5, <2>6
<1>2. TableInv(me) /\ [Next]_vars =>
        [\A t \in Threads, d \in Descs, f \in Flags, m \in Indexes :
           AllocateInternal(t, d, f, m) =>
             \A i \in Indexes : entries'[i] # entries[i] =>
               /\ m <= i /\ entries[i] = NULL
               /\ \A k \in m..i - 1 : entries[k] # NULL]_vars
  BY Zenon, <1>1
<1> QED
  BY <1>2, TableInvariant, PTL DEF Spec, AllocatesLowest

=============================================================================
