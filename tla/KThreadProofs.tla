--------------------------- MODULE KThreadProofs ---------------------------
(***************************************************************************)
(* Proofs about KThread for every set of threads: the mutex, the condition *)
(* variable and their wait lists, and that they implement Monitor.         *)
(***************************************************************************)
EXTENDS KThread, Integers, TLAPS

-----------------------------------------------------------------------------
(* Facts about lists without duplicates.                                   *)

\* Appending a new element to a list without duplicates: the element is
\* linked, nothing else changes (the append of kthread_cond_wait).
LEMMA AppendLinks ==
  ASSUME NEW S, NEW s \in Seq(S), NEW e \in S, Distinct(s), ~Contains(s, e)
  PROVE  /\ Append(s, e) \in Seq(S)
         /\ Distinct(Append(s, e))
         /\ \A x : Contains(Append(s, e), x) <=> Contains(s, x) \/ x = e
<1>1. /\ Append(s, e) \in Seq(S)
      /\ Len(Append(s, e)) = Len(s) + 1
      /\ \A i \in 1..Len(s) : Append(s, e)[i] = s[i]
      /\ Append(s, e)[Len(s) + 1] = e
  OBVIOUS
<1>2. Len(s) \in Nat
  OBVIOUS
<1>3. Distinct(Append(s, e))
  BY <1>1, <1>2 DEF Distinct, Contains
<1>4. \A x : Contains(Append(s, e), x) <=> Contains(s, x) \/ x = e
  BY <1>1, <1>2 DEF Contains
<1> QED
  BY Zenon, <1>1, <1>3, <1>4

\* Taking the first element out of a list without duplicates unlinks exactly
\* that element (the pop of kthread_cond_signal).
LEMMA TailUnlinks ==
  ASSUME NEW S, NEW s \in Seq(S), s # <<>>, Distinct(s)
  PROVE  /\ Head(s) \in S
         /\ Contains(s, Head(s))
         /\ Tail(s) \in Seq(S)
         /\ Distinct(Tail(s))
         /\ \A x : Contains(Tail(s), x) <=> Contains(s, x) /\ x # Head(s)
<1>1. /\ Head(s) \in S
      /\ Tail(s) \in Seq(S)
      /\ Len(Tail(s)) = Len(s) - 1
      /\ \A i \in 1..Len(Tail(s)) : Tail(s)[i] = s[i + 1]
  OBVIOUS
<1>2. Len(s) \in Nat \ {0} /\ Head(s) = s[1]
  OBVIOUS
<1>3. Distinct(Tail(s))
  BY <1>1, <1>2 DEF Distinct
<1>4. \A x : Contains(Tail(s), x) <=> Contains(s, x) /\ x # Head(s)
  <2> SUFFICES ASSUME NEW x
               PROVE  Contains(Tail(s), x) <=> Contains(s, x) /\ x # Head(s)
    BY Zenon
  <2>1. ASSUME Contains(Tail(s), x) PROVE Contains(s, x) /\ x # Head(s)
    <3>1. PICK i \in 1..Len(Tail(s)) : Tail(s)[i] = x
      BY Zenon, <2>1 DEF Contains
    <3>2. i + 1 \in 1..Len(s) /\ s[i + 1] = x /\ i + 1 # 1
      BY <1>1, <1>2, <3>1
    <3> QED
      BY <1>2, <3>2 DEF Contains, Distinct
  <2>2. ASSUME Contains(s, x), x # Head(s) PROVE Contains(Tail(s), x)
    <3>1. PICK i \in 1..Len(s) : s[i] = x
      BY Zenon, <2>2 DEF Contains
    <3>2. i - 1 \in 1..Len(Tail(s)) /\ Tail(s)[i - 1] = x
      BY <1>1, <1>2, <2>2, <3>1
    <3> QED
      BY Zenon, <3>2 DEF Contains
  <2> QED
    BY Zenon, <2>1, <2>2
<1> QED
  BY <1>1, <1>2, <1>3, <1>4 DEF Contains

\* The entries of a concatenation.
LEMMA ConcatEntries ==
  ASSUME NEW S, NEW a \in Seq(S), NEW b \in Seq(S)
  PROVE  /\ a \o b \in Seq(S)
         /\ Len(a \o b) = Len(a) + Len(b)
         /\ \A i \in 1..Len(a) + Len(b) :
              (a \o b)[i] = IF i <= Len(a) THEN a[i] ELSE b[i - Len(a)]
OBVIOUS

\* Taking one element out of a list without duplicates unlinks exactly that
\* element (the end of kthread_cond_wait).
LEMMA RemoveUnlinks ==
  ASSUME NEW S, NEW s \in Seq(S), NEW p \in 1..Len(s), Distinct(s)
  PROVE  /\ RemoveAt(s, p) \in Seq(S)
         /\ Distinct(RemoveAt(s, p))
         /\ \A x : Contains(RemoveAt(s, p), x) <=> Contains(s, x) /\ x # s[p]
<1> DEFINE a == SubSeq(s, 1, p - 1)
           b == SubSeq(s, p + 1, Len(s))
           r == RemoveAt(s, p)
<1>1. Len(s) \in Nat /\ \A i \in 1..Len(s) : s[i] \in S
  OBVIOUS
<1>2. a \in Seq(S) /\ Len(a) = p - 1 /\ \A i \in 1..p - 1 : a[i] = s[i]
  <2>1. \A i \in 1..p - 1 : s[i] \in S
    BY <1>1
  <2>2. /\ a \in Seq(S)
        /\ Len(a) = IF 1 <= p - 1 THEN (p - 1) - 1 + 1 ELSE 0
        /\ \A i \in 1..(p - 1) - 1 + 1 : a[i] = s[1 + i - 1]
    BY <2>1, <1>1
  <2> QED
    BY <2>2, <1>1
<1>3. /\ b \in Seq(S)
      /\ Len(b) = Len(s) - p
      /\ \A i \in 1..Len(s) - p : b[i] = s[p + i]
  <2>1. \A i \in p + 1..Len(s) : s[i] \in S
    BY <1>1
  <2>2. /\ b \in Seq(S)
        /\ Len(b) = IF p + 1 <= Len(s) THEN Len(s) - (p + 1) + 1 ELSE 0
        /\ \A i \in 1..Len(s) - (p + 1) + 1 : b[i] = s[(p + 1) + i - 1]
    BY <2>1, <1>1
  <2> QED
    BY <2>2, <1>1
<1> HIDE DEF a, b, r
<1>4. /\ r \in Seq(S)
      /\ Len(r) = Len(s) - 1
      /\ \A i \in 1..Len(s) - 1 : r[i] = IF i < p THEN s[i] ELSE s[i + 1]
  <2>1. /\ a \o b \in Seq(S)
        /\ Len(a \o b) = Len(a) + Len(b)
        /\ \A i \in 1..Len(a) + Len(b) :
             (a \o b)[i] = IF i <= Len(a) THEN a[i] ELSE b[i - Len(a)]
    BY Zenon, <1>2, <1>3, ConcatEntries
  <2>2. r = a \o b
    BY Zenon DEF RemoveAt, a, b, r
  <2>3. Len(r) = Len(s) - 1
    BY <1>1, <1>2, <1>3, <2>1, <2>2
  <2>4. ASSUME NEW i \in 1..Len(s) - 1
        PROVE  r[i] = IF i < p THEN s[i] ELSE s[i + 1]
    <3>1. CASE i < p
      <4>1. i \in 1..Len(a) + Len(b) /\ i <= Len(a) /\ i \in 1..p - 1
        BY <1>1, <1>2, <1>3, <3>1
      <4> QED
        BY Zenon, <4>1, <1>2, <2>1, <2>2, <3>1
    <3>2. CASE ~(i < p)
      <4>1. /\ i \in 1..Len(a) + Len(b)
            /\ ~(i <= Len(a))
            /\ i - Len(a) \in 1..Len(s) - p
            /\ p + (i - Len(a)) = i + 1
        BY <1>1, <1>2, <1>3, <3>2
      <4> QED
        BY SMTT(30), <4>1, <1>3, <2>1, <2>2, <3>2
    <3> QED
      BY Zenon, <3>1, <3>2
  <2> QED
    BY Zenon, <2>1, <2>2, <2>3, <2>4
<1>5. Distinct(r)
  BY SMTT(30), <1>1, <1>4 DEF Distinct
<1>6. ASSUME NEW x PROVE Contains(r, x) <=> Contains(s, x) /\ x # s[p]
  <2>1. ASSUME Contains(r, x) PROVE Contains(s, x) /\ x # s[p]
    <3>1. PICK i \in 1..Len(s) - 1 : r[i] = x
      BY Zenon, <1>4, <2>1 DEF Contains
    <3>2. PICK j \in 1..Len(s) : j # p /\ s[j] = x
      BY SMTT(30), <1>1, <1>4, <3>1
    <3> QED
      BY Zenon, <3>2 DEF Contains, Distinct
  <2>2. ASSUME Contains(s, x), x # s[p] PROVE Contains(r, x)
    <3>1. PICK j \in 1..Len(s) : s[j] = x
      BY Zenon, <2>2 DEF Contains
    <3>2. CASE j < p
      BY <1>1, <1>4, <3>1, <3>2 DEF Contains
    <3>3. CASE ~(j < p)
      <4>1. j - 1 \in 1..Len(s) - 1 /\ ~(j - 1 < p) /\ (j - 1) + 1 = j
        BY <1>1, <2>2, <3>1, <3>3
      <4> QED
        BY Zenon, <1>4, <3>1, <4>1 DEF Contains
    <3> QED
      BY Zenon, <3>2, <3>3
  <2> QED
    BY Zenon, <2>1, <2>2
<1> QED
  BY Zenon, <1>4, <1>5, <1>6 DEF r

-----------------------------------------------------------------------------
(* The steps of the specification, one by one.                             *)

\* Every step is a step of one of the actions below.
LEMMA NextCases ==
  ASSUME Next
  PROVE  \E t \in Threads :
           \/ KutexTestValue(t) \/ KutexYield(t) \/ KutexDequeue(t)
           \/ MutexLockCas(t) \/ MutexContendCas(t) \/ MutexEnqueue(t)
           \/ MutexUnlock(t) \/ MutexWake(t) \/ CondTestWoken(t)
           \/ CondEnqueue(t) \/ CondUnlink(t) \/ CondPop(t) \/ CondWake(t)
           \/ MutexLock(t) \/ MutexTryLock(t) \/ CondNotify(t)
           \/ CondWait(t) \/ SetSignalPending(t) \/ HandleSignals(t)
           \/ FutexTimeout(t)
BY Zenon DEF Next, CallStep, ClientStep, Leave, Environment

\* Every step keeps the types; the interesting one is the unlinking of an elem,
\* which relies on the elem being in the list.
LEMMA TypeStep ==
  ASSUME TypeOK, CondListExact, [Next]_vars
  PROVE  TypeOK'
<1> USE DEF TypeOK, LockCalls, WaitCalls, NotifyCalls, Steps, UNLOCKED, LOCKED, CONTENDED
<1>1. CASE UNCHANGED vars
  BY Zenon, <1>1 DEF vars
<1>2. CASE Next
  <2>0. PICK t \in Threads :
           \/ KutexTestValue(t) \/ KutexYield(t) \/ KutexDequeue(t)
           \/ MutexLockCas(t) \/ MutexContendCas(t) \/ MutexEnqueue(t)
           \/ MutexUnlock(t) \/ MutexWake(t) \/ CondTestWoken(t)
           \/ CondEnqueue(t) \/ CondUnlink(t) \/ CondPop(t) \/ CondWake(t)
           \/ MutexLock(t) \/ MutexTryLock(t) \/ CondNotify(t)
           \/ CondWait(t) \/ SetSignalPending(t) \/ HandleSignals(t)
           \/ FutexTimeout(t)
    BY Zenon, <1>2, NextCases
  <2>1. CASE KutexTestValue(t)
    BY Zenon, <2>1
       DEF KutexTestValue, Goto, KutexSteps, lockVars, condVars, kutexVars
  <2>2. CASE KutexYield(t)
    BY Zenon, <2>2
       DEF KutexYield, Goto, InterruptYieldCPU, KutexSteps, lockVars,
       condVars, kutexVars
  <2>3. CASE KutexDequeue(t)
    BY SMTT(30), <2>3 DEF KutexDequeue, Goto, Return, BeginLock,
       lockVars, condVars, kutexVars
  <2>4. CASE MutexLockCas(t)
    BY SMTT(30), <2>4 DEF MutexLockCas, Goto, Return, lockVars, condVars, kutexVars
  <2>5. CASE MutexContendCas(t)
    BY SMTT(30), <2>5 DEF MutexContendCas, Goto, lockVars, condVars, kutexVars
  <2>6. CASE MutexEnqueue(t)
    BY Zenon, <2>6
       DEF MutexEnqueue, Goto, KutexEnqueue, KutexSteps, Addresses, lockVars,
       condVars, kutexVars
  <2>7. CASE MutexUnlock(t)
    BY Zenon, <2>7
       DEF MutexUnlock, Goto, AfterUnlock, lockVars, condVars, kutexVars
  <2>8. CASE MutexWake(t)
    BY Zenon, <2>8
       DEF MutexWake, Goto, AfterUnlock, KutexWake, WakeThreads, lockVars,
       condVars, kutexVars
  <2>9. CASE CondTestWoken(t)
    <3>1. desired' \in [Threads -> {LOCKED, CONTENDED}]
      BY Zenon, <2>9 DEF CondTestWoken, BeginLock
    <3>2. pc' \in [Threads -> Steps]
      BY <2>9 DEF CondTestWoken, Goto, BeginLock
    <3> QED
      BY Zenon, <2>9, <3>1, <3>2 DEF CondTestWoken, condVars, kutexVars
  <2>10. CASE CondUnlink(t)
    <3>1. woken[t] = 0 => Contains(cond, t)
      BY Zenon, <2>10 DEF CondUnlink, CondListExact, HasElem
    <3>2. woken[t] = 0 => Position(t) \in 1..Len(cond) /\ cond[Position(t)] = t
      BY Zenon, <3>1 DEF Contains, Position
    <3>3. cond' \in Seq(Threads)
      BY Zenon, <2>10, <3>2, RemoveUnlinks DEF CondUnlink, CondListExact
    <3> QED
      BY Zenon, <2>10, <3>3 DEF CondUnlink, Goto, Return, lockVars, kutexVars
  <2>11. CASE CondPop(t)
    <3>1. CASE cond = <<>>
      BY <2>11, <3>1 DEF CondPop, Goto, Return, lockVars, condVars, kutexVars
    <3>2. CASE cond # <<>>
      <4> DEFINE h == Head(cond)
      <4>1. h \in Threads /\ Tail(cond) \in Seq(Threads)
        BY <3>2
      <4>2. /\ elem' = [elem EXCEPT ![t] = h]
            /\ cond' = Tail(cond)
            /\ woken' = [woken EXCEPT ![h] = 1]
            /\ pc' = [pc EXCEPT ![t] = "wake_elem"]
            /\ UNCHANGED <<call, mutex, desired, kutex_address, kutex_woken,
                           timer_woken, state, signal_pending>>
        BY Zenon, <2>11, <3>2 DEF CondPop, Goto, lockVars, kutexVars
      <4> HIDE DEF h
      <4> QED
        BY Zenon, <4>1, <4>2
    <3> QED
      BY Zenon, <3>1, <3>2
  <2>12. CASE CondWake(t)
    BY SMTT(30), <2>12 DEF CondWake, Goto, Return, KutexWake, WakeThreads,
       lockVars, condVars, kutexVars
  <2>13. CASE MutexLock(t)
    BY <2>13 DEF MutexLock, Goto, BeginLock, lockVars, condVars, kutexVars
  <2>14. CASE MutexTryLock(t)
    BY Zenon, <2>14 DEF MutexTryLock, Goto, lockVars, condVars, kutexVars
  <2>15. CASE CondNotify(t)
    BY <2>15 DEF CondNotify, Goto, lockVars, condVars, kutexVars
  <2>16. CASE CondWait(t)
    <3>1. cond' \in Seq(Threads)
      BY <2>16 DEF CondWait
    <3> QED
      BY <2>16, <3>1 DEF CondWait, Goto, lockVars, kutexVars
  <2>17. CASE SetSignalPending(t)
    BY Zenon, <2>17
       DEF SetSignalPending, WakeThreads, lockVars, condVars, kutexVars
  <2>18. CASE HandleSignals(t)
    BY Zenon, <2>18 DEF HandleSignals, lockVars, condVars, kutexVars
  <2>19. CASE FutexTimeout(t)
    BY Zenon, <2>19 DEF FutexTimeout, WakeThreads, lockVars, condVars, kutexVars
  <2>20. CASE CondEnqueue(t)
    BY Zenon, <2>20 DEF CondEnqueue, Goto, KutexEnqueue, KutexSteps, Addresses,
       lockVars, condVars, kutexVars
  <2> QED
    BY Zenon, <2>0, <2>1, <2>2, <2>3, <2>4, <2>5, <2>6, <2>7, <2>8, <2>9, <2>10,
       <2>11, <2>12, <2>13, <2>14, <2>15, <2>16, <2>17, <2>18, <2>19,
       <2>20, Zenon
<1> QED
  BY Zenon, <1>1, <1>2

\* Every step keeps the relation between steps and calls.
LEMMA StructureStep ==
  ASSUME TypeOK, CallStructure, [Next]_vars
  PROVE  CallStructure'
<1> USE DEF TypeOK, CallStructure, LockCalls, WaitCalls, NotifyCalls, Steps, KutexSteps, Addresses
<1>1. CASE UNCHANGED vars
  BY Zenon, <1>1 DEF vars
<1>2. CASE Next
  <2>0. PICK t \in Threads :
           \/ KutexTestValue(t) \/ KutexYield(t) \/ KutexDequeue(t)
           \/ MutexLockCas(t) \/ MutexContendCas(t) \/ MutexEnqueue(t)
           \/ MutexUnlock(t) \/ MutexWake(t) \/ CondTestWoken(t)
           \/ CondEnqueue(t) \/ CondUnlink(t) \/ CondPop(t) \/ CondWake(t)
           \/ MutexLock(t) \/ MutexTryLock(t) \/ CondNotify(t)
           \/ CondWait(t) \/ SetSignalPending(t) \/ HandleSignals(t)
           \/ FutexTimeout(t)
    BY Zenon, <1>2, NextCases
  <2>1. CASE KutexTestValue(t)
    BY <2>1 DEF KutexTestValue, Goto, KutexSteps, lockVars, condVars, kutexVars
  <2>2. CASE KutexYield(t)
    BY <2>2 DEF KutexYield, Goto, InterruptYieldCPU, KutexSteps, lockVars, condVars, kutexVars
  <2>3. CASE KutexDequeue(t)
    BY <2>3 DEF KutexDequeue, Goto, Return, BeginLock, lockVars, condVars, kutexVars
  <2>4. CASE MutexLockCas(t)
    BY <2>4 DEF MutexLockCas, Goto, Return, lockVars, condVars, kutexVars
  <2>5. CASE MutexContendCas(t)
    BY <2>5 DEF MutexContendCas, Goto, lockVars, condVars, kutexVars
  <2>6. CASE MutexEnqueue(t)
    BY <2>6 DEF MutexEnqueue, Goto, KutexEnqueue, KutexSteps, Addresses, lockVars, condVars, kutexVars
  <2>7. CASE MutexUnlock(t)
    BY <2>7 DEF MutexUnlock, Goto, AfterUnlock, lockVars, condVars, kutexVars
  <2>8. CASE MutexWake(t)
    BY <2>8 DEF MutexWake, Goto, AfterUnlock, KutexWake, WakeThreads, lockVars, condVars, kutexVars
  <2>9. CASE CondTestWoken(t)
    BY <2>9 DEF CondTestWoken, Goto, BeginLock, lockVars, condVars, kutexVars
  <2>10. CASE CondUnlink(t)
    BY <2>10 DEF CondUnlink, Goto, Return, lockVars, condVars, kutexVars
  <2>11. CASE CondPop(t)
    BY <2>11 DEF CondPop, Goto, Return, lockVars, condVars, kutexVars
  <2>12. CASE CondWake(t)
    BY <2>12 DEF CondWake, Goto, Return, KutexWake, WakeThreads, lockVars, condVars, kutexVars
  <2>13. CASE MutexLock(t)
    BY <2>13 DEF MutexLock, Goto, BeginLock, lockVars, condVars, kutexVars
  <2>14. CASE MutexTryLock(t)
    BY <2>14 DEF MutexTryLock, Goto, lockVars, condVars, kutexVars
  <2>15. CASE CondNotify(t)
    BY <2>15 DEF CondNotify, Goto, lockVars, condVars, kutexVars
  <2>16. CASE CondWait(t)
    BY <2>16 DEF CondWait, Goto, lockVars, condVars, kutexVars
  <2>17. CASE SetSignalPending(t)
    BY Zenon, <2>17
       DEF SetSignalPending, WakeThreads, lockVars, condVars, kutexVars
  <2>18. CASE HandleSignals(t)
    BY Zenon, <2>18 DEF HandleSignals, lockVars, condVars, kutexVars
  <2>19. CASE FutexTimeout(t)
    BY Zenon, <2>19 DEF FutexTimeout, WakeThreads, lockVars, condVars, kutexVars
  <2>20. CASE CondEnqueue(t)
    BY <2>20 DEF CondEnqueue, Goto, KutexEnqueue, KutexSteps, Addresses,
       lockVars, condVars, kutexVars
  <2> QED
    BY Zenon, <2>0, <2>1, <2>2, <2>3, <2>4, <2>5, <2>6, <2>7, <2>8, <2>9, <2>10,
       <2>11, <2>12, <2>13, <2>14, <2>15, <2>16, <2>17, <2>18, <2>19,
       <2>20, Zenon
<1> QED
  BY Zenon, <1>1, <1>2

\* A step that moves the mutex neither to nor from UNLOCKED and changes no
\* thread's ownership keeps the owner unique and the word in agreement.
LEMMA OwnersKept ==
  ASSUME LockedIffOwned, MutualExclusion,
         mutex' = UNLOCKED <=> mutex = UNLOCKED,
         \A u \in Threads : Owns(u)' <=> Owns(u)
  PROVE  LockedIffOwned' /\ MutualExclusion'
BY Zenon DEF LockedIffOwned, MutualExclusion, UNLOCKED

\* Every step keeps the mutex word in agreement with its owner, and the owner
\* unique.
LEMMA ExclusionStep ==
  ASSUME TypeOK, CallStructure, LockedIffOwned, MutualExclusion, [Next]_vars
  PROVE  LockedIffOwned' /\ MutualExclusion'
<1>1. CASE UNCHANGED vars
  <2>1. UNCHANGED mutex /\ \A u \in Threads : Owns(u)' <=> Owns(u)
    BY Zenon, <1>1 DEF vars, Owns
  <2> QED
    BY Zenon, <2>1, OwnersKept
<1>2. CASE Next
  <2>0. PICK t \in Threads :
           \/ KutexTestValue(t) \/ KutexYield(t) \/ KutexDequeue(t)
           \/ MutexLockCas(t) \/ MutexContendCas(t) \/ MutexEnqueue(t)
           \/ MutexUnlock(t) \/ MutexWake(t) \/ CondTestWoken(t)
           \/ CondEnqueue(t) \/ CondUnlink(t) \/ CondPop(t) \/ CondWake(t)
           \/ MutexLock(t) \/ MutexTryLock(t) \/ CondNotify(t)
           \/ CondWait(t) \/ SetSignalPending(t) \/ HandleSignals(t)
           \/ FutexTimeout(t)
    BY Zenon, <1>2, NextCases
  <2>1. CASE KutexTestValue(t)
    <3>1. mutex' = UNLOCKED <=> mutex = UNLOCKED
      BY Zenon, <2>1 DEF KutexTestValue, lockVars
    <3>2. \A u \in Threads : Owns(u)' <=> Owns(u)
      BY <2>1 DEF KutexTestValue, TypeOK, Goto, Owns
    <3> QED
      BY Zenon, <3>1, <3>2, OwnersKept
  <2>2. CASE KutexYield(t)
    <3>1. mutex' = UNLOCKED <=> mutex = UNLOCKED
      BY Zenon, <2>2 DEF KutexYield, lockVars, InterruptYieldCPU
    <3>2. \A u \in Threads : Owns(u)' <=> Owns(u)
      BY Zenon, <2>2 DEF KutexYield, TypeOK, Goto, Owns, InterruptYieldCPU
    <3> QED
      BY Zenon, <3>1, <3>2, OwnersKept
  <2>3. CASE KutexDequeue(t)
    <3>1. mutex' = UNLOCKED <=> mutex = UNLOCKED
      BY Zenon, <2>3 DEF KutexDequeue, lockVars, BeginLock
    <3>2. \A u \in Threads : Owns(u)' <=> Owns(u)
      BY <2>3 DEF KutexDequeue, TypeOK, Goto, Owns, BeginLock
    <3> QED
      BY Zenon, <3>1, <3>2, OwnersKept
  <2>4. CASE MutexLockCas(t)
    BY SMTT(30), <2>4 DEF MutexLockCas, Goto, Return, TypeOK,
       CallStructure, LockedIffOwned, MutualExclusion, Owns, UNLOCKED,
       LOCKED, CONTENDED
  <2>5. CASE MutexContendCas(t)
    <3>1. mutex' = UNLOCKED <=> mutex = UNLOCKED
      BY <2>5 DEF MutexContendCas, UNLOCKED, LOCKED, CONTENDED, lockVars
    <3>2. \A u \in Threads : Owns(u)' <=> Owns(u)
      BY <2>5 DEF MutexContendCas, TypeOK, Goto, Owns
    <3> QED
      BY Zenon, <3>1, <3>2, OwnersKept
  <2>6. CASE MutexEnqueue(t)
    <3>1. mutex' = UNLOCKED <=> mutex = UNLOCKED
      BY Zenon, <2>6 DEF MutexEnqueue, lockVars, KutexEnqueue
    <3>2. \A u \in Threads : Owns(u)' <=> Owns(u)
      BY Zenon, <2>6 DEF MutexEnqueue, TypeOK, Goto, Owns, KutexEnqueue
    <3> QED
      BY Zenon, <3>1, <3>2, OwnersKept
  <2>7. CASE MutexUnlock(t)
    BY <2>7 DEF MutexUnlock, Goto, AfterUnlock, TypeOK,
       CallStructure, LockedIffOwned, MutualExclusion, Owns, UNLOCKED,
       LOCKED, CONTENDED
  <2>8. CASE MutexWake(t)
    <3>1. mutex' = UNLOCKED <=> mutex = UNLOCKED
      BY Zenon, <2>8 DEF MutexWake, lockVars, AfterUnlock
    <3>2. \A u \in Threads : Owns(u)' <=> Owns(u)
      BY Zenon, <2>8 DEF MutexWake, TypeOK, Goto, Owns, AfterUnlock
    <3> QED
      BY Zenon, <3>1, <3>2, OwnersKept
  <2>9. CASE CondTestWoken(t)
    <3>1. mutex' = UNLOCKED <=> mutex = UNLOCKED
      BY Zenon, <2>9 DEF CondTestWoken, lockVars, BeginLock
    <3>2. \A u \in Threads : Owns(u)' <=> Owns(u)
      BY <2>9 DEF CondTestWoken, TypeOK, Goto, Owns, BeginLock
    <3> QED
      BY Zenon, <3>1, <3>2, OwnersKept
  <2>10. CASE CondUnlink(t)
    <3>1. mutex' = UNLOCKED <=> mutex = UNLOCKED
      BY Zenon, <2>10 DEF CondUnlink, lockVars
    <3>2. \A u \in Threads : Owns(u)' <=> Owns(u)
      BY Zenon, <2>10 DEF CondUnlink, TypeOK, Goto, Owns
    <3> QED
      BY Zenon, <3>1, <3>2, OwnersKept
  <2>11. CASE CondPop(t)
    <3>1. mutex' = UNLOCKED <=> mutex = UNLOCKED
      BY Zenon, <2>11 DEF CondPop, lockVars
    <3>2. \A u \in Threads : Owns(u)' <=> Owns(u)
      BY <2>11 DEF CondPop, TypeOK, Goto, Owns
    <3> QED
      BY Zenon, <3>1, <3>2, OwnersKept
  <2>12. CASE CondWake(t)
    <3>1. pc' = [pc EXCEPT ![t] = IF call[t] = "cond_broadcast"
                                  THEN "pop" ELSE "inside"]
      BY Zenon, <2>12 DEF CondWake, Goto
    <3>2. pc[t] = "wake_elem" /\ UNCHANGED mutex
      BY Zenon, <2>12 DEF CondWake, lockVars
    <3>3. \A u \in Threads : Owns(u)' <=> Owns(u)
      BY Zenon, <3>1, <3>2 DEF TypeOK, Owns
    <3> QED
      BY Zenon, <3>2, <3>3, OwnersKept
  <2>13. CASE MutexLock(t)
    <3>1. mutex' = UNLOCKED <=> mutex = UNLOCKED
      BY Zenon, <2>13 DEF MutexLock, lockVars, BeginLock
    <3>2. \A u \in Threads : Owns(u)' <=> Owns(u)
      BY Zenon, <2>13 DEF MutexLock, TypeOK, Goto, Owns, BeginLock
    <3> QED
      BY Zenon, <3>1, <3>2, OwnersKept
  <2>14. CASE MutexTryLock(t)
    BY <2>14 DEF MutexTryLock, Goto, TypeOK,
       CallStructure, LockedIffOwned, MutualExclusion, Owns, UNLOCKED,
       LOCKED, CONTENDED
  <2>15. CASE CondNotify(t)
    <3>1. mutex' = UNLOCKED <=> mutex = UNLOCKED
      BY Zenon, <2>15 DEF CondNotify, lockVars
    <3>2. \A u \in Threads : Owns(u)' <=> Owns(u)
      BY Zenon, <2>15 DEF CondNotify, TypeOK, Goto, Owns
    <3> QED
      BY Zenon, <3>1, <3>2, OwnersKept
  <2>16. CASE CondWait(t)
    <3>1. mutex' = UNLOCKED <=> mutex = UNLOCKED
      BY Zenon, <2>16 DEF CondWait, lockVars
    <3>2. \A u \in Threads : Owns(u)' <=> Owns(u)
      BY Zenon, <2>16 DEF CondWait, TypeOK, Goto, Owns
    <3> QED
      BY Zenon, <3>1, <3>2, OwnersKept
  <2>17. CASE SetSignalPending(t)
    <3>1. mutex' = UNLOCKED <=> mutex = UNLOCKED
      BY Zenon, <2>17 DEF SetSignalPending, lockVars
    <3>2. \A u \in Threads : Owns(u)' <=> Owns(u)
      BY Zenon, <2>17 DEF SetSignalPending, TypeOK, Goto, Owns
    <3> QED
      BY Zenon, <3>1, <3>2, OwnersKept
  <2>18. CASE HandleSignals(t)
    <3>1. mutex' = UNLOCKED <=> mutex = UNLOCKED
      BY Zenon, <2>18 DEF HandleSignals, lockVars
    <3>2. \A u \in Threads : Owns(u)' <=> Owns(u)
      BY Zenon, <2>18 DEF HandleSignals, TypeOK, Goto, Owns
    <3> QED
      BY Zenon, <3>1, <3>2, OwnersKept
  <2>19. CASE FutexTimeout(t)
    <3>1. mutex' = UNLOCKED <=> mutex = UNLOCKED
      BY Zenon, <2>19 DEF FutexTimeout, lockVars
    <3>2. \A u \in Threads : Owns(u)' <=> Owns(u)
      BY Zenon, <2>19 DEF FutexTimeout, TypeOK, Goto, Owns
    <3> QED
      BY Zenon, <3>1, <3>2, OwnersKept
  <2>20. CASE CondEnqueue(t)
    <3>1. mutex' = UNLOCKED <=> mutex = UNLOCKED
      BY Zenon, <2>20 DEF CondEnqueue, lockVars, KutexEnqueue
    <3>2. \A u \in Threads : Owns(u)' <=> Owns(u)
      BY Zenon, <2>20 DEF CondEnqueue, TypeOK, Goto, Owns, KutexEnqueue
    <3> QED
      BY Zenon, <3>1, <3>2, OwnersKept
  <2> QED
    BY Zenon, <2>0, <2>1, <2>2, <2>3, <2>4, <2>5, <2>6, <2>7, <2>8, <2>9, <2>10,
       <2>11, <2>12, <2>13, <2>14, <2>15, <2>16, <2>17, <2>18, <2>19,
       <2>20, Zenon
<1> QED
  BY Zenon, <1>1, <1>2

\* Only the test in kutex_wait commits a thread to sleep.
LEMMA SleepersStep ==
  ASSUME TypeOK, CallStructure, NEW t \in Threads,
         \/ KutexYield(t) \/ KutexDequeue(t)
         \/ MutexLockCas(t) \/ MutexContendCas(t) \/ MutexEnqueue(t)
         \/ MutexUnlock(t) \/ MutexWake(t) \/ CondTestWoken(t)
         \/ CondEnqueue(t) \/ CondUnlink(t) \/ CondPop(t) \/ CondWake(t)
         \/ MutexLock(t) \/ MutexTryLock(t) \/ CondNotify(t)
         \/ CondWait(t) \/ SetSignalPending(t) \/ HandleSignals(t)
         \/ FutexTimeout(t)
  PROVE  \A v \in Threads :
           Committed(v)' => Committed(v) /\ kutex_address'[v] = kutex_address[v]
<1>2. CASE KutexYield(t)
  BY Zenon, <1>2
     DEF KutexYield, Goto, InterruptYieldCPU, Committed, TypeOK, kutexVars
<1>3. CASE KutexDequeue(t)
  BY <1>3 DEF KutexDequeue, Goto, Return, BeginLock, Committed, TypeOK,
     kutexVars, CallStructure
<1>4. CASE MutexLockCas(t)
  BY <1>4 DEF MutexLockCas, Goto, Return, Committed, TypeOK, kutexVars
<1>5. CASE MutexContendCas(t)
  BY Zenon, <1>5 DEF MutexContendCas, Goto, Committed, TypeOK, kutexVars
<1>6. CASE MutexEnqueue(t)
  BY Zenon, <1>6
     DEF MutexEnqueue, Goto, KutexEnqueue, Committed, TypeOK, kutexVars
<1>7. CASE MutexUnlock(t)
  BY Zenon, <1>7
     DEF MutexUnlock, Goto, AfterUnlock, Committed, TypeOK, kutexVars
<1>8. CASE MutexWake(t)
  BY Zenon, <1>8
     DEF MutexWake, Goto, AfterUnlock, KutexWake, WakeThreads, Committed,
     TypeOK, kutexVars
<1>9. CASE CondTestWoken(t)
  BY Zenon, <1>9
     DEF CondTestWoken, Goto, BeginLock, Committed, TypeOK, kutexVars
<1>10. CASE CondUnlink(t)
  BY Zenon, <1>10 DEF CondUnlink, Goto, Return, Committed, TypeOK, kutexVars
<1>11. CASE CondPop(t)
  BY <1>11 DEF CondPop, Goto, Return, Committed, TypeOK, kutexVars
<1>12. CASE CondWake(t)
  BY <1>12 DEF CondWake, Goto, Return, KutexWake, WakeThreads, Committed,
     TypeOK, kutexVars
<1>13. CASE MutexLock(t)
  BY Zenon, <1>13 DEF MutexLock, Goto, BeginLock, Committed, TypeOK, kutexVars
<1>14. CASE MutexTryLock(t)
  BY Zenon, <1>14 DEF MutexTryLock, Goto, Committed, TypeOK, kutexVars
<1>15. CASE CondNotify(t)
  BY Zenon, <1>15 DEF CondNotify, Goto, Committed, TypeOK, kutexVars
<1>16. CASE CondWait(t)
  BY Zenon, <1>16 DEF CondWait, Goto, Committed, TypeOK, kutexVars
<1>17. CASE SetSignalPending(t)
  BY Zenon, <1>17
     DEF SetSignalPending, WakeThreads, Committed, TypeOK, kutexVars
<1>18. CASE HandleSignals(t)
  BY Zenon, <1>18 DEF HandleSignals, Committed, TypeOK, kutexVars
<1>19. CASE FutexTimeout(t)
  BY Zenon, <1>19 DEF FutexTimeout, WakeThreads, Committed, TypeOK, kutexVars
<1>20. CASE CondEnqueue(t)
  BY Zenon, <1>20
     DEF CondEnqueue, Goto, KutexEnqueue, Committed, TypeOK, kutexVars
<1> QED
  BY Zenon, <1>2, <1>3, <1>4, <1>5, <1>6, <1>7, <1>8, <1>9, <1>10, <1>11, <1>12,
     <1>13, <1>14, <1>15, <1>16, <1>17, <1>18, <1>19, <1>20, Zenon

\* A step that commits nobody to sleep, leaves a CONTENDED mutex so and every
\* unlocker where it is keeps the promise of a wakeup.
LEMMA MutexWakersKept ==
  ASSUME NoLostMutexWakeup,
         \A v \in Threads :
           Committed(v)' => Committed(v) /\ kutex_address'[v] = kutex_address[v],
         mutex = CONTENDED => mutex' = CONTENDED,
         \A u \in Threads : pc[u] = "wake_all" => pc'[u] = "wake_all"
  PROVE  NoLostMutexWakeup'
BY Zenon DEF NoLostMutexWakeup, CONTENDED

\* Every step keeps the promise of a wakeup to the threads asleep on the mutex.
LEMMA MutexWakeupStep ==
  ASSUME TypeOK, CallStructure, NoLostMutexWakeup, [Next]_vars
  PROVE  NoLostMutexWakeup'
<1>1. CASE UNCHANGED vars
  BY Zenon, <1>1 DEF vars, NoLostMutexWakeup, Committed
<1>2. CASE Next
  <2>0. PICK t \in Threads :
           \/ KutexTestValue(t) \/ KutexYield(t) \/ KutexDequeue(t)
           \/ MutexLockCas(t) \/ MutexContendCas(t) \/ MutexEnqueue(t)
           \/ MutexUnlock(t) \/ MutexWake(t) \/ CondTestWoken(t)
           \/ CondEnqueue(t) \/ CondUnlink(t) \/ CondPop(t) \/ CondWake(t)
           \/ MutexLock(t) \/ MutexTryLock(t) \/ CondNotify(t)
           \/ CondWait(t) \/ SetSignalPending(t) \/ HandleSignals(t)
           \/ FutexTimeout(t)
    BY Zenon, <1>2, NextCases
  <2>1. CASE KutexTestValue(t)
    BY <2>1 DEF KutexTestValue, Goto, TypeOK, CallStructure, NoLostMutexWakeup,
       Committed, KutexSteps, lockVars, condVars, kutexVars, UNLOCKED, LOCKED,
       CONTENDED
  <2>2. CASE KutexYield(t)
    <3>1. mutex = CONTENDED => mutex' = CONTENDED
      BY Zenon, <2>2 DEF KutexYield, lockVars
    <3>2. \A u \in Threads : pc[u] = "wake_all" => pc'[u] = "wake_all"
      BY Zenon, <2>2 DEF KutexYield, Goto, TypeOK
    <3> QED
      BY Zenon, <2>2, <3>1, <3>2, SleepersStep, MutexWakersKept, Zenon
  <2>3. CASE KutexDequeue(t)
    <3>1. mutex = CONTENDED => mutex' = CONTENDED
      BY Zenon, <2>3 DEF KutexDequeue, lockVars
    <3>2. \A u \in Threads : pc[u] = "wake_all" => pc'[u] = "wake_all"
      BY Zenon, <2>3 DEF KutexDequeue, Goto, BeginLock, TypeOK
    <3> QED
      BY Zenon, <2>3, <3>1, <3>2, SleepersStep, MutexWakersKept, Zenon
  <2>4. CASE MutexLockCas(t)
    <3>1. mutex = CONTENDED => mutex' = CONTENDED
      BY <2>4 DEF MutexLockCas, lockVars, UNLOCKED, LOCKED, CONTENDED
    <3>2. \A u \in Threads : pc[u] = "wake_all" => pc'[u] = "wake_all"
      BY Zenon, <2>4 DEF MutexLockCas, Goto, TypeOK
    <3> QED
      BY Zenon, <2>4, <3>1, <3>2, SleepersStep, MutexWakersKept, Zenon
  <2>5. CASE MutexContendCas(t)
    <3>1. mutex = CONTENDED => mutex' = CONTENDED
      BY Zenon, <2>5 DEF MutexContendCas, lockVars, UNLOCKED, LOCKED, CONTENDED
    <3>2. \A u \in Threads : pc[u] = "wake_all" => pc'[u] = "wake_all"
      BY Zenon, <2>5 DEF MutexContendCas, Goto, TypeOK
    <3> QED
      BY Zenon, <2>5, <3>1, <3>2, SleepersStep, MutexWakersKept, Zenon
  <2>6. CASE MutexEnqueue(t)
    <3>1. mutex = CONTENDED => mutex' = CONTENDED
      BY Zenon, <2>6 DEF MutexEnqueue, lockVars
    <3>2. \A u \in Threads : pc[u] = "wake_all" => pc'[u] = "wake_all"
      BY Zenon, <2>6 DEF MutexEnqueue, Goto, KutexEnqueue, TypeOK
    <3> QED
      BY Zenon, <2>6, <3>1, <3>2, SleepersStep, MutexWakersKept, Zenon
  <2>7. CASE MutexUnlock(t)
    BY Zenon, <2>7 DEF MutexUnlock, Goto, AfterUnlock, TypeOK, CallStructure,
       NoLostMutexWakeup, Committed, KutexSteps, lockVars, condVars,
       kutexVars, UNLOCKED, LOCKED, CONTENDED
  <2>8. CASE MutexWake(t)
    BY Zenon, <2>8
       DEF MutexWake, Goto, AfterUnlock, KutexWake, WakeThreads, TypeOK,
       CallStructure, NoLostMutexWakeup, Committed, KutexSteps, lockVars,
       condVars, kutexVars, UNLOCKED, LOCKED, CONTENDED
  <2>9. CASE CondTestWoken(t)
    <3>1. mutex = CONTENDED => mutex' = CONTENDED
      BY Zenon, <2>9 DEF CondTestWoken, lockVars
    <3>2. \A u \in Threads : pc[u] = "wake_all" => pc'[u] = "wake_all"
      BY Zenon, <2>9 DEF CondTestWoken, Goto, BeginLock, TypeOK
    <3> QED
      BY Zenon, <2>9, <3>1, <3>2, SleepersStep, MutexWakersKept, Zenon
  <2>10. CASE CondUnlink(t)
    <3>1. mutex = CONTENDED => mutex' = CONTENDED
      BY Zenon, <2>10 DEF CondUnlink, lockVars
    <3>2. \A u \in Threads : pc[u] = "wake_all" => pc'[u] = "wake_all"
      BY Zenon, <2>10 DEF CondUnlink, Goto, TypeOK
    <3> QED
      BY Zenon, <2>10, <3>1, <3>2, SleepersStep, MutexWakersKept, Zenon
  <2>11. CASE CondPop(t)
    <3>1. mutex = CONTENDED => mutex' = CONTENDED
      BY Zenon, <2>11 DEF CondPop, lockVars
    <3>2. \A u \in Threads : pc[u] = "wake_all" => pc'[u] = "wake_all"
      BY Zenon, <2>11 DEF CondPop, Goto, TypeOK
    <3> QED
      BY Zenon, <2>11, <3>1, <3>2, SleepersStep, MutexWakersKept, Zenon
  <2>12. CASE CondWake(t)
    <3>1. mutex = CONTENDED => mutex' = CONTENDED
      BY Zenon, <2>12 DEF CondWake, lockVars
    <3>2. \A u \in Threads : pc[u] = "wake_all" => pc'[u] = "wake_all"
      BY Zenon, <2>12 DEF CondWake, Goto, TypeOK
    <3> QED
      BY Zenon, <2>12, <3>1, <3>2, SleepersStep, MutexWakersKept, Zenon
  <2>13. CASE MutexLock(t)
    <3>1. mutex = CONTENDED => mutex' = CONTENDED
      BY Zenon, <2>13 DEF MutexLock, lockVars
    <3>2. \A u \in Threads : pc[u] = "wake_all" => pc'[u] = "wake_all"
      BY Zenon, <2>13 DEF MutexLock, Goto, BeginLock, TypeOK
    <3> QED
      BY Zenon, <2>13, <3>1, <3>2, SleepersStep, MutexWakersKept, Zenon
  <2>14. CASE MutexTryLock(t)
    <3>1. mutex = CONTENDED => mutex' = CONTENDED
      BY <2>14 DEF MutexTryLock, lockVars, UNLOCKED, LOCKED, CONTENDED
    <3>2. \A u \in Threads : pc[u] = "wake_all" => pc'[u] = "wake_all"
      BY Zenon, <2>14 DEF MutexTryLock, Goto, TypeOK
    <3> QED
      BY Zenon, <2>14, <3>1, <3>2, SleepersStep, MutexWakersKept, Zenon
  <2>15. CASE CondNotify(t)
    <3>1. mutex = CONTENDED => mutex' = CONTENDED
      BY Zenon, <2>15 DEF CondNotify, lockVars
    <3>2. \A u \in Threads : pc[u] = "wake_all" => pc'[u] = "wake_all"
      BY Zenon, <2>15 DEF CondNotify, Goto, TypeOK
    <3> QED
      BY Zenon, <2>15, <3>1, <3>2, SleepersStep, MutexWakersKept, Zenon
  <2>16. CASE CondWait(t)
    <3>1. mutex = CONTENDED => mutex' = CONTENDED
      BY Zenon, <2>16 DEF CondWait, lockVars
    <3>2. \A u \in Threads : pc[u] = "wake_all" => pc'[u] = "wake_all"
      BY Zenon, <2>16 DEF CondWait, Goto, TypeOK
    <3> QED
      BY Zenon, <2>16, <3>1, <3>2, SleepersStep, MutexWakersKept, Zenon
  <2>17. CASE SetSignalPending(t)
    <3>1. mutex = CONTENDED => mutex' = CONTENDED
      BY Zenon, <2>17 DEF SetSignalPending, lockVars
    <3>2. \A u \in Threads : pc[u] = "wake_all" => pc'[u] = "wake_all"
      BY Zenon, <2>17 DEF SetSignalPending, TypeOK
    <3> QED
      BY Zenon, <2>17, <3>1, <3>2, SleepersStep, MutexWakersKept, Zenon
  <2>18. CASE HandleSignals(t)
    <3>1. mutex = CONTENDED => mutex' = CONTENDED
      BY Zenon, <2>18 DEF HandleSignals, lockVars
    <3>2. \A u \in Threads : pc[u] = "wake_all" => pc'[u] = "wake_all"
      BY Zenon, <2>18 DEF HandleSignals, TypeOK
    <3> QED
      BY Zenon, <2>18, <3>1, <3>2, SleepersStep, MutexWakersKept, Zenon
  <2>19. CASE FutexTimeout(t)
    <3>1. mutex = CONTENDED => mutex' = CONTENDED
      BY Zenon, <2>19 DEF FutexTimeout, lockVars
    <3>2. \A u \in Threads : pc[u] = "wake_all" => pc'[u] = "wake_all"
      BY Zenon, <2>19 DEF FutexTimeout, TypeOK
    <3> QED
      BY Zenon, <2>19, <3>1, <3>2, SleepersStep, MutexWakersKept, Zenon
  <2>20. CASE CondEnqueue(t)
    <3>1. mutex = CONTENDED => mutex' = CONTENDED
      BY Zenon, <2>20 DEF CondEnqueue, lockVars
    <3>2. \A u \in Threads : pc[u] = "wake_all" => pc'[u] = "wake_all"
      BY Zenon, <2>20 DEF CondEnqueue, Goto, KutexEnqueue, TypeOK
    <3> QED
      BY Zenon, <2>20, <3>1, <3>2, SleepersStep, MutexWakersKept, Zenon
  <2> QED
    BY Zenon, <2>0, <2>1, <2>2, <2>3, <2>4, <2>5, <2>6, <2>7, <2>8, <2>9, <2>10,
       <2>11, <2>12, <2>13, <2>14, <2>15, <2>16, <2>17, <2>18, <2>19,
       <2>20, Zenon
<1> QED
  BY Zenon, <1>1, <1>2

\* Every step keeps the list equal to the elems of the waiters not signalled.
LEMMA CondListStep ==
  ASSUME TypeOK, CallStructure, CondListExact, [Next]_vars
  PROVE  CondListExact'
<1>1. CASE UNCHANGED vars
  BY Zenon, <1>1 DEF vars, CondListExact, HasElem, Owns
<1>2. CASE Next
  <2>0. PICK t \in Threads :
           \/ KutexTestValue(t) \/ KutexYield(t) \/ KutexDequeue(t)
           \/ MutexLockCas(t) \/ MutexContendCas(t) \/ MutexEnqueue(t)
           \/ MutexUnlock(t) \/ MutexWake(t) \/ CondTestWoken(t)
           \/ CondEnqueue(t) \/ CondUnlink(t) \/ CondPop(t) \/ CondWake(t)
           \/ MutexLock(t) \/ MutexTryLock(t) \/ CondNotify(t)
           \/ CondWait(t) \/ SetSignalPending(t) \/ HandleSignals(t)
           \/ FutexTimeout(t)
    BY Zenon, <1>2, NextCases
  <2>1. CASE KutexTestValue(t)
    <3>1. UNCHANGED <<cond, woken>>
      BY Zenon, <2>1 DEF KutexTestValue, condVars
    <3>2. \A u \in Threads : HasElem(u)' <=> HasElem(u)
      BY <2>1 DEF KutexTestValue, Goto,
         TypeOK, CallStructure, HasElem, Owns, KutexSteps, LockCalls,
         WaitCalls, NotifyCalls
    <3> QED
      BY Zenon, <3>1, <3>2 DEF CondListExact
  <2>2. CASE KutexYield(t)
    <3>1. UNCHANGED <<cond, woken>>
      BY Zenon, <2>2 DEF KutexYield, condVars
    <3>2. \A u \in Threads : HasElem(u)' <=> HasElem(u)
      BY <2>2 DEF KutexYield, Goto, InterruptYieldCPU,
         TypeOK, CallStructure, HasElem, Owns, KutexSteps, LockCalls,
         WaitCalls, NotifyCalls
    <3> QED
      BY Zenon, <3>1, <3>2 DEF CondListExact
  <2>3. CASE KutexDequeue(t)
    <3>1. UNCHANGED <<cond, woken>>
      BY Zenon, <2>3 DEF KutexDequeue, condVars
    <3>2. \A u \in Threads : HasElem(u)' <=> HasElem(u)
      <4>1. /\ pc[t] = "dequeue"
            /\ \/ /\ pc'[t] \in {"lock_cas", "test_woken"}
                  /\ call'[t] = call[t]
               \/ /\ pc'[t] = "outside"
                  /\ call[t] = "lock_signal"
                  /\ call'[t] = "none"
            /\ \A u \in Threads \ {t} : pc'[u] = pc[u] /\ call'[u] = call[u]
        BY <2>3 DEF KutexDequeue, KutexSignal, Goto, Return, BeginLock, TypeOK,
           CallStructure, KutexSteps
      <4> QED
        BY Zenon, <4>1 DEF HasElem, Owns, WaitCalls
    <3> QED
      BY Zenon, <3>1, <3>2 DEF CondListExact
  <2>4. CASE MutexLockCas(t)
    <3>1. UNCHANGED <<cond, woken>>
      BY Zenon, <2>4 DEF MutexLockCas, condVars
    <3>2. \A u \in Threads : HasElem(u)' <=> HasElem(u)
      BY <2>4 DEF MutexLockCas, Goto, Return,
         TypeOK, CallStructure, HasElem, Owns, KutexSteps, LockCalls,
         WaitCalls, NotifyCalls
    <3> QED
      BY Zenon, <3>1, <3>2 DEF CondListExact
  <2>5. CASE MutexContendCas(t)
    <3>1. UNCHANGED <<cond, woken>>
      BY Zenon, <2>5 DEF MutexContendCas, condVars
    <3>2. \A u \in Threads : HasElem(u)' <=> HasElem(u)
      BY <2>5 DEF MutexContendCas, Goto,
         TypeOK, CallStructure, HasElem, Owns, KutexSteps, LockCalls,
         WaitCalls, NotifyCalls
    <3> QED
      BY Zenon, <3>1, <3>2 DEF CondListExact
  <2>6. CASE MutexEnqueue(t)
    <3>1. UNCHANGED <<cond, woken>>
      BY Zenon, <2>6 DEF MutexEnqueue, condVars
    <3>2. \A u \in Threads : HasElem(u)' <=> HasElem(u)
      BY <2>6 DEF MutexEnqueue, Goto, KutexEnqueue, Addresses,
         TypeOK, CallStructure, HasElem, Owns, KutexSteps, LockCalls,
         WaitCalls, NotifyCalls
    <3> QED
      BY Zenon, <3>1, <3>2 DEF CondListExact
  <2>7. CASE MutexUnlock(t)
    <3>1. UNCHANGED <<cond, woken>>
      BY Zenon, <2>7 DEF MutexUnlock, condVars
    <3>2. \A u \in Threads : HasElem(u)' <=> HasElem(u)
      BY <2>7 DEF MutexUnlock, Goto, AfterUnlock,
         TypeOK, CallStructure, HasElem, Owns, KutexSteps, LockCalls,
         WaitCalls, NotifyCalls
    <3> QED
      BY Zenon, <3>1, <3>2 DEF CondListExact
  <2>8. CASE MutexWake(t)
    <3>1. UNCHANGED <<cond, woken>>
      BY Zenon, <2>8 DEF MutexWake, condVars
    <3>2. \A u \in Threads : HasElem(u)' <=> HasElem(u)
      BY <2>8 DEF MutexWake, Goto, AfterUnlock, KutexWake, WakeThreads,
         TypeOK, CallStructure, HasElem, Owns, KutexSteps, LockCalls,
         WaitCalls, NotifyCalls
    <3> QED
      BY Zenon, <3>1, <3>2 DEF CondListExact
  <2>9. CASE CondTestWoken(t)
    <3>1. UNCHANGED <<cond, woken>>
      BY Zenon, <2>9 DEF CondTestWoken, condVars
    <3>2. \A u \in Threads : HasElem(u)' <=> HasElem(u)
      BY <2>9 DEF CondTestWoken, Goto, BeginLock,
         TypeOK, CallStructure, HasElem, Owns, KutexSteps, LockCalls,
         WaitCalls, NotifyCalls
    <3> QED
      BY Zenon, <3>1, <3>2 DEF CondListExact
  <2>10. CASE CondUnlink(t)
    <3>1. /\ ~HasElem(t)'
          /\ \A u \in Threads \ {t} : HasElem(u)' <=> HasElem(u)
      BY <2>10 DEF CondUnlink, Goto, Return, TypeOK, CallStructure, HasElem, Owns,
         KutexSteps, LockCalls, WaitCalls, NotifyCalls
    <3>2. UNCHANGED woken
      BY Zenon, <2>10 DEF CondUnlink
    <3>3. CASE woken[t] = 0
      <4>1. Contains(cond, t) /\ Distinct(cond)
        BY Zenon, <2>10, <3>3 DEF CondUnlink, CondListExact, HasElem
      <4>2. Position(t) \in 1..Len(cond) /\ cond[Position(t)] = t
        BY Zenon, <4>1 DEF Contains, Position
      <4>3. cond' = RemoveAt(cond, Position(t))
        BY Zenon, <2>10, <3>3 DEF CondUnlink
      <4>4. /\ Distinct(cond')
            /\ \A x : Contains(cond', x) <=> Contains(cond, x) /\ x # t
        BY <4>1, <4>2, <4>3, RemoveUnlinks DEF TypeOK
      <4> QED
        BY Zenon, <3>1, <3>2, <4>4 DEF CondListExact
    <3>4. CASE woken[t] # 0
      <4>1. UNCHANGED cond
        BY Zenon, <2>10, <3>4 DEF CondUnlink
      <4> QED
        BY Zenon, <3>1, <3>2, <3>4, <4>1 DEF CondListExact
    <3> QED
      BY Zenon, <3>3, <3>4
  <2>11. CASE CondPop(t)
    <3>1. \A u \in Threads : HasElem(u)' <=> HasElem(u)
      BY <2>11 DEF CondPop, Goto, Return,
         TypeOK, CallStructure, HasElem, Owns, KutexSteps, LockCalls,
         WaitCalls, NotifyCalls
    <3>2. CASE cond = <<>>
      BY Zenon, <2>11, <3>1, <3>2 DEF CondPop, CondListExact, condVars
    <3>3. CASE cond # <<>>
      <4> DEFINE h == Head(cond)
      <4>1. /\ h \in Threads
            /\ Contains(cond, h)
            /\ Distinct(Tail(cond))
            /\ \A x : Contains(Tail(cond), x) <=> Contains(cond, x) /\ x # h
        BY Zenon, <3>3, TailUnlinks DEF CondListExact, TypeOK
      <4>2. cond' = Tail(cond) /\ woken' = [woken EXCEPT ![h] = 1]
        BY Zenon, <2>11, <3>3 DEF CondPop
      <4> HIDE DEF h
      <4> QED
        BY <3>1, <4>1, <4>2 DEF CondListExact, TypeOK
    <3> QED
      BY Zenon, <3>2, <3>3
  <2>12. CASE CondWake(t)
    <3>1. UNCHANGED <<cond, woken>>
      BY Zenon, <2>12 DEF CondWake, condVars
    <3>2. \A u \in Threads : HasElem(u)' <=> HasElem(u)
      BY <2>12 DEF CondWake, Goto, Return, KutexWake, WakeThreads,
         TypeOK, CallStructure, HasElem, Owns, KutexSteps, LockCalls,
         WaitCalls, NotifyCalls
    <3> QED
      BY Zenon, <3>1, <3>2 DEF CondListExact
  <2>13. CASE MutexLock(t)
    <3>1. UNCHANGED <<cond, woken>>
      BY Zenon, <2>13 DEF MutexLock, condVars
    <3>2. \A u \in Threads : HasElem(u)' <=> HasElem(u)
      BY <2>13 DEF MutexLock, Goto, BeginLock,
         TypeOK, CallStructure, HasElem, Owns, KutexSteps, LockCalls,
         WaitCalls, NotifyCalls
    <3> QED
      BY Zenon, <3>1, <3>2 DEF CondListExact
  <2>14. CASE MutexTryLock(t)
    <3>1. UNCHANGED <<cond, woken>>
      BY Zenon, <2>14 DEF MutexTryLock, condVars
    <3>2. \A u \in Threads : HasElem(u)' <=> HasElem(u)
      BY <2>14 DEF MutexTryLock, Goto,
         TypeOK, CallStructure, HasElem, Owns, KutexSteps, LockCalls,
         WaitCalls, NotifyCalls
    <3> QED
      BY Zenon, <3>1, <3>2 DEF CondListExact
  <2>15. CASE CondNotify(t)
    <3>1. UNCHANGED <<cond, woken>>
      BY Zenon, <2>15 DEF CondNotify, condVars
    <3>2. \A u \in Threads : HasElem(u)' <=> HasElem(u)
      BY <2>15 DEF CondNotify, Goto,
         TypeOK, CallStructure, HasElem, Owns, KutexSteps, LockCalls,
         WaitCalls, NotifyCalls
    <3> QED
      BY Zenon, <3>1, <3>2 DEF CondListExact
  <2>16. CASE CondWait(t)
    <3>1. ~Contains(cond, t) /\ Distinct(cond)
      BY Zenon, <2>16
         DEF CondWait, CondListExact, HasElem, Owns, CallStructure, WaitCalls
    <3>2. /\ Distinct(cond')
          /\ \A x : Contains(cond', x) <=> Contains(cond, x) \/ x = t
      BY Zenon, <2>16, <3>1, AppendLinks DEF CondWait, TypeOK
    <3>3. /\ HasElem(t)' /\ woken'[t] = 0
          /\ \A u \in Threads \ {t} : /\ HasElem(u)' <=> HasElem(u)
                                     /\ woken'[u] = woken[u]
      BY <2>16 DEF CondWait, Goto, TypeOK, CallStructure, HasElem, Owns,
         KutexSteps, LockCalls, WaitCalls, NotifyCalls
    <3> QED
      BY Zenon, <3>2, <3>3 DEF CondListExact
  <2>17. CASE SetSignalPending(t)
    <3>1. UNCHANGED <<cond, woken>>
      BY Zenon, <2>17 DEF SetSignalPending, condVars
    <3>2. \A u \in Threads : HasElem(u)' <=> HasElem(u)
      BY Zenon, <2>17 DEF SetSignalPending, WakeThreads,
         TypeOK, CallStructure, HasElem, Owns, KutexSteps, LockCalls,
         WaitCalls, NotifyCalls
    <3> QED
      BY Zenon, <3>1, <3>2 DEF CondListExact
  <2>18. CASE HandleSignals(t)
    <3>1. UNCHANGED <<cond, woken>>
      BY Zenon, <2>18 DEF HandleSignals, condVars
    <3>2. \A u \in Threads : HasElem(u)' <=> HasElem(u)
      BY Zenon, <2>18 DEF HandleSignals,
         TypeOK, CallStructure, HasElem, Owns, KutexSteps, LockCalls,
         WaitCalls, NotifyCalls
    <3> QED
      BY Zenon, <3>1, <3>2 DEF CondListExact
  <2>19. CASE FutexTimeout(t)
    <3>1. UNCHANGED <<cond, woken>>
      BY Zenon, <2>19 DEF FutexTimeout, condVars
    <3>2. \A u \in Threads : HasElem(u)' <=> HasElem(u)
      BY Zenon, <2>19 DEF FutexTimeout, WakeThreads,
         TypeOK, CallStructure, HasElem, Owns, KutexSteps, LockCalls,
         WaitCalls, NotifyCalls
    <3> QED
      BY Zenon, <3>1, <3>2 DEF CondListExact
  <2>20. CASE CondEnqueue(t)
    <3>1. UNCHANGED <<cond, woken>>
      BY Zenon, <2>20 DEF CondEnqueue, condVars
    <3>2. \A u \in Threads : HasElem(u)' <=> HasElem(u)
      BY ZenonT(30), <2>20 DEF CondEnqueue, Goto, KutexEnqueue, Addresses,
         TypeOK, CallStructure, HasElem, Owns, KutexSteps, LockCalls,
         WaitCalls, NotifyCalls
    <3> QED
      BY Zenon, <3>1, <3>2 DEF CondListExact
  <2> QED
    BY Zenon, <2>0, <2>1, <2>2, <2>3, <2>4, <2>5, <2>6, <2>7, <2>8, <2>9, <2>10,
       <2>11, <2>12, <2>13, <2>14, <2>15, <2>16, <2>17, <2>18, <2>19,
       <2>20, Zenon
<1> QED
  BY Zenon, <1>1, <1>2

\* What NoLostCondWakeup says beyond CondListExact.
SignalledWillWake ==
  \A t \in Threads :
    Committed(t) /\ kutex_address[t] = "elem" =>
      \/ woken[t] = 0
      \/ \E u \in Threads : pc[u] = "wake_elem" /\ elem[u] = t

\* A step that commits nobody to sleep, takes no elem out of the list and
\* leaves every signaller where it is keeps the promise of a wakeup.
LEMMA SignallersKept ==
  ASSUME SignalledWillWake,
         \A v \in Threads :
           Committed(v)' => Committed(v) /\ kutex_address'[v] = kutex_address[v],
         \A v \in Threads : woken[v] = 0 => woken'[v] = 0,
         \A u \in Threads : pc[u] = "wake_elem" => pc'[u] = "wake_elem",
         UNCHANGED elem
  PROVE  SignalledWillWake'
BY Zenon DEF SignalledWillWake

\* Every step keeps the promise of a wakeup to the signalled waiters.
LEMMA SignalStep ==
  ASSUME TypeOK, CallStructure, SignalledWillWake, [Next]_vars
  PROVE  SignalledWillWake'
<1>1. CASE UNCHANGED vars
  BY Zenon, <1>1 DEF vars, SignalledWillWake, Committed
<1>2. CASE Next
  <2>0. PICK t \in Threads :
           \/ KutexTestValue(t) \/ KutexYield(t) \/ KutexDequeue(t)
           \/ MutexLockCas(t) \/ MutexContendCas(t) \/ MutexEnqueue(t)
           \/ MutexUnlock(t) \/ MutexWake(t) \/ CondTestWoken(t)
           \/ CondEnqueue(t) \/ CondUnlink(t) \/ CondPop(t) \/ CondWake(t)
           \/ MutexLock(t) \/ MutexTryLock(t) \/ CondNotify(t)
           \/ CondWait(t) \/ SetSignalPending(t) \/ HandleSignals(t)
           \/ FutexTimeout(t)
    BY Zenon, <1>2, NextCases
  <2>1. CASE KutexTestValue(t)
    <3>1. /\ UNCHANGED <<woken, elem, kutex_address, kutex_woken, state>>
          /\ pc[t] = "test_value"
          /\ \A u \in Threads \ {t} : pc'[u] = pc[u]
          /\ pc'[t] = "yield" /\ kutex_address[t] # "mutex" => woken[t] = 0
          /\ pc'[t] = "dequeue" => state[t] = "RUNNABLE"
      BY Zenon, <2>1 DEF KutexTestValue, Goto, TypeOK, CallStructure, condVars,
         kutexVars
    <3>2. ASSUME NEW v \in Threads, Committed(v)', kutex_address'[v] = "elem"
          PROVE  \/ woken'[v] = 0
                 \/ \E u \in Threads : pc'[u] = "wake_elem" /\ elem'[u] = v
      <4>1. CASE v = t
        BY Zenon, <3>1, <3>2, <4>1 DEF Committed
      <4>2. CASE v # t
        <5>1. Committed(v) /\ kutex_address[v] = "elem"
          BY Zenon, <3>1, <3>2, <4>2 DEF Committed
        <5>2. \A u \in Threads : pc[u] = "wake_elem" => pc'[u] = "wake_elem"
          BY Zenon, <3>1
        <5> QED
          BY Zenon, <3>1, <5>1, <5>2 DEF SignalledWillWake
      <4> QED
        BY Zenon, <4>1, <4>2
    <3> QED
      BY Zenon, <3>2 DEF SignalledWillWake
  <2>2. CASE KutexYield(t)
    <3>1. UNCHANGED <<woken, elem>>
      BY Zenon, <2>2 DEF KutexYield, condVars
    <3>2. \A u \in Threads : pc[u] = "wake_elem" => pc'[u] = "wake_elem"
      BY Zenon, <2>2 DEF KutexYield, Goto, TypeOK
    <3> QED
      BY Zenon, <2>2, <3>1, <3>2, SleepersStep, SignallersKept, Zenon
  <2>3. CASE KutexDequeue(t)
    <3>1. UNCHANGED <<woken, elem>>
      BY Zenon, <2>3 DEF KutexDequeue, condVars
    <3>2. \A u \in Threads : pc[u] = "wake_elem" => pc'[u] = "wake_elem"
      BY Zenon, <2>3 DEF KutexDequeue, Goto, BeginLock, TypeOK
    <3> QED
      BY Zenon, <2>3, <3>1, <3>2, SleepersStep, SignallersKept, Zenon
  <2>4. CASE MutexLockCas(t)
    <3>1. UNCHANGED <<woken, elem>>
      BY Zenon, <2>4 DEF MutexLockCas, condVars
    <3>2. \A u \in Threads : pc[u] = "wake_elem" => pc'[u] = "wake_elem"
      BY Zenon, <2>4 DEF MutexLockCas, Goto, TypeOK
    <3> QED
      BY Zenon, <2>4, <3>1, <3>2, SleepersStep, SignallersKept, Zenon
  <2>5. CASE MutexContendCas(t)
    <3>1. UNCHANGED <<woken, elem>>
      BY Zenon, <2>5 DEF MutexContendCas, condVars
    <3>2. \A u \in Threads : pc[u] = "wake_elem" => pc'[u] = "wake_elem"
      BY Zenon, <2>5 DEF MutexContendCas, Goto, TypeOK
    <3> QED
      BY Zenon, <2>5, <3>1, <3>2, SleepersStep, SignallersKept, Zenon
  <2>6. CASE MutexEnqueue(t)
    <3>1. UNCHANGED <<woken, elem>>
      BY Zenon, <2>6 DEF MutexEnqueue, condVars
    <3>2. \A u \in Threads : pc[u] = "wake_elem" => pc'[u] = "wake_elem"
      BY Zenon, <2>6 DEF MutexEnqueue, Goto, KutexEnqueue, TypeOK
    <3> QED
      BY Zenon, <2>6, <3>1, <3>2, SleepersStep, SignallersKept, Zenon
  <2>7. CASE MutexUnlock(t)
    <3>1. UNCHANGED <<woken, elem>>
      BY Zenon, <2>7 DEF MutexUnlock, condVars
    <3>2. \A u \in Threads : pc[u] = "wake_elem" => pc'[u] = "wake_elem"
      BY Zenon, <2>7 DEF MutexUnlock, Goto, TypeOK
    <3> QED
      BY Zenon, <2>7, <3>1, <3>2, SleepersStep, SignallersKept, Zenon
  <2>8. CASE MutexWake(t)
    <3>1. UNCHANGED <<woken, elem>>
      BY Zenon, <2>8 DEF MutexWake, condVars
    <3>2. \A u \in Threads : pc[u] = "wake_elem" => pc'[u] = "wake_elem"
      BY Zenon, <2>8 DEF MutexWake, Goto, TypeOK
    <3> QED
      BY Zenon, <2>8, <3>1, <3>2, SleepersStep, SignallersKept, Zenon
  <2>9. CASE CondTestWoken(t)
    <3>1. UNCHANGED <<woken, elem>>
      BY Zenon, <2>9 DEF CondTestWoken, condVars
    <3>2. \A u \in Threads : pc[u] = "wake_elem" => pc'[u] = "wake_elem"
      BY Zenon, <2>9 DEF CondTestWoken, Goto, BeginLock, TypeOK
    <3> QED
      BY Zenon, <2>9, <3>1, <3>2, SleepersStep, SignallersKept, Zenon
  <2>10. CASE CondUnlink(t)
    <3>1. UNCHANGED <<woken, elem>>
      BY Zenon, <2>10 DEF CondUnlink, condVars
    <3>2. \A u \in Threads : pc[u] = "wake_elem" => pc'[u] = "wake_elem"
      BY Zenon, <2>10 DEF CondUnlink, Goto, TypeOK
    <3> QED
      BY Zenon, <2>10, <3>1, <3>2, SleepersStep, SignallersKept, Zenon
  <2>11. CASE CondPop(t)
    <3>1. CASE cond = <<>>
      <4>1. UNCHANGED <<woken, elem>>
        BY Zenon, <2>11, <3>1 DEF CondPop, condVars
      <4>2. \A u \in Threads : pc[u] = "wake_elem" => pc'[u] = "wake_elem"
        BY Zenon, <2>11, <3>1 DEF CondPop, Goto, TypeOK
      <4> QED
        BY Zenon, <2>11, <4>1, <4>2, SleepersStep, SignallersKept, Zenon
    <3>2. CASE cond # <<>>
      <4> DEFINE h == Head(cond)
      <4>1. h \in Threads
        BY <3>2 DEF TypeOK
      <4>2. /\ pc[t] = "pop" /\ pc' = [pc EXCEPT ![t] = "wake_elem"]
            /\ elem' = [elem EXCEPT ![t] = h]
            /\ woken' = [woken EXCEPT ![h] = 1]
            /\ UNCHANGED <<kutex_address, kutex_woken, state>>
        BY Zenon, <2>11, <3>2 DEF CondPop, Goto, kutexVars
      <4> HIDE DEF h
      <4>3. ASSUME NEW v \in Threads, Committed(v)', kutex_address'[v] = "elem"
            PROVE  \/ woken'[v] = 0
                   \/ \E u \in Threads : pc'[u] = "wake_elem" /\ elem'[u] = v
        <5>1. CASE v = h
          BY Zenon, <4>1, <4>2, <5>1 DEF TypeOK
        <5>2. CASE v # h
          BY <4>1, <4>2, <4>3, <5>2 DEF TypeOK, SignalledWillWake, Committed
        <5> QED
          BY Zenon, <5>1, <5>2
      <4> QED
        BY Zenon, <4>3 DEF SignalledWillWake
    <3> QED
      BY Zenon, <3>1, <3>2
  <2>12. CASE CondWake(t)
    <3>1. /\ pc[t] = "wake_elem" /\ pc'[t] \in {"pop", "inside"}
          /\ \A u \in Threads \ {t} : pc'[u] = pc[u]
          /\ UNCHANGED <<woken, elem, kutex_address>>
      BY Zenon, <2>12 DEF CondWake, Goto, condVars, TypeOK
    <3>2. \A v \in Threads :
            /\ kutex_woken[v] => kutex_woken'[v]
            /\ state'[v] = "FUTEX_WAITING" => state[v] = "FUTEX_WAITING"
            /\ v = elem[t] /\ kutex_address[v] = "elem" => kutex_woken'[v]
      BY Zenon, <2>12 DEF CondWake, KutexWake, WakeThreads, TypeOK
    <3>3. ASSUME NEW v \in Threads, Committed(v)', kutex_address'[v] = "elem"
          PROVE  \/ woken'[v] = 0
                 \/ \E u \in Threads : pc'[u] = "wake_elem" /\ elem'[u] = v
      <4>1. v # t /\ v # elem[t] /\ Committed(v) /\ kutex_address[v] = "elem"
        BY Zenon, <3>1, <3>2, <3>3 DEF Committed
      <4>2. CASE woken[v] = 0
        BY Zenon, <3>1, <4>2
      <4>3. CASE \E u \in Threads : pc[u] = "wake_elem" /\ elem[u] = v
        <5>1. PICK u \in Threads : pc[u] = "wake_elem" /\ elem[u] = v
          BY Zenon, <4>3
        <5>2. u # t
          BY Zenon, <4>1, <5>1
        <5> QED
          BY Zenon, <3>1, <5>1, <5>2
      <4> QED
        BY Zenon, <4>1, <4>2, <4>3 DEF SignalledWillWake
    <3> QED
      BY Zenon, <3>3 DEF SignalledWillWake
  <2>13. CASE MutexLock(t)
    <3>1. UNCHANGED <<woken, elem>>
      BY Zenon, <2>13 DEF MutexLock, condVars
    <3>2. \A u \in Threads : pc[u] = "wake_elem" => pc'[u] = "wake_elem"
      BY Zenon, <2>13 DEF MutexLock, Goto, BeginLock, TypeOK
    <3> QED
      BY Zenon, <2>13, <3>1, <3>2, SleepersStep, SignallersKept, Zenon
  <2>14. CASE MutexTryLock(t)
    <3>1. UNCHANGED <<woken, elem>>
      BY Zenon, <2>14 DEF MutexTryLock, condVars
    <3>2. \A u \in Threads : pc[u] = "wake_elem" => pc'[u] = "wake_elem"
      BY Zenon, <2>14 DEF MutexTryLock, Goto, TypeOK
    <3> QED
      BY Zenon, <2>14, <3>1, <3>2, SleepersStep, SignallersKept, Zenon
  <2>15. CASE CondNotify(t)
    <3>1. UNCHANGED <<woken, elem>>
      BY Zenon, <2>15 DEF CondNotify, condVars
    <3>2. \A u \in Threads : pc[u] = "wake_elem" => pc'[u] = "wake_elem"
      BY Zenon, <2>15 DEF CondNotify, Goto, TypeOK
    <3> QED
      BY Zenon, <2>15, <3>1, <3>2, SleepersStep, SignallersKept, Zenon
  <2>16. CASE CondWait(t)
    <3>1. UNCHANGED elem /\ \A v \in Threads : woken[v] = 0 => woken'[v] = 0
      BY Zenon, <2>16 DEF CondWait, condVars, TypeOK
    <3>2. \A u \in Threads : pc[u] = "wake_elem" => pc'[u] = "wake_elem"
      BY Zenon, <2>16 DEF CondWait, Goto, TypeOK
    <3> QED
      BY Zenon, <2>16, <3>1, <3>2, SleepersStep, SignallersKept, Zenon
  <2>17. CASE SetSignalPending(t)
    <3>1. UNCHANGED <<woken, elem>>
      BY Zenon, <2>17 DEF SetSignalPending, condVars
    <3>2. \A u \in Threads : pc[u] = "wake_elem" => pc'[u] = "wake_elem"
      BY Zenon, <2>17 DEF SetSignalPending, TypeOK
    <3> QED
      BY Zenon, <2>17, <3>1, <3>2, SleepersStep, SignallersKept, Zenon
  <2>18. CASE HandleSignals(t)
    <3>1. UNCHANGED <<woken, elem>>
      BY Zenon, <2>18 DEF HandleSignals, condVars
    <3>2. \A u \in Threads : pc[u] = "wake_elem" => pc'[u] = "wake_elem"
      BY Zenon, <2>18 DEF HandleSignals, TypeOK
    <3> QED
      BY Zenon, <2>18, <3>1, <3>2, SleepersStep, SignallersKept, Zenon
  <2>19. CASE FutexTimeout(t)
    <3>1. UNCHANGED <<woken, elem>>
      BY Zenon, <2>19 DEF FutexTimeout, condVars
    <3>2. \A u \in Threads : pc[u] = "wake_elem" => pc'[u] = "wake_elem"
      BY Zenon, <2>19 DEF FutexTimeout, TypeOK
    <3> QED
      BY Zenon, <2>19, <3>1, <3>2, SleepersStep, SignallersKept, Zenon
  <2>20. CASE CondEnqueue(t)
    <3>1. UNCHANGED <<woken, elem>>
      BY Zenon, <2>20 DEF CondEnqueue, condVars
    <3>2. \A u \in Threads : pc[u] = "wake_elem" => pc'[u] = "wake_elem"
      BY Zenon, <2>20 DEF CondEnqueue, Goto, KutexEnqueue, TypeOK
    <3> QED
      BY Zenon, <2>20, <3>1, <3>2, SleepersStep, SignallersKept, Zenon
  <2> QED
    BY Zenon, <2>0, <2>1, <2>2, <2>3, <2>4, <2>5, <2>6, <2>7, <2>8, <2>9, <2>10,
       <2>11, <2>12, <2>13, <2>14, <2>15, <2>16, <2>17, <2>18, <2>19,
       <2>20, Zenon
<1> QED
  BY Zenon, <1>1, <1>2

\* Given an exact list, the two say the same: a waiter not signalled is linked.
LEMMA SignalledIsCondWakeup ==
  ASSUME TypeOK, CallStructure, CondListExact
  PROVE  SignalledWillWake <=> NoLostCondWakeup
<1>1. ASSUME NEW t \in Threads, Committed(t), kutex_address[t] = "elem", woken[t] = 0
      PROVE  Contains(cond, t)
  BY Zenon, <1>1 DEF CallStructure, CondListExact, HasElem, Owns, Committed
<1> QED
  BY Zenon, <1>1 DEF SignalledWillWake, NoLostCondWakeup

-----------------------------------------------------------------------------
(* The theorems.                                                           *)

\* IInv holds in every reachable state.
THEOREM Invariance == Spec => []IInv
<1>1. Init => IInv
  <2> SUFFICES ASSUME Init PROVE IInv
    BY Zenon
  <2>1. TypeOK
    BY DEF Init, TypeOK, Steps, UNLOCKED, LOCKED, CONTENDED
  <2>2. CallStructure /\ LockedIffOwned /\ MutualExclusion
    BY Zenon
       DEF Init, CallStructure, LockedIffOwned, MutualExclusion, Owns,
       KutexSteps,
       LockCalls, WaitCalls
  <2>3. CondListExact
    BY DEF Init, CondListExact, Distinct, Contains, HasElem, WaitCalls
  <2>4. NoLostMutexWakeup /\ NoLostCondWakeup
    BY Zenon DEF Init, NoLostMutexWakeup, NoLostCondWakeup, Committed
  <2> QED
    BY Zenon, <2>1, <2>2, <2>3, <2>4 DEF IInv
<1>2. IInv /\ [Next]_vars => IInv'
  <2> SUFFICES ASSUME IInv, [Next]_vars PROVE IInv'
    BY Zenon
  <2>1. TypeOK /\ CallStructure /\ CondListExact /\ SignalledWillWake
    BY Zenon, SignalledIsCondWakeup DEF IInv
  <2>2. TypeOK' /\ CallStructure' /\ CondListExact'
    BY Zenon, <2>1, TypeStep, StructureStep, CondListStep
  <2>3. LockedIffOwned' /\ MutualExclusion' /\ NoLostMutexWakeup'
    BY Zenon, <2>1, ExclusionStep, MutexWakeupStep DEF IInv
  <2>4. SignalledWillWake'
    BY Zenon, <2>1, SignalStep
  <2>5. NoLostCondWakeup'
    <3>1. (TypeOK /\ CallStructure /\ CondListExact /\ SignalledWillWake
            => NoLostCondWakeup)'
      BY SignalledIsCondWakeup, PTL
    <3> QED
      BY Zenon, <2>2, <2>4, <3>1
  <2> QED
    BY Zenon, <2>2, <2>3, <2>5 DEF IInv
<1> QED
  BY <1>1, <1>2, PTL DEF Spec

\* The variables keep their types.
THEOREM TypeCorrect == Spec => []TypeOK
<1>1. IInv => TypeOK
  BY Zenon DEF IInv
<1> QED
  BY <1>1, Invariance, PTL

\* kthread_mutex_lock, _lock_signal and _trylock exclude each other, for any
\* number of threads.
THEOREM MutexExcludes == Spec => []MutualExclusion
<1>1. IInv => MutualExclusion
  BY Zenon DEF IInv
<1> QED
  BY <1>1, Invariance, PTL

\* No thread sleeps in kthread_mutex_lock without a wakeup on its way.
THEOREM MutexWakes == Spec => []NoLostMutexWakeup
<1>1. IInv => NoLostMutexWakeup
  BY Zenon DEF IInv
<1> QED
  BY <1>1, Invariance, PTL

\* No signalled thread sleeps in kthread_cond_wait without a wakeup on its way.
THEOREM CondWakes == Spec => []NoLostCondWakeup
<1>1. IInv => NoLostCondWakeup
  BY Zenon DEF IInv
<1> QED
  BY <1>1, Invariance, PTL

\* The list of a condition variable only links elems of stack frames that
\* still exist, and all of those not signalled.
THEOREM CondListIsExact == Spec => []CondListExact
<1>1. IInv => CondListExact
  BY Zenon DEF IInv
<1> QED
  BY <1>1, Invariance, PTL

-----------------------------------------------------------------------------
(* KThread implements Monitor for every set of threads: every step of the  *)
(* mutex, the condition variable and the kutex list maps to one step of    *)
(* the monitor or to none.                                                 *)

-----------------------------------------------------------------------------
(* Lists without the owner's elem.                                         *)

LEMMA UnlinkNone ==
  ASSUME NEW s, NEW S, \A x \in S : ~Contains(s, x)
  PROVE  Unlinked(s, S) = s
BY Zenon DEF Unlinked, Contains

LEMMA UnlinkAt ==
  ASSUME NEW s, NEW S, NEW p \in 1..Len(s), Distinct(s), S = {s[p]}
  PROVE  Unlinked(s, S) = RemoveAt(s, p)
<1>1. \A i \in 1..Len(s) : s[i] \in S <=> i = p
  BY Zenon DEF Distinct
<1>2. (CHOOSE i \in 1..Len(s) : s[i] \in S) = p
  BY Zenon, <1>1
<1> QED
  BY Zenon, <1>1, <1>2 DEF Unlinked

\* kthread_cond_wait links its elem at the end.
LEMMA UnlinkLast ==
  ASSUME NEW T, NEW s \in Seq(T), NEW e \in T
  PROVE  RemoveAt(Append(s, e), Len(s) + 1) = s
<1> DEFINE r == Append(s, e)
<1>1. /\ r \in Seq(T) /\ Len(s) \in Nat /\ Len(r) = Len(s) + 1
      /\ \A i \in 1..Len(s) : r[i] = s[i]
  OBVIOUS
<1>2. SubSeq(r, 1, Len(s)) = s
  OBVIOUS
<1>3. SubSeq(r, Len(s) + 2, Len(r)) = <<>>
  BY <1>1
<1>4. s \o <<>> = s
  OBVIOUS
<1> QED
  BY <1>1, <1>2, <1>3, <1>4 DEF RemoveAt

LEMMA LastIsAppended ==
  ASSUME NEW T, NEW s \in Seq(T), s # <<>>
  PROVE  /\ Len(s) \in Nat \ {0}
         /\ RemoveAt(s, Len(s)) \in Seq(T)
         /\ s = Append(RemoveAt(s, Len(s)), s[Len(s)])
<1>1. PICK n \in Nat : Len(s) = n + 1
  <2>1. Len(s) \in Nat /\ Len(s) # 0
    OBVIOUS
  <2>2. Len(s) - 1 \in Nat /\ Len(s) = (Len(s) - 1) + 1
    BY <2>1
  <2> QED
    BY Zenon, <2>2
<1> DEFINE f == SubSeq(s, 1, n)
<1>2. f \in Seq(T) /\ Len(f) = n /\ \A i \in 1..n : f[i] = s[i]
  <2>1. \A i \in 1..n : s[i] \in T
    BY <1>1
  <2>2. /\ f \in Seq(T)
        /\ Len(f) = IF 1 <= n THEN n - 1 + 1 ELSE 0
        /\ \A i \in 1..n - 1 + 1 : f[i] = s[1 + i - 1]
    BY <1>1, <2>1
  <2> QED
    BY <1>1, <2>2
<1>3. RemoveAt(s, Len(s)) = f
  <2>1. SubSeq(s, n + 2, n + 1) = <<>>
    BY <1>1
  <2>2. f \o <<>> = f
    BY <1>2
  <2>3. RemoveAt(s, n + 1) = f
    BY <1>1, <2>1, <2>2 DEF RemoveAt
  <2> QED
    BY Zenon, <1>1, <2>3
<1>4. s = Append(f, s[n + 1])
  BY <1>1, <1>2
<1>5. Len(s) \in Nat \ {0}
  BY <1>1
<1> HIDE DEF f
<1> QED
  BY Zenon, <1>1, <1>2, <1>3, <1>4, <1>5

-----------------------------------------------------------------------------
(* The invariant of the refinement.                                        *)

\* Between the append and the exchange of kthread_cond_wait the waiter's elem
\* is the last of the list: the owner has let no other thread in.
LinkedLast ==
  \A t \in Threads :
    pc[t] = "unlock" => woken[t] = 0 /\ cond # <<>> /\ cond[Len(cond)] = t

LEMMA LinkedLastStep ==
  ASSUME IInv, LinkedLast, [Next]_vars
  PROVE  LinkedLast'
<1> USE DEF IInv
<1>1. CASE UNCHANGED vars
  BY Zenon, <1>1 DEF vars, LinkedLast
<1>2. CASE Next
  <2>0. PICK t \in Threads :
           \/ KutexTestValue(t) \/ KutexYield(t) \/ KutexDequeue(t)
           \/ MutexLockCas(t) \/ MutexContendCas(t) \/ MutexEnqueue(t)
           \/ MutexUnlock(t) \/ MutexWake(t) \/ CondTestWoken(t)
           \/ CondEnqueue(t) \/ CondUnlink(t) \/ CondPop(t) \/ CondWake(t)
           \/ MutexLock(t) \/ MutexTryLock(t) \/ CondNotify(t)
           \/ CondWait(t) \/ SetSignalPending(t) \/ HandleSignals(t)
           \/ FutexTimeout(t)
    BY Zenon, <1>2, NextCases
  <2>1. CASE CondWait(t)
    <3>1. /\ cond' = Append(cond, t) /\ woken' = [woken EXCEPT ![t] = 0]
          /\ \A u \in Threads : u # t => pc'[u] = pc[u]
          /\ Owns(t)
      BY Zenon, <2>1 DEF CondWait, Goto, TypeOK, Owns
    <3>2. cond' # <<>> /\ cond'[Len(cond')] = t /\ woken'[t] = 0
      <4>1. cond \in Seq(Threads) /\ t \in Threads
        BY Zenon DEF TypeOK
      <4>2. Append(cond, t)[Len(Append(cond, t))] = t /\ Append(cond, t) # <<>>
        BY <4>1
      <4> QED
        BY Zenon, <3>1, <4>2 DEF TypeOK
    <3>3. \A u \in Threads : u # t => pc'[u] # "unlock"
      BY Zenon, <3>1 DEF MutualExclusion, Owns
    <3> QED
      BY Zenon, <3>2, <3>3 DEF LinkedLast
  <2>2. CASE CondUnlink(t) \/ CondPop(t)
    <3>1. /\ \A u \in Threads : u # t => pc'[u] = pc[u]
          /\ pc'[t] # "unlock" /\ Owns(t)
      BY ZenonT(30), <2>2 DEF CondUnlink, CondPop, Goto, TypeOK, Owns
    <3>2. \A u \in Threads : pc'[u] # "unlock"
      BY Zenon, <3>1 DEF MutualExclusion, Owns
    <3> QED
      BY Zenon, <3>2 DEF LinkedLast
  <2>3. CASE ~(CondWait(t) \/ CondUnlink(t) \/ CondPop(t))
    <3>1. UNCHANGED <<cond, woken>>
      BY Zenon, <2>0, <2>3
         DEF KutexTestValue, KutexYield, KutexDequeue, MutexLockCas,
         MutexContendCas, MutexEnqueue, MutexUnlock, MutexWake, CondTestWoken,
         CondEnqueue, CondWake, MutexLock, MutexTryLock, CondNotify,
         SetSignalPending, HandleSignals, FutexTimeout, condVars
    <3>2. \A u \in Threads : pc'[u] = "unlock" => pc[u] = "unlock"
      BY <2>0, <2>3 DEF KutexTestValue, KutexYield, KutexDequeue, MutexLockCas,
         MutexContendCas, MutexEnqueue, MutexUnlock, MutexWake, CondTestWoken,
         CondEnqueue, CondWake, MutexLock, MutexTryLock, CondNotify,
         SetSignalPending, HandleSignals, FutexTimeout, Goto, BeginLock,
         KutexEnqueue, AfterUnlock, TypeOK
    <3> QED
      BY Zenon, <3>1, <3>2 DEF LinkedLast
  <2> QED
    BY Zenon, <2>1, <2>2, <2>3
<1> QED
  BY Zenon, <1>1, <1>2

-----------------------------------------------------------------------------
(* What a step of one thread does to the monitor.                          *)

\* A step of t leaves the other threads where they are.
LEMMA OthersStay ==
  ASSUME NEW t \in Threads,
         \A u \in Threads \ {t} :
           /\ pc'[u] = pc[u] /\ kutex_address'[u] = kutex_address[u]
           /\ call'[u] = call[u] /\ woken'[u] = woken[u]
  PROVE  \A u \in Threads \ {t} :
           /\ Owns(u)' <=> Owns(u)
           /\ MonitorStatus(u)' = MonitorStatus(u)
<1>1. \A u \in Threads \ {t} : (Owns(u)' <=> Owns(u)) /\ (Locking(u)' <=> Locking(u))
  BY Zenon DEF Owns, Locking
<1> QED
  BY Zenon, <1>1 DEF MonitorStatus

\* t moves to another place and the others stay.
LEMMA Moves ==
  ASSUME NEW t \in Threads, NEW s, MonitorStatus(t)' = s,
         \A u \in Threads \ {t} : MonitorStatus(u)' = MonitorStatus(u)
  PROVE  [u \in Threads |-> MonitorStatus(u)'] =
           [[u \in Threads |-> MonitorStatus(u)] EXCEPT ![t] = s]
BY Zenon

\* A step that changes neither the owner nor the list leaves the monitor's
\* queue.
LEMMA QueueStays ==
  ASSUME cond' = cond, \A u \in Threads : Owns(u)' <=> Owns(u)
  PROVE  Owners' = Owners /\ Unlinked(cond, Owners)' = Unlinked(cond, Owners)
<1>1. Owners' = Owners
  BY Zenon DEF Owners
<1> QED
  BY Zenon, <1>1 DEF Unlinked, RemoveAt

\* A step that changes neither the owner nor the list nor anybody's place does
\* not show.
LEMMA Stutters ==
  ASSUME cond' = cond,
         \A u \in Threads : Owns(u)' <=> Owns(u),
         \A u \in Threads : MonitorStatus(u)' = MonitorStatus(u)
  PROVE  UNCHANGED M!vars
BY Zenon, QueueStays DEF M!vars

\* The owner's elem is linked only in kthread_cond_wait.
LEMMA OwnerIsAlone ==
  ASSUME IInv, NEW t \in Threads, Owns(t)
  PROVE  /\ Owners = {t}
         /\ pc[t] \in {"inside", "pop", "wake_elem"} =>
              ~Contains(cond, t) /\ Unlinked(cond, Owners) = cond
<1>1. Owners = {t}
  BY Zenon DEF Owners, IInv, MutualExclusion
<1>2. ASSUME pc[t] \in {"inside", "pop", "wake_elem"} PROVE ~Contains(cond, t)
  BY Zenon, <1>2
     DEF IInv, CondListExact, HasElem, Owns, CallStructure, WaitCalls,
     NotifyCalls
<1> QED
  BY <1>1, <1>2, UnlinkNone

\* The actions that touch neither the owner nor the list.
LEMMA QuietStep ==
  ASSUME IInv, NEW t \in Threads,
         \/ KutexTestValue(t) \/ KutexYield(t) \/ MutexContendCas(t) \/ MutexEnqueue(t)
         \/ MutexWake(t) \/ CondTestWoken(t) \/ CondEnqueue(t) \/ CondWake(t)
         \/ CondNotify(t) \/ SetSignalPending(t) \/ HandleSignals(t) \/ FutexTimeout(t)
  PROVE  UNCHANGED M!vars
<1> USE DEF IInv
<1>1. /\ UNCHANGED <<cond, woken>>
      /\ \A u \in Threads \ {t} :
           pc'[u] = pc[u] /\ kutex_address'[u] = kutex_address[u] /\ call'[u] = call[u]
  BY DEF KutexTestValue, KutexYield, MutexContendCas, MutexEnqueue, MutexWake,
     CondTestWoken, CondEnqueue, CondWake, CondNotify, SetSignalPending, HandleSignals,
     FutexTimeout, Goto, Return, BeginLock, KutexEnqueue, TypeOK, condVars, kutexVars
<1>2. (Owns(t)' <=> Owns(t)) /\ MonitorStatus(t)' = MonitorStatus(t)
  <2>1. CASE KutexTestValue(t) \/ KutexYield(t) \/ SetSignalPending(t) \/ HandleSignals(t)
               \/ FutexTimeout(t)
    BY ZenonT(30), <1>1, <2>1 DEF KutexTestValue, KutexYield, SetSignalPending,
       HandleSignals,
       FutexTimeout, Goto, TypeOK, kutexVars, MonitorStatus, Owns, Locking
  <2>2. CASE MutexContendCas(t) \/ MutexEnqueue(t)
    BY ZenonT(30), <1>1, <2>2
       DEF MutexContendCas, MutexEnqueue, KutexEnqueue, Goto, TypeOK, kutexVars,
       MonitorStatus, Owns, Locking
  <2>3. CASE CondTestWoken(t) \/ CondEnqueue(t)
    BY SMTT(30), <1>1, <2>3
       DEF CondTestWoken, CondEnqueue, KutexEnqueue, BeginLock, Goto, TypeOK,
       kutexVars, MonitorStatus, Owns, Locking, CallStructure, KutexSteps
  <2>4. CASE MutexWake(t)
    BY <1>1, <2>4 DEF MutexWake, AfterUnlock, Goto, TypeOK, MonitorStatus, Owns, Locking,
       CallStructure, KutexSteps
  <2>5. CASE CondWake(t) \/ CondNotify(t)
    BY Zenon, <1>1, <2>5
       DEF CondWake, CondNotify, Return, Goto, TypeOK, MonitorStatus, Owns
  <2> QED
    BY ZenonT(30), <2>1, <2>2, <2>3, <2>4, <2>5
<1>3. /\ \A u \in Threads : Owns(u)' <=> Owns(u)
      /\ \A u \in Threads : MonitorStatus(u)' = MonitorStatus(u)
  BY Zenon, <1>1, <1>2, OthersStay
<1> QED
  BY Zenon, <1>1, <1>3, Stutters

\* A lock call begins: the thread enters.
LEMMA LockStep ==
  ASSUME IInv, NEW t \in Threads, MutexLock(t)
  PROVE  M!Enter(t)
<1> USE DEF IInv
<1>1. /\ UNCHANGED <<cond, woken, kutex_address>>
      /\ pc[t] = "outside" /\ pc'[t] = "lock_cas" /\ call'[t] \in LockCalls
      /\ \A u \in Threads \ {t} : pc'[u] = pc[u] /\ call'[u] = call[u]
  BY Zenon DEF MutexLock, BeginLock, Goto, TypeOK, condVars, kutexVars
<1>2. call[t] = "none"
  BY Zenon, <1>1 DEF CallStructure
<1>3. ~Owns(t) /\ ~Owns(t)' /\ MonitorStatus(t) = "out" /\ MonitorStatus(t)' = "entering"
  BY Zenon, <1>1, <1>2 DEF Owns, MonitorStatus, LockCalls, WaitCalls
<1>4. \A u \in Threads \ {t} :
        (Owns(u)' <=> Owns(u)) /\ MonitorStatus(u)' = MonitorStatus(u)
  BY Zenon, <1>1, OthersStay
<1>5. Owners' = Owners /\ Unlinked(cond, Owners)' = Unlinked(cond, Owners)
  BY Zenon, <1>1, <1>3, <1>4, QueueStays
<1>6. [u \in Threads |-> MonitorStatus(u)'] =
        [[u \in Threads |-> MonitorStatus(u)] EXCEPT ![t] = "entering"]
  BY Zenon, <1>3, <1>4, Moves
<1> QED
  BY Zenon, <1>3, <1>5, <1>6 DEF M!Enter, M!Move

\* A kutex_wait ends: an interruptible lock may give up, an interruptible wait
\* may be interrupted.
LEMMA DequeueStep ==
  ASSUME IInv, NEW t \in Threads, KutexDequeue(t)
  PROVE  M!GiveUp(t) \/ M!Interrupt(t) \/ UNCHANGED M!vars
<1> USE DEF IInv
<1>1. /\ UNCHANGED <<cond, woken>>
      /\ pc[t] = "dequeue" /\ pc'[t] \in {"lock_cas", "outside", "test_woken"}
      /\ kutex_address'[t] = "none"
      /\ \A u \in Threads \ {t} :
           pc'[u] = pc[u] /\ kutex_address'[u] = kutex_address[u] /\ call'[u] = call[u]
  BY DEF KutexDequeue, BeginLock, Goto, Return, TypeOK, condVars
<1>2. ~Owns(t) /\ ~Owns(t)'
  BY Zenon, <1>1 DEF Owns
<1>3. \A u \in Threads \ {t} :
        (Owns(u)' <=> Owns(u)) /\ MonitorStatus(u)' = MonitorStatus(u)
  BY Zenon, <1>1, OthersStay
<1>4. Owners' = Owners /\ Unlinked(cond, Owners)' = Unlinked(cond, Owners)
  BY Zenon, <1>1, <1>2, <1>3, QueueStays
<1>5. ASSUME MonitorStatus(t)' = MonitorStatus(t) PROVE UNCHANGED M!vars
  <2>1. \A u \in Threads : Owns(u)' <=> Owns(u)
    BY Zenon, <1>2, <1>3
  <2>2. \A u \in Threads : MonitorStatus(u)' = MonitorStatus(u)
    BY Zenon, <1>3, <1>5
  <2> QED
    BY Zenon, <1>1, <2>1, <2>2, Stutters
<1>6. \/ /\ kutex_address[t] = "mutex" /\ pc'[t] = "lock_cas" /\ call'[t] = call[t]
      \/ /\ kutex_address[t] = "mutex" /\ call[t] = "lock_signal"
         /\ pc'[t] = "outside" /\ call'[t] = "none"
      \/ /\ kutex_address[t] = "elem" /\ call'[t] = call[t]
         /\ pc'[t] \in {"test_woken", "lock_cas"}
  BY Zenon
     DEF KutexDequeue, KutexSignal, BeginLock, Goto, Return, TypeOK, Addresses,
     CallStructure, KutexSteps
<1>7. CASE kutex_address[t] = "mutex" /\ pc'[t] = "lock_cas" /\ call'[t] = call[t]
  <2>1. MonitorStatus(t)' = MonitorStatus(t)
    BY Zenon, <1>1, <1>2, <1>7 DEF MonitorStatus, Locking
  <2> QED
    BY Zenon, <1>5, <2>1
<1>8. CASE /\ kutex_address[t] = "mutex" /\ call[t] = "lock_signal"
           /\ pc'[t] = "outside" /\ call'[t] = "none"
  <2>1. MonitorStatus(t) = "entering" /\ MonitorStatus(t)' = "out"
    BY Zenon, <1>2, <1>8 DEF MonitorStatus, LockCalls, WaitCalls
  <2>2. [u \in Threads |-> MonitorStatus(u)'] =
          [[u \in Threads |-> MonitorStatus(u)] EXCEPT ![t] = "out"]
    BY Zenon, <1>3, <2>1, Moves
  <2> QED
    BY Zenon, <1>4, <2>1, <2>2 DEF M!GiveUp, M!Move
<1>9. CASE /\ kutex_address[t] = "elem" /\ call'[t] = call[t]
           /\ pc'[t] \in {"test_woken", "lock_cas"}
  <2>1. call[t] \in WaitCalls /\ ~Locking(t)
    BY Zenon, <1>1, <1>9 DEF CallStructure, Locking
  <2>2. CASE woken[t] = 1 \/ pc'[t] = "test_woken"
    <3>1. MonitorStatus(t)' = MonitorStatus(t)
      BY Zenon, <1>1, <1>2, <1>9, <2>1, <2>2 DEF MonitorStatus, Locking
    <3> QED
      BY Zenon, <1>5, <3>1
  <2>3. CASE woken[t] # 1 /\ pc'[t] = "lock_cas"
    <3>1. MonitorStatus(t) = "waiting" /\ MonitorStatus(t)' = "reentering"
      BY Zenon, <1>1, <1>2, <1>9, <2>1, <2>3
         DEF MonitorStatus, Locking, LockCalls, WaitCalls
    <3>2. [u \in Threads |-> MonitorStatus(u)'] =
            [[u \in Threads |-> MonitorStatus(u)] EXCEPT ![t] = "reentering"]
      BY Zenon, <1>3, <3>1, Moves
    <3> QED
      BY Zenon, <1>4, <3>1, <3>2 DEF M!Interrupt, M!Move
  <2> QED
    BY Zenon, <1>9, <2>2, <2>3
<1> QED
  BY Zenon, <1>6, <1>7, <1>8, <1>9

\* The mutex was free and t has it now: the owner's elem, if it is still
\* linked, leaves the monitor's queue.
LEMMA AcquireStep ==
  ASSUME IInv, NEW t \in Threads, mutex = UNLOCKED, Owns(t)', cond' = cond,
         MonitorStatus(t) \in {"out", "entering", "reentering"},
         \A u \in Threads \ {t} :
           (Owns(u)' <=> Owns(u)) /\ MonitorStatus(u)' = MonitorStatus(u)
  PROVE  M!Acquire(t)
<1> USE DEF IInv
<1>1. Owners = {} /\ Owners' = {t}
  <2>1. \A u \in Threads : ~Owns(u)
    BY Zenon DEF LockedIffOwned
  <2> QED
    BY Zenon, <2>1 DEF Owners
<1>2. Unlinked(cond, Owners) = cond /\ Unlinked(cond, Owners)' = Unlinked(cond, {t})
  <2>1. Unlinked(cond, Owners) = cond
    BY <1>1, UnlinkNone
  <2> QED
    BY Zenon, <1>1, <2>1 DEF Unlinked, RemoveAt
<1>3. Unlinked(cond, {t}) = M!Without(t)
  <2>1. CASE \E i \in 1..Len(cond) : cond[i] = t
    <3>1. PICK p \in 1..Len(cond) : cond[p] = t
      BY Zenon, <2>1
    <3>2. Unlinked(cond, {t}) = RemoveAt(cond, p)
      BY Zenon, <3>1, UnlinkAt DEF CondListExact
    <3>3. (CHOOSE i \in 1..Len(cond) : cond[i] = t) = p
      BY Zenon, <3>1 DEF CondListExact, Distinct
    <3> QED
      BY Zenon, <1>2, <2>1, <3>2, <3>3 DEF M!Without, M!Queued, RemoveAt
  <2>2. CASE ~\E i \in 1..Len(cond) : cond[i] = t
    BY Zenon, <1>2, <2>2 DEF M!Without, M!Queued, Unlinked
  <2> QED
    BY Zenon, <2>1, <2>2
<1>4. MonitorStatus(t)' = "in"
  BY Zenon DEF MonitorStatus
<1>5. [u \in Threads |-> MonitorStatus(u)'] =
        [[u \in Threads |-> MonitorStatus(u)] EXCEPT ![t] = "in"]
  BY Zenon, <1>4, Moves
<1> QED
  BY Zenon, <1>1, <1>2, <1>3, <1>5 DEF M!Acquire, M!Move

LEMMA LockCasStep ==
  ASSUME IInv, NEW t \in Threads, MutexLockCas(t)
  PROVE  M!Acquire(t) \/ UNCHANGED M!vars
<1> USE DEF IInv
<1>1. /\ UNCHANGED <<cond, woken, kutex_address>>
      /\ pc[t] = "lock_cas" /\ call[t] \in LockCalls \cup WaitCalls
      /\ \A u \in Threads \ {t} : pc'[u] = pc[u] /\ call'[u] = call[u]
  BY Zenon
     DEF MutexLockCas, Goto, Return, TypeOK, condVars, kutexVars, CallStructure
<1>2. \A u \in Threads \ {t} :
        (Owns(u)' <=> Owns(u)) /\ MonitorStatus(u)' = MonitorStatus(u)
  BY Zenon, <1>1, OthersStay
<1>3. CASE mutex = UNLOCKED
  <2>1. Owns(t)'
    BY <1>3 DEF MutexLockCas, Goto, TypeOK, Owns, UNLOCKED, LOCKED, CONTENDED
  <2>2. MonitorStatus(t) \in {"entering", "reentering"}
    BY Zenon, <1>1 DEF MonitorStatus, Owns, Locking
  <2> QED
    BY Zenon, <1>1, <1>2, <1>3, <2>1, <2>2, AcquireStep
<1>4. CASE mutex # UNLOCKED
  <2>1. pc'[t] \in {"contend_cas", "enqueue"} /\ call'[t] = call[t]
    BY Zenon, <1>4 DEF MutexLockCas, Goto, TypeOK
  <2>2. ~Owns(t) /\ ~Owns(t)' /\ MonitorStatus(t)' = MonitorStatus(t)
    BY Zenon, <1>1, <2>1 DEF MonitorStatus, Owns, Locking
  <2>3. /\ \A u \in Threads : Owns(u)' <=> Owns(u)
        /\ \A u \in Threads : MonitorStatus(u)' = MonitorStatus(u)
    BY Zenon, <1>2, <2>2
  <2> QED
    BY Zenon, <1>1, <2>3, Stutters
<1> QED
  BY Zenon, <1>3, <1>4

LEMMA TryLockStep ==
  ASSUME IInv, NEW t \in Threads, MutexTryLock(t)
  PROVE  M!Acquire(t)
<1> USE DEF IInv
<1>1. /\ UNCHANGED <<cond, woken, kutex_address, call>>
      /\ mutex = UNLOCKED /\ pc[t] = "outside" /\ pc'[t] = "inside"
      /\ \A u \in Threads \ {t} : pc'[u] = pc[u]
  BY Zenon DEF MutexTryLock, Goto, TypeOK, condVars, kutexVars
<1>2. \A u \in Threads \ {t} :
        (Owns(u)' <=> Owns(u)) /\ MonitorStatus(u)' = MonitorStatus(u)
  BY Zenon, <1>1, OthersStay
<1>3. Owns(t)' /\ MonitorStatus(t) = "out"
  BY Zenon, <1>1 DEF Owns, MonitorStatus, CallStructure, LockCalls, WaitCalls
<1> QED
  BY Zenon, <1>1, <1>2, <1>3, AcquireStep

\* The exchange: the owner leaves, or, in kthread_cond_wait, waits.
LEMMA UnlockStep ==
  ASSUME IInv, LinkedLast, NEW t \in Threads, MutexUnlock(t)
  PROVE  M!Leave(t) \/ M!Wait(t)
<1> USE DEF IInv
<1>1. /\ UNCHANGED <<cond, woken, kutex_address, call>>
      /\ pc[t] \in {"inside", "unlock"} /\ pc'[t] \in {"wake_all", AfterUnlock(t)}
      /\ \A u \in Threads \ {t} : pc'[u] = pc[u]
  BY Zenon DEF MutexUnlock, Goto, TypeOK, condVars, kutexVars
<1>2. \A u \in Threads \ {t} :
        (Owns(u)' <=> Owns(u)) /\ MonitorStatus(u)' = MonitorStatus(u)
  BY Zenon, <1>1, OthersStay
<1>3. Owns(t) /\ ~Owns(t)'
  BY Zenon, <1>1 DEF Owns, AfterUnlock
<1>4. Owners = {t} /\ Owners' = {}
  <2>1. Owners = {t}
    BY Zenon, <1>3, OwnerIsAlone
  <2> QED
    BY <1>2, <1>3, <2>1 DEF Owners
<1>5. Unlinked(cond, Owners)' = cond
  <2>1. Unlinked(cond, {}) = cond
    BY UnlinkNone
  <2> QED
    BY Zenon, <1>1, <1>4, <2>1 DEF Unlinked, RemoveAt
<1>6. CASE pc[t] = "inside"
  <2>1. Unlinked(cond, Owners) = cond
    BY Zenon, <1>3, <1>6, OwnerIsAlone
  <2>2. MonitorStatus(t)' = "out"
    BY Zenon, <1>1, <1>3, <1>6
       DEF MonitorStatus, CallStructure, LockCalls, WaitCalls
  <2>3. [u \in Threads |-> MonitorStatus(u)'] =
          [[u \in Threads |-> MonitorStatus(u)] EXCEPT ![t] = "out"]
    BY Zenon, <1>2, <2>2, Moves
  <2> QED
    BY Zenon, <1>4, <1>5, <2>1, <2>3 DEF M!Leave, M!Move
<1>7. CASE pc[t] = "unlock"
  <2>1. woken[t] = 0 /\ cond # <<>> /\ cond[Len(cond)] = t
    BY Zenon, <1>7 DEF LinkedLast
  <2>2. /\ Len(cond) \in Nat \ {0}
        /\ cond = Append(RemoveAt(cond, Len(cond)), t)
    BY Zenon, <2>1, LastIsAppended DEF TypeOK
  <2>3. Unlinked(cond, Owners) = RemoveAt(cond, Len(cond))
    <3>1. Len(cond) \in 1..Len(cond) /\ Distinct(cond) /\ Owners = {cond[Len(cond)]}
      BY <1>4, <2>1, <2>2 DEF CondListExact
    <3> QED
      BY Zenon, <3>1, UnlinkAt
  <2>4. MonitorStatus(t)' = "waiting"
    <3>1. kutex_address[t] = "none" /\ call[t] \in WaitCalls
      BY Zenon, <1>7 DEF CallStructure, KutexSteps
    <3>2. ~Locking(t)'
      BY Zenon, <1>1, <3>1 DEF Locking, AfterUnlock
    <3> QED
      BY <1>1, <1>3, <2>1, <3>1, <3>2 DEF MonitorStatus, LockCalls, WaitCalls
  <2>5. [u \in Threads |-> MonitorStatus(u)'] =
          [[u \in Threads |-> MonitorStatus(u)] EXCEPT ![t] = "waiting"]
    BY Zenon, <1>2, <2>4, Moves
  <2>6. Unlinked(cond, Owners)' = Append(Unlinked(cond, Owners), t)
    BY Zenon, <1>5, <2>2, <2>3
  <2> QED
    BY Zenon, <1>4, <2>5, <2>6 DEF M!Wait, M!Move
<1> QED
  BY Zenon, <1>1, <1>6, <1>7

\* kthread_cond_wait links its elem, but the thread is still inside.
LEMMA CondWaitStep ==
  ASSUME IInv, NEW t \in Threads, CondWait(t)
  PROVE  UNCHANGED M!vars
<1> USE DEF IInv
<1>1. /\ cond' = Append(cond, t) /\ kutex_address' = kutex_address
      /\ pc[t] = "inside" /\ pc'[t] = "unlock"
      /\ \A u \in Threads \ {t} :
           pc'[u] = pc[u] /\ call'[u] = call[u] /\ woken'[u] = woken[u]
  BY Zenon DEF CondWait, Goto, TypeOK, kutexVars
<1>2. \A u \in Threads \ {t} :
        (Owns(u)' <=> Owns(u)) /\ MonitorStatus(u)' = MonitorStatus(u)
  BY Zenon, <1>1, OthersStay
<1>3. Owns(t) /\ Owns(t)' /\ MonitorStatus(t)' = MonitorStatus(t)
  BY Zenon, <1>1 DEF Owns, MonitorStatus
<1>4. /\ Owners = {t} /\ ~Contains(cond, t)
      /\ Unlinked(cond, Owners) = cond
  BY Zenon, <1>1, <1>3, OwnerIsAlone
<1>5. Owners' = {t}
  BY Zenon, <1>2, <1>3, <1>4 DEF Owners
<1>6. Unlinked(Append(cond, t), {t}) = cond
  <2>1. cond \in Seq(Threads) /\ Len(cond) \in Nat
    BY DEF TypeOK
  <2>2. Distinct(Append(cond, t))
    BY Zenon, <1>4, <2>1, AppendLinks DEF CondListExact
  <2>3. Len(cond) + 1 \in 1..Len(Append(cond, t)) /\ Append(cond, t)[Len(cond) + 1] = t
    BY <2>1
  <2>4. Unlinked(Append(cond, t), {t}) = RemoveAt(Append(cond, t), Len(cond) + 1)
    BY Zenon, <2>2, <2>3, UnlinkAt
  <2> QED
    BY Zenon, <2>1, <2>4, UnlinkLast
<1>7. Unlinked(cond, Owners)' = Unlinked(cond, Owners)
  BY Zenon, <1>1, <1>4, <1>5, <1>6 DEF Unlinked, RemoveAt
<1> QED
  BY Zenon, <1>2, <1>3, <1>4, <1>5, <1>7 DEF M!vars

\* The end of kthread_cond_wait unlinks the owner's elem, which the monitor's
\* queue did not have any more.
LEMMA CondUnlinkStep ==
  ASSUME IInv, NEW t \in Threads, CondUnlink(t)
  PROVE  UNCHANGED M!vars
<1> USE DEF IInv
<1>1. /\ cond' = IF woken[t] = 0 THEN RemoveAt(cond, Position(t)) ELSE cond
      /\ UNCHANGED <<woken, kutex_address>>
      /\ pc[t] = "unlink" /\ pc'[t] = "inside"
      /\ \A u \in Threads \ {t} : pc'[u] = pc[u] /\ call'[u] = call[u]
  BY Zenon DEF CondUnlink, Goto, Return, TypeOK, kutexVars
<1>2. \A u \in Threads \ {t} :
        (Owns(u)' <=> Owns(u)) /\ MonitorStatus(u)' = MonitorStatus(u)
  BY Zenon, <1>1, OthersStay
<1>3. Owns(t) /\ Owns(t)' /\ MonitorStatus(t)' = MonitorStatus(t)
  BY Zenon, <1>1 DEF Owns, MonitorStatus
<1>4. Owners = {t} /\ Owners' = {t}
  <2>1. Owners = {t}
    BY Zenon, <1>3, OwnerIsAlone
  <2> QED
    BY Zenon, <1>2, <1>3, <2>1 DEF Owners
<1>5. cond' = Unlinked(cond, {t}) /\ ~Contains(cond', t)
  <2>1. CASE woken[t] = 0
    <3>1. Contains(cond, t) /\ Distinct(cond) /\ cond \in Seq(Threads)
      BY Zenon, <1>1, <2>1 DEF CondListExact, HasElem, TypeOK
    <3>2. Position(t) \in 1..Len(cond) /\ cond[Position(t)] = t
      BY Zenon, <3>1 DEF Position, Contains
    <3>3. Unlinked(cond, {t}) = RemoveAt(cond, Position(t))
      BY Zenon, <3>1, <3>2, UnlinkAt
    <3>4. ~Contains(RemoveAt(cond, Position(t)), t)
      BY Zenon, <3>1, <3>2, RemoveUnlinks
    <3> QED
      BY Zenon, <1>1, <2>1, <3>3, <3>4
  <2>2. CASE woken[t] # 0
    <3>1. ~Contains(cond, t)
      BY Zenon, <2>2 DEF CondListExact
    <3> QED
      BY Zenon, <1>1, <2>2, <3>1, UnlinkNone
  <2> QED
    BY Zenon, <2>1, <2>2
<1>6. Unlinked(cond', {t}) = cond'
  BY <1>5, UnlinkNone
<1>7. Unlinked(cond, Owners)' = Unlinked(cond, Owners)
  BY Zenon, <1>4, <1>5, <1>6 DEF Unlinked, RemoveAt
<1> QED
  BY Zenon, <1>2, <1>3, <1>4, <1>7 DEF M!vars

\* kthread_cond_signal and each turn of kthread_cond_broadcast notify the
\* first waiter, if there is one.
LEMMA CondPopStep ==
  ASSUME IInv, NEW t \in Threads, CondPop(t)
  PROVE  M!Notify(t) \/ UNCHANGED M!vars
<1> USE DEF IInv
<1>1. /\ pc[t] = "pop" /\ pc'[t] \in {"inside", "wake_elem"}
      /\ kutex_address' = kutex_address
      /\ \A u \in Threads \ {t} : pc'[u] = pc[u] /\ call'[u] = call[u]
  BY ZenonT(30) DEF CondPop, Goto, Return, TypeOK, kutexVars
<1>2. Owns(t) /\ Owns(t)' /\ MonitorStatus(t)' = MonitorStatus(t)
  BY Zenon, <1>1 DEF Owns, MonitorStatus
<1>3. Owners = {t} /\ ~Contains(cond, t) /\ Unlinked(cond, Owners) = cond
  BY Zenon, <1>1, <1>2, OwnerIsAlone
<1>4. CASE cond = <<>>
  <2>1. UNCHANGED <<cond, woken>>
    BY Zenon, <1>4 DEF CondPop, condVars
  <2>2. \A u \in Threads \ {t} :
          (Owns(u)' <=> Owns(u)) /\ MonitorStatus(u)' = MonitorStatus(u)
    BY Zenon, <1>1, <2>1, OthersStay
  <2>3. /\ \A u \in Threads : Owns(u)' <=> Owns(u)
        /\ \A u \in Threads : MonitorStatus(u)' = MonitorStatus(u)
    BY Zenon, <1>2, <2>2
  <2> QED
    BY Zenon, <2>1, <2>3, Stutters
<1>5. CASE cond # <<>>
  <2>0. PICK h \in Threads : h = Head(cond)
    BY Zenon, <1>5, TailUnlinks DEF TypeOK, CondListExact
  <2>1. /\ cond' = Tail(cond) /\ woken' = [woken EXCEPT ![h] = 1]
        /\ call' = call
    BY Zenon, <1>5, <2>0 DEF CondPop
  <2>2. /\ Contains(cond, h)
        /\ \A x : Contains(Tail(cond), x) <=> Contains(cond, x) /\ x # h
    BY Zenon, <1>5, <2>0, TailUnlinks DEF TypeOK, CondListExact
  <2>3. h # t /\ ~Owns(h) /\ call[h] \in WaitCalls
    <3>1. h # t /\ HasElem(h)
      BY Zenon, <1>3, <2>2 DEF CondListExact
    <3>2. ~Owns(h)
      BY Zenon, <1>2, <2>2, <3>1 DEF MutualExclusion
    <3> QED
      BY Zenon, <3>1, <3>2 DEF HasElem, Owns
  <2>4. \A u \in Threads : Owns(u)' <=> Owns(u)
    BY Zenon, <1>1, <1>2 DEF Owns
  <2>5. Owners' = {t} /\ ~Contains(Tail(cond), t)
    BY Zenon, <1>3, <2>2, <2>4 DEF Owners
  <2>6. Unlinked(Tail(cond), {t}) = Tail(cond)
    <3>1. \A x \in {t} : ~Contains(Tail(cond), x)
      BY Zenon, <2>5
    <3> QED
      BY Zenon, <3>1 DEF Unlinked, Contains
  <2>7. Unlinked(cond, Owners)' = Tail(Unlinked(cond, Owners))
    BY Zenon, <1>3, <2>1, <2>5, <2>6 DEF Unlinked, RemoveAt
  <2>8. \A u \in Threads \ {h} : MonitorStatus(u)' = MonitorStatus(u)
    <3> SUFFICES ASSUME NEW u \in Threads \ {h}, u # t
                 PROVE  MonitorStatus(u)' = MonitorStatus(u)
      BY Zenon, <1>2
    <3>1. pc'[u] = pc[u] /\ call'[u] = call[u] /\ woken'[u] = woken[u]
      BY Zenon, <1>1, <2>1 DEF TypeOK
    <3> QED
      BY Zenon, <1>1, <3>1 DEF MonitorStatus, Owns, Locking
  <2>9. MonitorStatus(h)' = "reentering"
    <3>1. woken'[h] = 1 /\ call'[h] \in WaitCalls /\ ~Owns(h)'
      BY Zenon, <2>1, <2>2, <2>3, <2>4 DEF TypeOK
    <3> QED
      BY Zenon, <3>1 DEF MonitorStatus, LockCalls, WaitCalls
  <2>10. [u \in Threads |-> MonitorStatus(u)'] =
           [[u \in Threads |-> MonitorStatus(u)] EXCEPT ![h] = "reentering"]
    BY Zenon, <2>2, <2>8, <2>9, Moves
  <2> QED
    BY Zenon, <1>3, <1>5, <2>0, <2>5, <2>7, <2>10 DEF M!Notify, M!Move
<1> QED
  BY Zenon, <1>4, <1>5

-----------------------------------------------------------------------------
(* The theorem.                                                            *)

LEMMA MonitorStep ==
  ASSUME IInv, LinkedLast, [Next]_vars
  PROVE  [M!Next]_M!vars
<1>1. CASE UNCHANGED vars
  <2>1. /\ \A u \in Threads : Owns(u)' <=> Owns(u)
        /\ \A u \in Threads : MonitorStatus(u)' = MonitorStatus(u)
    BY Zenon, <1>1 DEF vars, Owns, MonitorStatus, Locking
  <2>2. cond' = cond
    BY Zenon, <1>1 DEF vars
  <2> QED
    BY Zenon, <2>1, <2>2, Stutters
<1>2. CASE Next
  <2>0. PICK t \in Threads :
           \/ KutexTestValue(t) \/ KutexYield(t) \/ KutexDequeue(t)
           \/ MutexLockCas(t) \/ MutexContendCas(t) \/ MutexEnqueue(t)
           \/ MutexUnlock(t) \/ MutexWake(t) \/ CondTestWoken(t)
           \/ CondEnqueue(t) \/ CondUnlink(t) \/ CondPop(t) \/ CondWake(t)
           \/ MutexLock(t) \/ MutexTryLock(t) \/ CondNotify(t)
           \/ CondWait(t) \/ SetSignalPending(t) \/ HandleSignals(t)
           \/ FutexTimeout(t)
    BY Zenon, <1>2, NextCases
  <2>1. \/ M!Enter(t) \/ M!GiveUp(t) \/ M!Acquire(t) \/ M!Leave(t)
        \/ M!Wait(t) \/ M!Notify(t) \/ M!Interrupt(t) \/ UNCHANGED M!vars
    BY Zenon, <2>0, QuietStep, LockStep, DequeueStep, LockCasStep,
       TryLockStep, UnlockStep,
       CondWaitStep, CondUnlinkStep, CondPopStep
  <2> QED
    BY Zenon, <2>1 DEF M!Next
<1> QED
  BY Zenon, <1>1, <1>2

LEMMA MonitorInit ==
  ASSUME Init
  PROVE  M!Init /\ LinkedLast
<1>1. Owners = {}
  BY Zenon DEF Init, Owners, Owns
<1>2. Unlinked(cond, Owners) = <<>>
  BY <1>1, UnlinkNone DEF Init
<1>3. \A t \in Threads : MonitorStatus(t) = "out"
  BY Zenon DEF Init, MonitorStatus, Owns, LockCalls, WaitCalls
<1>4. LinkedLast
  BY Zenon DEF Init, LinkedLast
<1> QED
  BY Zenon, <1>1, <1>2, <1>3, <1>4 DEF M!Init

\* The mutex and the condition variable of kthread.cpp, with the kutex list
\* and the yield interrupt below them, are a monitor with a FIFO queue for
\* any number of threads: the exchange of kthread_cond_wait gives the mutex up
\* and joins the queue in one step, kthread_cond_signal lets exactly the first
\* waiter go, and a waiter interrupted by a signal is in the queue until it
\* has the mutex again.
THEOREM KThreadIsMonitor == Spec => ImplementsMonitor
<1>1. Init => M!Init /\ LinkedLast
  BY Zenon, MonitorInit
<1>2. IInv /\ LinkedLast /\ [Next]_vars => LinkedLast'
  BY Zenon, LinkedLastStep
<1>3. IInv /\ LinkedLast /\ [Next]_vars => [M!Next]_M!vars
  BY Zenon, MonitorStep
<1> QED
  BY <1>1, <1>2, <1>3, Invariance, PTL DEF Spec, ImplementsMonitor, M!Spec

=============================================================================
