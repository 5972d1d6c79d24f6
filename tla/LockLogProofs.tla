---- MODULE LockLogProofs ----
(***************************************************************************)
(* What threads wait for reaches them, for any threads.                    *)
(*                                                                         *)
(* RwInv is inductive and makes every step of SpinRwLock a step of RwLock. *)
(* A reader is counted while it holds `sem`; a writer looks at the count   *)
(* while it holds `sem`; so once the writer has seen zero, no reader is in *)
(* and none can get in before the writer gives `sem` back.                 *)
(*                                                                         *)
(* EventInv is inductive: bits change under the mutex, and whoever they    *)
(* concern is woken in the same step.                                      *)
(*                                                                         *)
(* SignalInv is inductive and makes a signal an AutoReset.                 *)
(*                                                                         *)
(* A Logger's messages are, in the order of the queue, handled, in the     *)
(* dispatch thread's hands or in the queue; a Shutdown is seen by the      *)
(* dispatch thread once, and from there on nothing is left behind.         *)
(***************************************************************************)
EXTENDS LockLog, CountingLemmas, SequenceTheorems

----
(***************************************************************************)
(* The spinning read-write lock.                                           *)
(***************************************************************************)

LEMMA CountIsTally ==
  ASSUME NEW S
  PROVE  Count(S) = Tally(Threads, pc, S) /\ Count(S)' = Tally(Threads, pc', S)
BY DEF Count, At, Tally, Standing

LEMMA CountType ==
  ASSUME NEW S
  PROVE  Count(S) \in Nat
BY CountIsTally, TallyType, RwAssumption

LEMMA CountMoves ==
  ASSUME TypeOK, NEW t \in Threads, NEW from, NEW to, Goto(t, from, to), NEW S
  PROVE  Count(S)' = IF from \in S
                     THEN IF to \in S THEN Count(S) ELSE Count(S) - 1
                     ELSE IF to \in S THEN Count(S) + 1 ELSE Count(S)
<1>1. /\ pc[t] = from /\ pc'[t] = to
      /\ OnlyMoves(Threads, pc, pc', t)
  BY DEF Goto, TypeOK, OnlyMoves
<1> QED
  BY <1>1, CountIsTally, TallyMoves, RwAssumption

LEMMA SemHolder ==
  ASSUME TypeOK, SemIsExclusive, NEW t \in Threads, pc[t] \in SemPoints
  PROVE  sem = 0 /\ \A u \in Threads : pc[u] \in SemPoints => u = t
<1>1. Count(SemPoints) # 0
  BY CountIsTally, TallyNone, RwAssumption
<1>2. Count(SemPoints) = 1 /\ sem = 0
  BY <1>1 DEF SemIsExclusive, TypeOK
<1> QED
  BY <1>2, CountIsTally, TallyOne, RwAssumption

\* A thread that holds a read lock is one that the count stands for.
LEMMA ReaderIsCounted ==
  ASSUME RwInv, NEW t \in Threads, pc[t] \in ReaderPoints
  PROVE  reader_count > 0
<1>1. Count(ReaderPoints) # 0
  BY CountIsTally, TallyNone, RwAssumption
<1> QED
  BY <1>1, CountType DEF RwInv, ReadersAreCounted

LEMMA NoReaderMeans ==
  ASSUME RwInv, reader_count = 0, NEW t \in Threads
  PROVE  pc[t] \notin ReaderPoints
BY ReaderIsCounted

LEMMA RwInvStep == RwInv /\ [Next]_vars => RwInv'
<1> SUFFICES ASSUME RwInv, [Next]_vars PROVE RwInv'
  OBVIOUS
<1> USE DEF RwInv
<1>1. ASSUME NEW t \in Threads, NEW k \in Kinds, CallReadLock(t, k)
      PROVE  RwInv'
  <2>1. TypeOK'
    BY <1>1, RwAssumption
    DEF CallReadLock, Goto, TakeSem, GiveSem, TypeOK, PCs, Kinds, ReaderPoints
  <2>2. SemIsExclusive' /\ ReadersAreCounted'
    BY <1>1, CountMoves, CountType, RwAssumption
    DEF CallReadLock, TakeSem, GiveSem, SemIsExclusive, ReadersAreCounted, SemPoints,
        ReaderPoints, TypeOK
  <2>3. (At({"writing"}) # {} => reader_count = 0)'
    BY <1>1, SemHolder DEF CallReadLock, Goto, At, TypeOK, SemPoints
  <2> QED
    BY <2>1, <2>2, <2>3
<1>2. ASSUME NEW t \in Threads, ReadTake(t)
      PROVE  RwInv'
  <2>1. TypeOK'
    BY <1>2, RwAssumption
    DEF ReadTake, Goto, TakeSem, GiveSem, TypeOK, PCs, Kinds, ReaderPoints
  <2>2. SemIsExclusive' /\ ReadersAreCounted'
    BY <1>2, CountMoves, CountType, RwAssumption
    DEF ReadTake, TakeSem, GiveSem, SemIsExclusive, ReadersAreCounted, SemPoints,
        ReaderPoints, TypeOK
  <2>3. (At({"writing"}) # {} => reader_count = 0)'
    BY <1>2, SemHolder DEF ReadTake, Goto, At, TypeOK, SemPoints
  <2> QED
    BY <2>1, <2>2, <2>3
<1>3. ASSUME NEW t \in Threads, CountReader(t)
      PROVE  RwInv'
  <2>1. TypeOK'
    BY <1>3, RwAssumption
    DEF CountReader, Goto, TakeSem, GiveSem, TypeOK, PCs, Kinds, ReaderPoints
  <2>2. SemIsExclusive' /\ ReadersAreCounted'
    BY <1>3, CountMoves, CountType, RwAssumption
    DEF CountReader, TakeSem, GiveSem, SemIsExclusive, ReadersAreCounted, SemPoints,
        ReaderPoints, TypeOK
  <2>3. (At({"writing"}) # {} => reader_count = 0)'
    BY <1>3, SemHolder DEF CountReader, Goto, At, TypeOK, SemPoints
  <2> QED
    BY <2>1, <2>2, <2>3
<1>4. ASSUME NEW t \in Threads, RefuseReader(t)
      PROVE  RwInv'
  <2>1. TypeOK'
    BY <1>4, RwAssumption
    DEF RefuseReader, Goto, TakeSem, GiveSem, TypeOK, PCs, Kinds, ReaderPoints
  <2>2. SemIsExclusive' /\ ReadersAreCounted'
    BY <1>4, CountMoves, CountType, RwAssumption
    DEF RefuseReader, TakeSem, GiveSem, SemIsExclusive, ReadersAreCounted, SemPoints,
        ReaderPoints, TypeOK
  <2>3. (At({"writing"}) # {} => reader_count = 0)'
    BY <1>4, SemHolder DEF RefuseReader, Goto, At, TypeOK, SemPoints
  <2> QED
    BY <2>1, <2>2, <2>3
<1>5. ASSUME NEW t \in Threads, ReadGive(t)
      PROVE  RwInv'
  <2>1. TypeOK'
    BY <1>5, RwAssumption
    DEF ReadGive, Goto, TakeSem, GiveSem, TypeOK, PCs, Kinds, ReaderPoints
  <2>2. SemIsExclusive' /\ ReadersAreCounted'
    BY <1>5, CountMoves, CountType, SemHolder, RwAssumption
    DEF ReadGive, Goto, TakeSem, GiveSem, SemIsExclusive, ReadersAreCounted, SemPoints,
        ReaderPoints, TypeOK
  <2>3. (At({"writing"}) # {} => reader_count = 0)'
    BY <1>5, SemHolder DEF ReadGive, Goto, At, TypeOK, SemPoints
  <2> QED
    BY <2>1, <2>2, <2>3
<1>6. ASSUME NEW t \in Threads, ReadUnlock(t)
      PROVE  RwInv'
  <2>1. TypeOK'
    BY <1>6, ReaderIsCounted, RwAssumption
    DEF ReadUnlock, Goto, TakeSem, GiveSem, TypeOK, PCs, Kinds, ReaderPoints
  <2>2. SemIsExclusive' /\ ReadersAreCounted'
    BY <1>6, CountMoves, CountType, RwAssumption
    DEF ReadUnlock, TakeSem, GiveSem, SemIsExclusive, ReadersAreCounted, SemPoints,
        ReaderPoints, TypeOK
  <2>3. (At({"writing"}) # {} => reader_count = 0)'
    BY <1>6, ReaderIsCounted DEF ReadUnlock, Goto, At, TypeOK, ReaderPoints, RwInv
  <2> QED
    BY <2>1, <2>2, <2>3
<1>7. ASSUME NEW t \in Threads, NEW k \in Kinds, CallWriteLock(t, k)
      PROVE  RwInv'
  <2>1. TypeOK'
    BY <1>7, RwAssumption
    DEF CallWriteLock, Goto, TakeSem, GiveSem, TypeOK, PCs, Kinds, ReaderPoints
  <2>2. SemIsExclusive' /\ ReadersAreCounted'
    BY <1>7, CountMoves, CountType, RwAssumption
    DEF CallWriteLock, TakeSem, GiveSem, SemIsExclusive, ReadersAreCounted, SemPoints,
        ReaderPoints, TypeOK
  <2>3. (At({"writing"}) # {} => reader_count = 0)'
    BY <1>7, SemHolder DEF CallWriteLock, Goto, At, TypeOK, SemPoints
  <2> QED
    BY <2>1, <2>2, <2>3
<1>8. ASSUME NEW t \in Threads, WriteTake(t)
      PROVE  RwInv'
  <2>1. TypeOK'
    BY <1>8, RwAssumption
    DEF WriteTake, Goto, TakeSem, GiveSem, TypeOK, PCs, Kinds, ReaderPoints
  <2>2. SemIsExclusive' /\ ReadersAreCounted'
    BY <1>8, CountMoves, CountType, RwAssumption
    DEF WriteTake, TakeSem, GiveSem, SemIsExclusive, ReadersAreCounted, SemPoints,
        ReaderPoints, TypeOK
  <2>3. (At({"writing"}) # {} => reader_count = 0)'
    BY <1>8, SemHolder DEF WriteTake, Goto, At, TypeOK, SemPoints
  <2> QED
    BY <2>1, <2>2, <2>3
<1>9. ASSUME NEW t \in Threads, ReadersGone(t)
      PROVE  RwInv'
  <2>1. TypeOK'
    BY <1>9, RwAssumption
    DEF ReadersGone, Goto, TakeSem, GiveSem, TypeOK, PCs, Kinds, ReaderPoints
  <2>2. SemIsExclusive' /\ ReadersAreCounted'
    <3>1. Goto(t, "write_spin", "writing") /\ UNCHANGED <<sem, reader_count>>
      BY <1>9 DEF ReadersGone
    <3>2. Count(SemPoints)' = Count(SemPoints) /\ Count(ReaderPoints)' = Count(ReaderPoints)
      BY <3>1, CountMoves DEF SemPoints, ReaderPoints
    <3> QED
      BY <3>1, <3>2 DEF SemIsExclusive, ReadersAreCounted
  <2>3. (At({"writing"}) # {} => reader_count = 0)'
    BY <1>9 DEF ReadersGone
  <2> QED
    BY <2>1, <2>2, <2>3
<1>10. ASSUME NEW t \in Threads, ReadersRemain(t)
      PROVE  RwInv'
  <2>1. TypeOK'
    BY <1>10, RwAssumption
    DEF ReadersRemain, Goto, TakeSem, GiveSem, TypeOK, PCs, Kinds, ReaderPoints
  <2>2. SemIsExclusive' /\ ReadersAreCounted'
    BY <1>10, CountMoves, CountType, RwAssumption
    DEF ReadersRemain, TakeSem, GiveSem, SemIsExclusive, ReadersAreCounted, SemPoints,
        ReaderPoints, TypeOK
  <2>3. (At({"writing"}) # {} => reader_count = 0)'
    BY <1>10, SemHolder DEF ReadersRemain, Goto, At, TypeOK, SemPoints
  <2> QED
    BY <2>1, <2>2, <2>3
<1>11. ASSUME NEW t \in Threads, Recheck(t)
      PROVE  RwInv'
  <2>1. TypeOK'
    BY <1>11, RwAssumption
    DEF Recheck, Goto, TakeSem, GiveSem, TypeOK, PCs, Kinds, ReaderPoints
  <2>2. SemIsExclusive' /\ ReadersAreCounted'
    BY <1>11, CountMoves, CountType, RwAssumption
    DEF Recheck, TakeSem, GiveSem, SemIsExclusive, ReadersAreCounted, SemPoints,
        ReaderPoints, TypeOK
  <2>3. (At({"writing"}) # {} => reader_count = 0)'
    BY <1>11, SemHolder DEF Recheck, Goto, At, TypeOK, SemPoints
  <2> QED
    BY <2>1, <2>2, <2>3
<1>12. ASSUME NEW t \in Threads, WriteGive(t)
      PROVE  RwInv'
  <2>1. TypeOK'
    BY <1>12, RwAssumption
    DEF WriteGive, Goto, TakeSem, GiveSem, TypeOK, PCs, Kinds, ReaderPoints
  <2>2. SemIsExclusive' /\ ReadersAreCounted'
    BY <1>12, CountMoves, CountType, SemHolder, RwAssumption
    DEF WriteGive, Goto, TakeSem, GiveSem, SemIsExclusive, ReadersAreCounted, SemPoints,
        ReaderPoints, TypeOK
  <2>3. (At({"writing"}) # {} => reader_count = 0)'
    BY <1>12, SemHolder DEF WriteGive, Goto, At, TypeOK, SemPoints
  <2> QED
    BY <2>1, <2>2, <2>3
<1>13. ASSUME NEW t \in Threads, TakeTimeout(t, "read_take")
      PROVE  RwInv'
  <2>1. TypeOK'
    BY <1>13, RwAssumption
    DEF TakeTimeout, Goto, TakeSem, GiveSem, TypeOK, PCs, Kinds, ReaderPoints
  <2>2. SemIsExclusive' /\ ReadersAreCounted'
    BY <1>13, CountMoves, CountType, RwAssumption
    DEF TakeTimeout, TakeSem, GiveSem, SemIsExclusive, ReadersAreCounted, SemPoints,
        ReaderPoints, TypeOK
  <2>3. (At({"writing"}) # {} => reader_count = 0)'
    BY <1>13, SemHolder DEF TakeTimeout, Goto, At, TypeOK, SemPoints
  <2> QED
    BY <2>1, <2>2, <2>3
<1>14. ASSUME NEW t \in Threads, TakeTimeout(t, "write_take")
      PROVE  RwInv'
  <2>1. TypeOK'
    BY <1>14, RwAssumption
    DEF TakeTimeout, Goto, TakeSem, GiveSem, TypeOK, PCs, Kinds, ReaderPoints
  <2>2. SemIsExclusive' /\ ReadersAreCounted'
    BY <1>14, CountMoves, CountType, RwAssumption
    DEF TakeTimeout, TakeSem, GiveSem, SemIsExclusive, ReadersAreCounted, SemPoints,
        ReaderPoints, TypeOK
  <2>3. (At({"writing"}) # {} => reader_count = 0)'
    BY <1>14, SemHolder DEF TakeTimeout, Goto, At, TypeOK, SemPoints
  <2> QED
    BY <2>1, <2>2, <2>3
<1>15. CASE UNCHANGED vars
  <2>1. \A S : Count(S)' = Count(S) /\ At(S)' = At(S)
    BY <1>15 DEF vars, Count, At
  <2> QED
    BY <1>15, <2>1 DEF vars, TypeOK, SemIsExclusive, ReadersAreCounted
<1> QED
  BY <1>1, <1>2, <1>3, <1>4, <1>5, <1>6, <1>7, <1>8, <1>9, <1>10, <1>11, <1>12, <1>13, <1>14, <1>15 DEF Next, Step

LEMMA RwInvInit == Init => RwInv
<1> SUFFICES ASSUME Init PROVE RwInv
  OBVIOUS
<1>1. ASSUME NEW S, "idle" \notin S PROVE At(S) = {} /\ Count(S) = 0
  BY <1>1, CountIsTally, TallyNone, RwAssumption DEF Init, At
<1> QED
  BY <1>1, RwAssumption
  DEF Init, RwInv, TypeOK, PCs, Kinds, SemIsExclusive, SemPoints, ReadersAreCounted,
      ReaderPoints

\* The inductive invariant, for any number of threads and any reader limit.
THEOREM RwLockInvariant == Spec => []RwInv
BY RwInvInit, RwInvStep, PTL DEF Spec

\* The count that writers wait for is the number of threads that hold a read
\* lock, and MAX_READERS is never exceeded.
THEOREM RwReadersAreCounted == Spec => []ReadersAreCounted
<1>1. RwInv => ReadersAreCounted
  BY DEF RwInv
<1> QED
  BY <1>1, RwLockInvariant, PTL

\* No thread becomes a reader while a writer waits for the readers to leave.
THEOREM RwWritersArePreferred == Spec => WritersArePreferred
<1>1. ASSUME RwInv, [Next]_vars, At({"write_spin", "write_recheck"}) # {}
      PROVE  At(ReaderPoints)' \subseteq At(ReaderPoints)
  <2>1. PICK w \in Threads : pc[w] \in {"write_spin", "write_recheck"}
    BY <1>1 DEF At
  <2>2. ASSUME NEW t \in Threads PROVE pc[t] # "read_count" /\ pc[t] # "read_give"
    BY <1>1, <2>1, SemHolder DEF RwInv, SemPoints
  <2>3. ASSUME NEW t \in Threads, Step(t)
        PROVE  At(ReaderPoints)' \subseteq At(ReaderPoints)
    BY <1>1, <2>2, <2>3
    DEF Step, CallReadLock, CallWriteLock, ReadTake, CountReader, RefuseReader, ReadGive,
        ReadUnlock, WriteTake, ReadersGone, ReadersRemain, Recheck, WriteGive,
        TakeTimeout, Goto, At, ReaderPoints, RwInv, TypeOK
  <2> QED
    BY <1>1, <2>3 DEF Next, vars, At
<1> QED
  BY <1>1, RwLockInvariant, PTL DEF Spec, WritersArePreferred

LEMMA ModeMoves ==
  ASSUME TypeOK, NEW t \in Threads, NEW from, NEW to, Goto(t, from, to)
  PROVE  /\ from \in ReaderPoints => Mode[t] = "read"
         /\ from = "writing" => Mode[t] = "write"
         /\ from \notin ReaderPoints \cup {"writing"} => Mode[t] = "none"
         /\ to \in ReaderPoints => Mode' = [Mode EXCEPT ![t] = "read"]
         /\ to = "writing" => Mode' = [Mode EXCEPT ![t] = "write"]
         /\ to \notin ReaderPoints \cup {"writing"} => Mode' = [Mode EXCEPT ![t] = "none"]
BY DEF Goto, TypeOK, Mode, ReaderPoints

\* A thread that has `sem` and counts itself finds no writer in; one that has
\* `sem` and sees a count of zero finds nobody in.
LEMMA GrantIsExclusive ==
  ASSUME RwInv, NEW t \in Threads, pc[t] \in SemPoints \ {"writing"}
  PROVE  /\ \A u \in Threads : Mode[u] # "write"
         /\ reader_count = 0 => \A u \in Threads : Mode[u] = "none"
<1>1. \A u \in Threads : pc[u] # "writing"
  BY SemHolder DEF RwInv, SemPoints
<1>2. reader_count = 0 => \A u \in Threads : pc[u] \notin ReaderPoints
  BY NoReaderMeans
<1> QED
  BY <1>1, <1>2 DEF Mode, ReaderPoints

LEMMA RwLockStepRefines ==
  ASSUME RwInv, NEW t \in Threads, Step(t)
  PROVE  Abstract!Next \/ UNCHANGED Mode
<1>1. TypeOK
  BY DEF RwInv
<1>2. CASE CountReader(t)
  <2>1. Goto(t, "read_count", "read_give")
    BY <1>2 DEF CountReader
  <2>2. Mode[t] = "none" /\ Mode' = [Mode EXCEPT ![t] = "read"]
    BY <1>1, <2>1, ModeMoves DEF ReaderPoints
  <2>3. \A u \in Threads : Mode[u] # "write"
    BY <2>1, GrantIsExclusive DEF Goto, SemPoints
  <2> QED
    BY <2>2, <2>3 DEF Abstract!Next, Abstract!ReadLock
<1>3. ASSUME NEW from \in {"write_spin", "write_recheck"}, Goto(t, from, "writing"),
             reader_count = 0
      PROVE  Abstract!Next
  <2>1. Mode' = [Mode EXCEPT ![t] = "write"]
    BY <1>1, <1>3, ModeMoves
  <2>2. \A u \in Threads : Mode[u] = "none"
    BY <1>3, GrantIsExclusive DEF Goto, SemPoints
  <2> QED
    BY <2>1, <2>2 DEF Abstract!Next, Abstract!WriteLock
<1>4. ASSUME NEW from \in {"reading", "writing"}, Goto(t, from, "idle")
      PROVE  Abstract!Next
  <2>1. Mode[t] # "none" /\ Mode' = [Mode EXCEPT ![t] = "none"]
    BY <1>1, <1>4, ModeMoves DEF ReaderPoints
  <2> QED
    BY <2>1 DEF Abstract!Next, Abstract!Unlock
<1>5. ASSUME NEW from, NEW to, Goto(t, from, to),
             \/ {from, to} \subseteq PCs \ (ReaderPoints \cup {"writing"})
             \/ {from, to} \subseteq ReaderPoints
      PROVE  UNCHANGED Mode
  BY <1>1, <1>5 DEF Goto, TypeOK, Mode, ReaderPoints
<1>6. CASE ReadUnlock(t)
  BY <1>4, <1>6 DEF ReadUnlock
<1>7. CASE ReadersGone(t)
  BY <1>3, <1>7 DEF ReadersGone
<1>8. CASE Recheck(t)
  BY <1>3, <1>5, <1>8 DEF Recheck, PCs, ReaderPoints
<1>9. CASE WriteGive(t)
  BY <1>4, <1>5, <1>9 DEF WriteGive, PCs, ReaderPoints
<1>10. CASE ReadGive(t)
  BY <1>5, <1>10 DEF ReadGive, PCs, ReaderPoints
<1>11. CASE ReadersRemain(t)
  BY <1>5, <1>11 DEF ReadersRemain, PCs, ReaderPoints
<1>12. CASE TakeTimeout(t, "read_take") \/ TakeTimeout(t, "write_take")
  BY <1>5, <1>12 DEF TakeTimeout, PCs, ReaderPoints
<1>13. CASE ReadTake(t) \/ RefuseReader(t) \/ WriteTake(t)
  BY <1>5, <1>13 DEF ReadTake, RefuseReader, WriteTake, PCs, ReaderPoints
<1>14. CASE \E k \in Kinds : CallReadLock(t, k) \/ CallWriteLock(t, k)
  BY <1>5, <1>14 DEF CallReadLock, CallWriteLock, PCs, ReaderPoints
<1> QED
  BY <1>2, <1>6, <1>7, <1>8, <1>9, <1>10, <1>11, <1>12, <1>13, <1>14 DEF Step

\* The spinning lock is a read-write lock: whoever is granted it excludes the
\* others as rwlock.dox says, for any number of threads.
THEOREM SpinImplementsRwLock == Spec => ImplementsRwLock
<1>1. Init => Abstract!Init
  BY DEF Init, Abstract!Init, Mode, ReaderPoints
<1>2. RwInv /\ [Next]_vars => [Abstract!Next]_Mode
  <2> SUFFICES ASSUME RwInv, [Next]_vars PROVE [Abstract!Next]_Mode
    OBVIOUS
  <2>1. CASE UNCHANGED vars
    BY <2>1 DEF vars, Mode
  <2> QED
    BY <2>1, RwLockStepRefines DEF Next
<1> QED
  BY <1>1, <1>2, RwLockInvariant, PTL DEF Spec, ImplementsRwLock, Abstract!Spec

----
(***************************************************************************)
(* Event groups.                                                           *)
(***************************************************************************)

\* An instance counts as we do.
LEMMA EventNumbers ==
  /\ \A S : Events!IsFiniteSet(S) <=> IsFiniteSet(S)
  /\ \A S : Events!Cardinality(S) = Cardinality(S)
BY DEF Events!IsFiniteSet, IsFiniteSet, Events!Cardinality, Cardinality

\* A lone caller is the only one who can sleep.
LEMMA OnlyOne ==
  ASSUME Events!EventAssumption, Events!EventInv, Events!Cardinality(callers) <= 1,
         NEW t \in callers, NEW u \in callers
  PROVE  t = u
<1>1. IsFiniteSet(callers) /\ callers # {}
  BY EventNumbers, FS_Subset DEF Events!EventAssumption, Events!EventInv, Events!TypeOK
<1>2. Cardinality(callers) = 1
  BY <1>1, EventNumbers, FS_CardinalityType, FS_EmptySet
<1> QED
  BY <1>1, <1>2, FS_Singleton

LEMMA EventInitInv ==
  ASSUME Events!EventAssumption, Events!Init
  PROVE  Events!EventInv
<1>1. Events!TypeOK /\ Events!CallsMatch
  BY DEF Events!EventAssumption, Events!Init, Events!TypeOK, Events!CallsMatch, Events!PCs,
     Events!Users, Events!WaitPoints, Events!SetPoints
<1>2. Events!SleepersUnmet /\ Events!EventsAreTakenOnce
  BY DEF Events!Init, Events!SleepersUnmet, Events!EventsAreTakenOnce, Events!TakenOnce,
     Events!TakesNothingOnFailure, Events!Users
<1> QED
  BY <1>1, <1>2 DEF Events!EventInv

LEMMA EventNextInv ==
  ASSUME Events!EventAssumption, Events!EventInv, Events!Next
  PROVE  Events!EventInv'
<1> USE DEF Events!EventInv
<1>1. ASSUME NEW t \in Waiters, NEW request \in Events!WaitCalls, Events!CallWait(t, request)
      PROVE  Events!EventInv'
  <2>1. Events!TypeOK'
    BY <1>1 DEF Events!CallWait, Events!Goto, Events!Lock, Events!TypeOK, Events!CallsMatch,
       Events!PCs, Events!WaitPoints, Events!SetPoints, Events!Users,
       Events!platform, Events!EventAssumption
  <2>2. Events!CallsMatch'
    BY <1>1 DEF Events!CallWait, Events!Goto, Events!Lock, Events!TypeOK, Events!CallsMatch,
       Events!WaitPoints, Events!SetPoints, Events!Users,
       Events!platform, Events!EventAssumption
  <2>3. Events!SleepersUnmet'
    BY <1>1, OnlyOne DEF Events!CallWait, Events!Goto, Events!Lock, Events!TypeOK,
       Events!CallsMatch, Events!SleepersUnmet,
       Events!OneWaiterOrBroadcast, Events!MetBy, Events!Users, Events!platform, Events!EventAssumption
  <2>4. Events!EventsAreTakenOnce'
    BY <1>1 DEF Events!CallWait, Events!Goto, Events!Lock, Events!TypeOK, Events!CallsMatch,
       Events!EventsAreTakenOnce, Events!TakenOnce,
       Events!TakesNothingOnFailure, Events!MetBy, Events!Users, Events!platform, Events!EventAssumption
  <2> QED
    BY <2>1, <2>2, <2>3, <2>4
<1>2. ASSUME NEW t \in Waiters, Events!WaitLock(t)
      PROVE  Events!EventInv'
  <2>1. Events!TypeOK'
    BY <1>2 DEF Events!WaitLock, Events!Goto, Events!Lock, Events!TypeOK, Events!CallsMatch,
       Events!PCs, Events!WaitPoints, Events!SetPoints, Events!Users,
       Events!platform, Events!EventAssumption
  <2>2. Events!CallsMatch'
    BY <1>2 DEF Events!WaitLock, Events!Goto, Events!Lock, Events!TypeOK, Events!CallsMatch,
       Events!WaitPoints, Events!SetPoints, Events!Users,
       Events!platform, Events!EventAssumption
  <2>3. Events!SleepersUnmet'
    BY <1>2, OnlyOne DEF Events!WaitLock, Events!Goto, Events!Lock, Events!TypeOK,
       Events!CallsMatch, Events!SleepersUnmet,
       Events!OneWaiterOrBroadcast, Events!MetBy, Events!Users, Events!platform, Events!EventAssumption
  <2>4. Events!EventsAreTakenOnce'
    BY <1>2 DEF Events!WaitLock, Events!Goto, Events!Lock, Events!TypeOK, Events!CallsMatch,
       Events!EventsAreTakenOnce, Events!TakenOnce,
       Events!TakesNothingOnFailure, Events!MetBy, Events!Users, Events!platform, Events!EventAssumption
  <2> QED
    BY <2>1, <2>2, <2>3, <2>4
<1>3. ASSUME NEW t \in Waiters, Events!LockTimeout(t)
      PROVE  Events!EventInv'
  <2>1. Events!TypeOK'
    BY <1>3 DEF Events!LockTimeout, Events!Goto, Events!Lock, Events!TypeOK,
       Events!CallsMatch, Events!PCs, Events!WaitPoints, Events!SetPoints,
       Events!Users, Events!platform, Events!EventAssumption
  <2>2. Events!CallsMatch'
    BY <1>3 DEF Events!LockTimeout, Events!Goto, Events!Lock, Events!TypeOK,
       Events!CallsMatch, Events!WaitPoints, Events!SetPoints, Events!Users,
       Events!platform, Events!EventAssumption
  <2>3. Events!SleepersUnmet'
    BY <1>3, OnlyOne DEF Events!LockTimeout, Events!Goto, Events!Lock, Events!TypeOK,
       Events!CallsMatch, Events!SleepersUnmet,
       Events!OneWaiterOrBroadcast, Events!MetBy, Events!Users, Events!platform, Events!EventAssumption
  <2>4. Events!EventsAreTakenOnce'
    BY <1>3 DEF Events!LockTimeout, Events!Goto, Events!Lock, Events!TypeOK,
       Events!CallsMatch, Events!EventsAreTakenOnce, Events!TakenOnce,
       Events!TakesNothingOnFailure, Events!MetBy, Events!Users, Events!platform, Events!EventAssumption
  <2> QED
    BY <2>1, <2>2, <2>3, <2>4
<1>4. ASSUME NEW t \in Waiters, Events!CheckAndClear(t)
      PROVE  Events!EventInv'
  <2>1. Events!TypeOK'
    BY <1>4 DEF Events!CheckAndClear, Events!Goto, Events!Lock, Events!TypeOK,
       Events!CallsMatch, Events!PCs, Events!WaitPoints, Events!SetPoints,
       Events!Users, Events!platform, Events!EventAssumption
  <2>2. Events!CallsMatch'
    BY <1>4 DEF Events!CheckAndClear, Events!Goto, Events!Lock, Events!TypeOK,
       Events!CallsMatch, Events!WaitPoints, Events!SetPoints, Events!Users,
       Events!platform, Events!EventAssumption
  <2>3. Events!SleepersUnmet'
    BY <1>4, OnlyOne DEF Events!CheckAndClear, Events!Goto, Events!Lock, Events!TypeOK,
       Events!CallsMatch, Events!SleepersUnmet,
       Events!OneWaiterOrBroadcast, Events!MetBy, Events!Users, Events!platform, Events!EventAssumption
  <2>4. Events!EventsAreTakenOnce'
    BY <1>4 DEF Events!CheckAndClear, Events!Goto, Events!Lock, Events!TypeOK,
       Events!CallsMatch, Events!EventsAreTakenOnce,
       Events!TakenOnce, Events!TakesNothingOnFailure, Events!MetBy, Events!Users, Events!platform, Events!EventAssumption
  <2> QED
    BY <2>1, <2>2, <2>3, <2>4
<1>5. ASSUME NEW t \in Waiters, Events!CheckOnce(t)
      PROVE  Events!EventInv'
  <2>1. Events!TypeOK'
    BY <1>5 DEF Events!CheckOnce, Events!Goto, Events!Lock, Events!TypeOK,
       Events!CallsMatch, Events!PCs, Events!WaitPoints, Events!SetPoints,
       Events!Users, Events!platform, Events!EventAssumption
  <2>2. Events!CallsMatch'
    BY <1>5 DEF Events!CheckOnce, Events!Goto, Events!Lock, Events!TypeOK,
       Events!CallsMatch, Events!WaitPoints, Events!SetPoints, Events!Users,
       Events!platform, Events!EventAssumption
  <2>3. Events!SleepersUnmet'
    BY <1>5, OnlyOne DEF Events!CheckOnce, Events!Goto, Events!Lock, Events!TypeOK,
       Events!CallsMatch, Events!SleepersUnmet,
       Events!OneWaiterOrBroadcast, Events!MetBy, Events!Users, Events!platform, Events!EventAssumption
  <2>4. Events!EventsAreTakenOnce'
    BY <1>5 DEF Events!CheckOnce, Events!Goto, Events!Lock, Events!TypeOK,
       Events!CallsMatch, Events!EventsAreTakenOnce, Events!TakenOnce,
       Events!TakesNothingOnFailure, Events!MetBy, Events!Users, Events!platform, Events!EventAssumption
  <2> QED
    BY <2>1, <2>2, <2>3, <2>4
<1>6. ASSUME NEW t \in Waiters, Events!Sleep(t)
      PROVE  Events!EventInv'
  <2>1. Events!TypeOK'
    BY <1>6 DEF Events!Sleep, Events!Goto, Events!Lock, Events!TypeOK, Events!CallsMatch,
       Events!PCs, Events!WaitPoints, Events!SetPoints, Events!Users,
       Events!platform, Events!EventAssumption
  <2>2. Events!CallsMatch'
    BY <1>6 DEF Events!Sleep, Events!Goto, Events!Lock, Events!TypeOK, Events!CallsMatch,
       Events!WaitPoints, Events!SetPoints, Events!Users,
       Events!platform, Events!EventAssumption
  <2>3. Events!SleepersUnmet'
    BY <1>6, OnlyOne DEF Events!Sleep, Events!Goto, Events!Lock, Events!TypeOK,
       Events!CallsMatch, Events!SleepersUnmet,
       Events!OneWaiterOrBroadcast, Events!MetBy, Events!Users, Events!platform, Events!EventAssumption
  <2>4. Events!EventsAreTakenOnce'
    BY <1>6 DEF Events!Sleep, Events!Goto, Events!Lock, Events!TypeOK, Events!CallsMatch,
       Events!EventsAreTakenOnce, Events!TakenOnce,
       Events!TakesNothingOnFailure, Events!MetBy, Events!Users, Events!platform, Events!EventAssumption
  <2> QED
    BY <2>1, <2>2, <2>3, <2>4
<1>7. ASSUME NEW t \in Waiters, Events!SpuriousWakeup(t)
      PROVE  Events!EventInv'
  <2>1. Events!TypeOK'
    BY <1>7 DEF Events!SpuriousWakeup, Events!Goto, Events!Lock, Events!TypeOK,
       Events!CallsMatch, Events!PCs, Events!WaitPoints, Events!SetPoints,
       Events!Users, Events!platform, Events!EventAssumption
  <2>2. Events!CallsMatch'
    BY <1>7 DEF Events!SpuriousWakeup, Events!Goto, Events!Lock, Events!TypeOK,
       Events!CallsMatch, Events!WaitPoints, Events!SetPoints,
       Events!Users, Events!platform, Events!EventAssumption
  <2>3. Events!SleepersUnmet'
    BY <1>7, OnlyOne DEF Events!SpuriousWakeup, Events!Goto, Events!Lock, Events!TypeOK,
       Events!CallsMatch, Events!SleepersUnmet,
       Events!OneWaiterOrBroadcast, Events!MetBy, Events!Users, Events!platform, Events!EventAssumption
  <2>4. Events!EventsAreTakenOnce'
    BY <1>7 DEF Events!SpuriousWakeup, Events!Goto, Events!Lock, Events!TypeOK,
       Events!CallsMatch, Events!EventsAreTakenOnce,
       Events!TakenOnce, Events!TakesNothingOnFailure, Events!MetBy, Events!Users, Events!platform, Events!EventAssumption
  <2> QED
    BY <2>1, <2>2, <2>3, <2>4
<1>8. ASSUME NEW t \in Waiters, Events!Relock(t)
      PROVE  Events!EventInv'
  <2>1. Events!TypeOK'
    BY <1>8 DEF Events!Relock, Events!Goto, Events!Lock, Events!TypeOK, Events!CallsMatch,
       Events!PCs, Events!WaitPoints, Events!SetPoints, Events!Users,
       Events!platform, Events!EventAssumption
  <2>2. Events!CallsMatch'
    BY <1>8 DEF Events!Relock, Events!Goto, Events!Lock, Events!TypeOK, Events!CallsMatch,
       Events!WaitPoints, Events!SetPoints, Events!Users,
       Events!platform, Events!EventAssumption
  <2>3. Events!SleepersUnmet'
    BY <1>8, OnlyOne DEF Events!Relock, Events!Goto, Events!Lock, Events!TypeOK,
       Events!CallsMatch, Events!SleepersUnmet,
       Events!OneWaiterOrBroadcast, Events!MetBy, Events!Users, Events!platform, Events!EventAssumption
  <2>4. Events!EventsAreTakenOnce'
    BY <1>8 DEF Events!Relock, Events!Goto, Events!Lock, Events!TypeOK, Events!CallsMatch,
       Events!EventsAreTakenOnce, Events!TakenOnce,
       Events!TakesNothingOnFailure, Events!MetBy, Events!Users, Events!platform, Events!EventAssumption
  <2> QED
    BY <2>1, <2>2, <2>3, <2>4
<1>9. ASSUME NEW t \in Waiters, Events!CondTimeout(t)
      PROVE  Events!EventInv'
  <2>1. Events!TypeOK'
    BY <1>9 DEF Events!CondTimeout, Events!Goto, Events!Lock, Events!TypeOK,
       Events!CallsMatch, Events!PCs, Events!WaitPoints, Events!SetPoints,
       Events!Users, Events!platform, Events!EventAssumption
  <2>2. Events!CallsMatch'
    BY <1>9 DEF Events!CondTimeout, Events!Goto, Events!Lock, Events!TypeOK,
       Events!CallsMatch, Events!WaitPoints, Events!SetPoints, Events!Users,
       Events!platform, Events!EventAssumption
  <2>3. Events!SleepersUnmet'
    BY <1>9, OnlyOne DEF Events!CondTimeout, Events!Goto, Events!Lock, Events!TypeOK,
       Events!CallsMatch, Events!SleepersUnmet,
       Events!OneWaiterOrBroadcast, Events!MetBy, Events!Users, Events!platform, Events!EventAssumption
  <2>4. Events!EventsAreTakenOnce'
    BY <1>9 DEF Events!CondTimeout, Events!Goto, Events!Lock, Events!TypeOK,
       Events!CallsMatch, Events!EventsAreTakenOnce, Events!TakenOnce,
       Events!TakesNothingOnFailure, Events!MetBy, Events!Users, Events!platform, Events!EventAssumption
  <2> QED
    BY <2>1, <2>2, <2>3, <2>4
<1>10. ASSUME NEW t \in Waiters, Events!RelockTimedOut(t)
      PROVE  Events!EventInv'
  <2>1. Events!TypeOK'
    BY <1>10 DEF Events!RelockTimedOut, Events!Goto, Events!Lock, Events!TypeOK,
       Events!CallsMatch, Events!PCs, Events!WaitPoints, Events!SetPoints,
       Events!Users, Events!platform, Events!EventAssumption
  <2>2. Events!CallsMatch'
    BY <1>10 DEF Events!RelockTimedOut, Events!Goto, Events!Lock, Events!TypeOK,
       Events!CallsMatch, Events!WaitPoints, Events!SetPoints,
       Events!Users, Events!platform, Events!EventAssumption
  <2>3. Events!SleepersUnmet'
    BY <1>10, OnlyOne DEF Events!RelockTimedOut, Events!Goto, Events!Lock, Events!TypeOK,
       Events!CallsMatch, Events!SleepersUnmet,
       Events!OneWaiterOrBroadcast, Events!MetBy, Events!Users, Events!platform, Events!EventAssumption
  <2>4. Events!EventsAreTakenOnce'
    BY <1>10 DEF Events!RelockTimedOut, Events!Goto, Events!Lock, Events!TypeOK,
       Events!CallsMatch, Events!EventsAreTakenOnce,
       Events!TakenOnce, Events!TakesNothingOnFailure, Events!MetBy, Events!Users, Events!platform, Events!EventAssumption
  <2> QED
    BY <2>1, <2>2, <2>3, <2>4
<1>11. ASSUME NEW t \in Waiters, Events!Return(t, "unlock")
      PROVE  Events!EventInv'
  <2>1. Events!TypeOK'
    BY <1>11 DEF Events!Return, Events!Goto, Events!Lock, Events!TypeOK, Events!CallsMatch,
       Events!PCs, Events!WaitPoints, Events!SetPoints, Events!Users,
       Events!platform, Events!EventAssumption
  <2>2. Events!CallsMatch'
    BY <1>11 DEF Events!Return, Events!Goto, Events!Lock, Events!TypeOK, Events!CallsMatch,
       Events!WaitPoints, Events!SetPoints, Events!Users,
       Events!platform, Events!EventAssumption
  <2>3. Events!SleepersUnmet'
    BY <1>11, OnlyOne DEF Events!Return, Events!Goto, Events!Lock, Events!TypeOK,
       Events!CallsMatch, Events!SleepersUnmet,
       Events!OneWaiterOrBroadcast, Events!MetBy, Events!Users, Events!platform, Events!EventAssumption
  <2>4. Events!EventsAreTakenOnce'
    BY <1>11 DEF Events!Return, Events!Goto, Events!Lock, Events!TypeOK, Events!CallsMatch,
       Events!EventsAreTakenOnce, Events!TakenOnce,
       Events!TakesNothingOnFailure, Events!MetBy, Events!Users, Events!platform, Events!EventAssumption
  <2> QED
    BY <2>1, <2>2, <2>3, <2>4
<1>12. ASSUME NEW t \in Setters, NEW request \in Events!SetCalls, Events!CallSet(t, request)
      PROVE  Events!EventInv'
  <2>1. Events!TypeOK'
    BY <1>12 DEF Events!CallSet, Events!Goto, Events!Lock, Events!TypeOK, Events!CallsMatch,
       Events!PCs, Events!WaitPoints, Events!SetPoints, Events!Users,
       Events!platform, Events!EventAssumption
  <2>2. Events!CallsMatch'
    BY <1>12 DEF Events!CallSet, Events!Goto, Events!Lock, Events!TypeOK, Events!CallsMatch,
       Events!WaitPoints, Events!SetPoints, Events!Users,
       Events!platform, Events!EventAssumption
  <2>3. Events!SleepersUnmet'
    BY <1>12, OnlyOne DEF Events!CallSet, Events!Goto, Events!Lock, Events!TypeOK,
       Events!CallsMatch, Events!SleepersUnmet,
       Events!OneWaiterOrBroadcast, Events!MetBy, Events!Users, Events!platform, Events!EventAssumption
  <2>4. Events!EventsAreTakenOnce'
    BY <1>12 DEF Events!CallSet, Events!Goto, Events!Lock, Events!TypeOK, Events!CallsMatch,
       Events!EventsAreTakenOnce, Events!TakenOnce,
       Events!TakesNothingOnFailure, Events!MetBy, Events!Users, Events!platform, Events!EventAssumption
  <2> QED
    BY <2>1, <2>2, <2>3, <2>4
<1>13. ASSUME NEW t \in Setters, Events!SetLock(t)
      PROVE  Events!EventInv'
  <2>0. event_call[t].op \in {"set", "clear"}
    BY <1>13 DEF Events!SetLock, Events!Goto, Events!CallsMatch, Events!SetPoints,
       Events!SetCalls
  <2>1. Events!TypeOK'
    BY <1>13, <2>0 DEF Events!SetLock, Events!Goto, Events!Lock, Events!TypeOK,
       Events!CallsMatch, Events!PCs, Events!WaitPoints, Events!SetPoints,
       Events!Users, Events!platform, Events!EventAssumption
  <2>2. Events!CallsMatch'
    BY <1>13, <2>0 DEF Events!SetLock, Events!Goto, Events!Lock, Events!TypeOK,
       Events!CallsMatch, Events!WaitPoints, Events!SetPoints,
       Events!Users, Events!platform, Events!EventAssumption
  <2>3. Events!SleepersUnmet'
    BY <1>13, OnlyOne DEF Events!SetLock, Events!Goto, Events!Lock, Events!TypeOK,
       Events!CallsMatch, Events!SleepersUnmet,
       Events!OneWaiterOrBroadcast, Events!MetBy, Events!Users, Events!platform, Events!EventAssumption
  <2>4. Events!EventsAreTakenOnce'
    BY <1>13, <2>0 DEF Events!SetLock, Events!Goto, Events!Lock, Events!TypeOK,
       Events!CallsMatch, Events!EventsAreTakenOnce,
       Events!TakenOnce, Events!TakesNothingOnFailure, Events!MetBy, Events!Users, Events!platform, Events!EventAssumption
  <2> QED
    BY <2>1, <2>2, <2>3, <2>4
<1>14. ASSUME NEW t \in Setters, Events!SetBits(t)
      PROVE  Events!EventInv'
  <2>0. event_call[t].mask \subseteq Bits
    BY <1>14 DEF Events!SetBits, Events!Goto, Events!CallsMatch, Events!SetPoints,
       Events!SetCalls, Events!EventAssumption
  <2>1. Events!TypeOK'
    BY <1>14, <2>0 DEF Events!SetBits, Events!Goto, Events!Lock, Events!TypeOK,
       Events!CallsMatch, Events!PCs, Events!WaitPoints, Events!SetPoints,
       Events!Users, Events!platform, Events!EventAssumption
  <2>2. Events!CallsMatch'
    BY <1>14, <2>0 DEF Events!SetBits, Events!Goto, Events!Lock, Events!TypeOK,
       Events!CallsMatch, Events!WaitPoints, Events!SetPoints,
       Events!Users, Events!platform, Events!EventAssumption
  <2>3. Events!SleepersUnmet'
    BY <1>14, OnlyOne DEF Events!SetBits, Events!Goto, Events!Lock, Events!TypeOK,
       Events!CallsMatch, Events!SleepersUnmet,
       Events!OneWaiterOrBroadcast, Events!MetBy, Events!Users, Events!platform, Events!EventAssumption
  <2>4. Events!EventsAreTakenOnce'
    BY <1>14, <2>0 DEF Events!SetBits, Events!Goto, Events!Lock, Events!TypeOK,
       Events!CallsMatch, Events!EventsAreTakenOnce,
       Events!TakenOnce, Events!TakesNothingOnFailure, Events!MetBy, Events!Users, Events!platform, Events!EventAssumption
  <2> QED
    BY <2>1, <2>2, <2>3, <2>4
<1>15. ASSUME NEW t \in Setters, Events!ClearBits(t)
      PROVE  Events!EventInv'
  <2>1. Events!TypeOK'
    BY <1>15 DEF Events!ClearBits, Events!Goto, Events!Lock, Events!TypeOK,
       Events!CallsMatch, Events!PCs, Events!WaitPoints, Events!SetPoints,
       Events!Users, Events!platform, Events!EventAssumption
  <2>2. Events!CallsMatch'
    BY <1>15 DEF Events!ClearBits, Events!Goto, Events!Lock, Events!TypeOK,
       Events!CallsMatch, Events!WaitPoints, Events!SetPoints, Events!Users,
       Events!platform, Events!EventAssumption
  <2>3. Events!SleepersUnmet'
    BY <1>15, OnlyOne DEF Events!ClearBits, Events!Goto, Events!Lock, Events!TypeOK,
       Events!CallsMatch, Events!SleepersUnmet,
       Events!OneWaiterOrBroadcast, Events!MetBy, Events!Users, Events!platform, Events!EventAssumption
  <2>4. Events!EventsAreTakenOnce'
    BY <1>15 DEF Events!ClearBits, Events!Goto, Events!Lock, Events!TypeOK,
       Events!CallsMatch, Events!EventsAreTakenOnce, Events!TakenOnce,
       Events!TakesNothingOnFailure, Events!MetBy, Events!Users, Events!platform, Events!EventAssumption
  <2> QED
    BY <2>1, <2>2, <2>3, <2>4
<1>16. ASSUME NEW t \in Setters, Events!Return(t, "set_unlock")
      PROVE  Events!EventInv'
  <2>1. Events!TypeOK'
    BY <1>16 DEF Events!Return, Events!Goto, Events!Lock, Events!TypeOK, Events!CallsMatch,
       Events!PCs, Events!WaitPoints, Events!SetPoints, Events!Users,
       Events!platform, Events!EventAssumption
  <2>2. Events!CallsMatch'
    BY <1>16 DEF Events!Return, Events!Goto, Events!Lock, Events!TypeOK, Events!CallsMatch,
       Events!WaitPoints, Events!SetPoints, Events!Users,
       Events!platform, Events!EventAssumption
  <2>3. Events!SleepersUnmet'
    BY <1>16, OnlyOne DEF Events!Return, Events!Goto, Events!Lock, Events!TypeOK,
       Events!CallsMatch, Events!SleepersUnmet,
       Events!OneWaiterOrBroadcast, Events!MetBy, Events!Users, Events!platform, Events!EventAssumption
  <2>4. Events!EventsAreTakenOnce'
    BY <1>16 DEF Events!Return, Events!Goto, Events!Lock, Events!TypeOK, Events!CallsMatch,
       Events!EventsAreTakenOnce, Events!TakenOnce,
       Events!TakesNothingOnFailure, Events!MetBy, Events!Users, Events!platform, Events!EventAssumption
  <2> QED
    BY <2>1, <2>2, <2>3, <2>4
<1> QED
  BY <1>1, <1>2, <1>3, <1>4, <1>5, <1>6, <1>7, <1>8, <1>9, <1>10, <1>11, <1>12, <1>13,
     <1>14, <1>15, <1>16 DEF Events!Next, Events!WaitStep, Events!SetStep

\* EventInv holds in every state of EventGroup, for any number of threads and bits and
\* on every platform.
THEOREM EventInvariant == ASSUME Events!EventAssumption PROVE Events!Spec => []Events!EventInv
<1>1. Events!Init => Events!EventInv
  BY EventInitInv
<1>2. Events!EventInv /\ [Events!Next]_Events!vars => Events!EventInv'
  <2>1. ASSUME Events!EventInv, UNCHANGED Events!vars PROVE Events!EventInv'
    BY <2>1 DEF Events!vars, Events!platform, Events!EventInv, Events!TypeOK,
       Events!CallsMatch, Events!SleepersUnmet,
       Events!OneWaiterOrBroadcast, Events!EventsAreTakenOnce, Events!TakenOnce, Events!TakesNothingOnFailure
  <2> QED
    BY <2>1, EventNextInv
<1> QED
  BY <1>1, <1>2, PTL DEF Events!Spec

\* No thread sleeps while what it waits for is there, and with AUTO_CLEAR one wait at most
\* reports an event (etcpal_event_group_timed_wait, etcpal_event_group_set_bits).
THEOREM EventsAlwaysReachOneWaiter ==
  ASSUME Events!EventAssumption PROVE Events!Spec => []EventsReachOneWaiter
<1>1. Events!EventInv => EventsReachOneWaiter
  BY DEF EventsReachOneWaiter, Events!EventInv, Events!EventsReachOneWaiter, Events!NoSleeperMissed,
     Events!SleepersUnmet
<1> QED
  BY <1>1, EventInvariant, PTL

----
(***************************************************************************)
(* Signals.                                                                *)
(***************************************************************************)
LEMMA SignalInitInv ==
  ASSUME Signals!SignalAssumption, Signals!Init
  PROVE  Signals!SignalInv /\ Signals!Auto!AutoInit
BY DEF Signals!Init, Signals!SignalInv, Signals!TypeOK, Signals!SignalAssumption,
   Signals!Auto!AutoInit,
   Signals!Waiting,
       Signals!Waits

\* Every step keeps SignalInv, and sets, takes or renews the flag of an AutoReset, begins
\* or gives up a wait, or is none of its steps.
LEMMA SignalNextInv ==
  ASSUME Signals!SignalAssumption, Signals!SignalInv, Signals!Next
  PROVE  Signals!SignalInv' /\ [Signals!Auto!AutoNext]_Signals!Auto!auto_vars
<1> USE DEF Signals!SignalInv, Signals!TypeOK, Signals!SignalAssumption, Signals!Waits
<1> DEFINE Facts == Signals!SignalInv' /\ [Signals!Auto!AutoNext]_Signals!Auto!auto_vars
<1>1. ASSUME Signals!etcpal_signal_create
      PROVE  Facts
  <2>1. Signals!SignalInv'
    BY <1>1 DEF Signals!etcpal_signal_create
  <2>2. Signals!Auto!Renew
    BY <1>1 DEF Signals!etcpal_signal_create, Signals!Auto!Renew, Signals!Auto!auto_vars,
       Signals!Waiting
  <2> QED
    BY <2>1, <2>2 DEF Signals!Auto!AutoNext
<1>2. ASSUME Signals!etcpal_signal_destroy
      PROVE  Facts
  <2>1. Signals!SignalInv'
    BY <1>2 DEF Signals!etcpal_signal_destroy, Signals!NobodyCalls
  <2>2. UNCHANGED Signals!Auto!auto_vars
    BY <1>2 DEF Signals!etcpal_signal_destroy, Signals!NobodyCalls, Signals!Auto!auto_vars,
       Signals!Waiting
  <2> QED
    BY <2>1, <2>2
<1>3. ASSUME Signals!etcpal_signal_post_from_isr
      PROVE  Facts
  <2>1. Signals!SignalInv'
    BY <1>3 DEF Signals!etcpal_signal_post_from_isr
  <2>2. Signals!Auto!Set
    BY <1>3 DEF Signals!etcpal_signal_post_from_isr, Signals!Auto!Set,
       Signals!Auto!auto_vars,
       Signals!Waiting
  <2> QED
    BY <2>1, <2>2 DEF Signals!Auto!AutoNext
<1>4. ASSUME NEW t \in Threads,
             NEW name \in Signals!Waits \cup {"post"}, NEW timeout \in {"zero", "some", "forever"},
             Signals!CallSignal(t, name, timeout)
      PROVE  Facts
  <2>1. Signals!SignalInv'
    BY <1>4 DEF Signals!CallSignal, Signals!Function
  <2>2. Signals!Auto!Begin(t) \/ UNCHANGED Signals!Auto!auto_vars
    BY <1>4 DEF Signals!CallSignal, Signals!Function, Signals!Auto!Begin,
       Signals!Auto!auto_vars,
       Signals!Waiting
  <2> QED
    BY <2>1, <2>2 DEF Signals!Auto!AutoNext
<1>5. ASSUME NEW t \in Threads, Signals!LockMutex(t)
      PROVE  Facts
  <2>1. Signals!SignalInv'
    BY <1>5 DEF Signals!LockMutex
  <2>2. UNCHANGED Signals!Auto!auto_vars
    BY <1>5 DEF Signals!LockMutex, Signals!Auto!auto_vars, Signals!Waiting
  <2> QED
    BY <2>1, <2>2
<1>6. ASSUME NEW t \in Threads, Signals!WakeForNoReason(t)
      PROVE  Facts
  <2>1. Signals!SignalInv'
    BY <1>6 DEF Signals!WakeForNoReason
  <2>2. UNCHANGED Signals!Auto!auto_vars
    BY <1>6 DEF Signals!WakeForNoReason, Signals!Auto!auto_vars, Signals!Waiting
  <2> QED
    BY <2>1, <2>2
<1>7. ASSUME NEW t \in Threads, Signals!TakeSignal(t)
      PROVE  Facts
  <2>1. Signals!SignalInv'
    BY <1>7 DEF Signals!TakeSignal, Signals!Holds, Signals!Return
  <2>2. Signals!Auto!Take(t)
    BY <1>7 DEF Signals!TakeSignal, Signals!Holds, Signals!Return, Signals!Auto!Take,
       Signals!Auto!auto_vars,
       Signals!Waiting
  <2> QED
    BY <2>1, <2>2 DEF Signals!Auto!AutoNext
<1>8. ASSUME NEW t \in Threads, Signals!Sleep(t)
      PROVE  Facts
  <2>1. Signals!SignalInv'
    BY <1>8 DEF Signals!Sleep, Signals!Holds
  <2>2. UNCHANGED Signals!Auto!auto_vars
    BY <1>8 DEF Signals!Sleep, Signals!Holds, Signals!Auto!auto_vars, Signals!Waiting
  <2> QED
    BY <2>1, <2>2
<1>9. ASSUME NEW t \in Threads, Signals!NotSignaled(t)
      PROVE  Facts
  <2>1. Signals!SignalInv'
    BY <1>9 DEF Signals!NotSignaled, Signals!Holds, Signals!Return
  <2>2. Signals!Auto!GiveUp(t)
    BY <1>9 DEF Signals!NotSignaled, Signals!Holds, Signals!Return, Signals!Auto!GiveUp,
       Signals!Auto!auto_vars,
       Signals!Waiting
  <2> QED
    BY <2>1, <2>2 DEF Signals!Auto!AutoNext
<1>10. ASSUME NEW t \in Threads, Signals!PostSignal(t)
      PROVE  Facts
  <2>1. Signals!SignalInv'
    BY <1>10 DEF Signals!PostSignal, Signals!Holds
  <2>2. Signals!Auto!Set
    BY <1>10 DEF Signals!PostSignal, Signals!Holds, Signals!Auto!Set,
       Signals!Auto!auto_vars, Signals!Waiting
  <2> QED
    BY <2>1, <2>2 DEF Signals!Auto!AutoNext
<1>11. ASSUME NEW t \in Threads, Signals!KernelTake(t)
      PROVE  Facts
  <2>1. Signals!SignalInv'
    BY <1>11 DEF Signals!KernelTake, Signals!Return
  <2>2. Signals!Auto!Take(t)
    BY <1>11 DEF Signals!KernelTake, Signals!Return, Signals!Auto!Take,
       Signals!Auto!auto_vars, Signals!Waiting
  <2> QED
    BY <2>1, <2>2 DEF Signals!Auto!AutoNext
<1>12. ASSUME NEW t \in Threads, Signals!KernelTimesOut(t)
      PROVE  Facts
  <2>1. Signals!SignalInv'
    BY <1>12 DEF Signals!KernelTimesOut, Signals!Return
  <2>2. Signals!Auto!GiveUp(t)
    BY <1>12 DEF Signals!KernelTimesOut, Signals!Return, Signals!Auto!GiveUp,
       Signals!Auto!auto_vars,
       Signals!Waiting
  <2> QED
    BY <2>1, <2>2 DEF Signals!Auto!AutoNext
<1>13. ASSUME NEW t \in Threads, Signals!KernelPost(t)
      PROVE  Facts
  <2>1. Signals!SignalInv'
    BY <1>13 DEF Signals!KernelPost, Signals!Return
  <2>2. Signals!Auto!Set
    BY <1>13 DEF Signals!KernelPost, Signals!Return, Signals!Auto!Set,
       Signals!Auto!auto_vars, Signals!Waiting
  <2> QED
    BY <2>1, <2>2 DEF Signals!Auto!AutoNext
<1> QED
  BY <1>1, <1>2, <1>3, <1>4, <1>5, <1>6, <1>7, <1>8, <1>9, <1>10, <1>11, <1>12, <1>13 DEF
     Signals!Next, Signals!RunsOn

\* SignalInv holds in every state of a signal, on every port.
THEOREM SignalInvariant == ASSUME Signals!SignalAssumption PROVE Signals!Spec => []Signals!SignalInv
<1>1. Signals!Init => Signals!SignalInv
  BY SignalInitInv
<1>2. Signals!SignalInv /\ [Signals!Next]_Signals!vars => Signals!SignalInv'
  <2>1. ASSUME Signals!SignalInv, UNCHANGED Signals!vars PROVE Signals!SignalInv'
    BY <2>1 DEF Signals!vars, Signals!SignalInv, Signals!TypeOK
  <2> QED
    BY <2>1, SignalNextInv
<1> QED
  BY <1>1, <1>2, PTL DEF Signals!Spec

\* A signal does nothing that an AutoReset may not: one wait returns for each time it is
\* set, and none says that it was not set when it was (etcpal_signal_wait,
\* etcpal_signal_try_wait, etcpal_signal_post).
THEOREM SignalIsAutoReset ==
  ASSUME Signals!SignalAssumption PROVE Signals!Spec => Signals!Auto!AutoSafety
<1>1. Signals!Init => Signals!Auto!AutoInit
  BY SignalInitInv
<1>2. Signals!SignalInv /\ [Signals!Next]_Signals!vars => [Signals!Auto!AutoNext]_Signals!Auto!auto_vars
  <2>1. ASSUME UNCHANGED Signals!vars PROVE UNCHANGED Signals!Auto!auto_vars
    BY <2>1 DEF Signals!vars, Signals!Auto!auto_vars, Signals!Waiting
  <2> QED
    BY <2>1, SignalNextInv
<1> QED
  BY <1>1, <1>2, SignalInvariant, PTL DEF Signals!Spec, Signals!Auto!AutoSafety

----
(***************************************************************************)
(* The C++ Logger.                                                         *)
(***************************************************************************)

\* The Logger's numbers are those of FiniteSets.
LEMMA LogNumbers ==
  \A S : /\ Log!IsFiniteSet(S) <=> IsFiniteSet(S)
         /\ Log!Cardinality(S) = Cardinality(S)
BY DEF Log!IsFiniteSet, IsFiniteSet, Log!Cardinality, Cardinality

\* A caller that passes the bound leaves room for those before it.
LEMMA RoomForOneMore ==
  ASSUME Log!LoggerAssumption, Log!LoggerInv, NEW t \in Loggers, Log!CallLog(t)
  PROVE  Log!RoomForCalls'
<1>1. IsFiniteSet(Log!Enqueuing) /\ Cardinality(Log!Enqueuing) \in Nat
  BY LogNumbers, FS_Subset, FS_CardinalityType DEF Log!LoggerAssumption, Log!Enqueuing
<1>2. Log!Enqueuing' = Log!Enqueuing \cup {t}
  BY DEF Log!LoggerInv, Log!TypeOK, Log!CallLog, Log!LoggerGoto, Log!Enqueuing
<1>3. Cardinality(Log!Enqueuing') = Cardinality(Log!Enqueuing) + 1
  <2>1. t \notin Log!Enqueuing
    BY DEF Log!CallLog, Log!LoggerGoto, Log!Enqueuing
  <2> QED
    BY <1>1, <1>2, <2>1, FS_AddElement
<1>4. IsFiniteSet(Log!Enqueuing') /\ Cardinality(Log!Enqueuing') \in Nat
  BY <1>1, <1>2, FS_AddElement, FS_CardinalityType
<1> QED
  BY <1>1, <1>3, <1>4, LogNumbers DEF Log!LoggerAssumption, Log!LoggerInv, Log!TypeOK,
     Log!CallLog, Log!queues, Log!RoomForCalls

LEMMA EnqueueKeepsRoom ==
  ASSUME Log!LoggerAssumption, Log!LoggerInv, NEW t \in Loggers, Log!Enqueue(t)
  PROVE  Log!RoomForCalls' /\ queued + 1 <= MaxMessages
<1>1. IsFiniteSet(Log!Enqueuing) /\ Cardinality(Log!Enqueuing) \in Nat /\ t \in Log!Enqueuing
  BY LogNumbers, FS_Subset, FS_CardinalityType DEF Log!LoggerAssumption, Log!Enqueuing,
     Log!Enqueue, Log!LoggerGoto
<1>2. Log!Enqueuing' = Log!Enqueuing \ {t}
  BY DEF Log!LoggerInv, Log!TypeOK, Log!Enqueue, Log!LoggerGoto, Log!Enqueuing
<1>3. /\ IsFiniteSet(Log!Enqueuing') /\ Cardinality(Log!Enqueuing') \in Nat
      /\ Cardinality(Log!Enqueuing') = Cardinality(Log!Enqueuing) - 1
  BY <1>1, <1>2, FS_RemoveElement, FS_CardinalityType
<1> QED
  BY <1>1, <1>3, LogNumbers DEF Log!LoggerAssumption, Log!LoggerInv, Log!TypeOK,
     Log!Enqueue, Log!RoomForCalls

\* Only a caller adds to those about to queue a message.
LEMMA RoomIsKept ==
  ASSUME Log!LoggerAssumption, Log!LoggerInv,
         Log!Enqueuing' \subseteq Log!Enqueuing, queued' = queued
  PROVE  Log!RoomForCalls'
<1>1. IsFiniteSet(Log!Enqueuing)
  BY LogNumbers, FS_Subset DEF Log!LoggerAssumption, Log!Enqueuing
<1>2. /\ Cardinality(Log!Enqueuing') <= Cardinality(Log!Enqueuing)
      /\ Cardinality(Log!Enqueuing) \in Nat /\ Cardinality(Log!Enqueuing') \in Nat
  BY <1>1, FS_Subset, FS_CardinalityType
<1> QED
  BY <1>2, LogNumbers DEF Log!LoggerAssumption, Log!LoggerInv, Log!TypeOK, Log!RoomForCalls

LEMMA LoggerInitInv ==
  ASSUME Log!LoggerAssumption, Log!Init
  PROVE  Log!LoggerInv
<1>1. Log!TypeOK
  <2>1. \A q \in {msg_q, to_log, handled} : q \in Seq(1..queued)
    BY EmptySeq DEF Log!Init
  <2>2. {initialized, context_set, log_module, signal, stop_signal} \subseteq BOOLEAN
    BY DEF Log!Init
  <2> QED
    BY <2>1, <2>2 DEF Log!LoggerAssumption, Log!Init, Log!TypeOK, Log!OwnerPoints,
       Log!DispatcherPoints
<1>2. Log!PlacesAgree /\ Log!DueIsInHand
  BY DEF Log!Init, Log!PlacesAgree, Log!DueIsInHand, Log!LastPoints
<1>3. Log!HandledInOrder
  BY DEF Log!Init, Log!HandledInOrder
<1>4. Log!RoomForCalls
  <2>1. Log!Enqueuing = {}
    BY DEF Log!Init, Log!Enqueuing
  <2> QED
    BY <2>1, FS_EmptySet, LogNumbers DEF Log!LoggerAssumption, Log!Init, Log!RoomForCalls
<1> QED
  BY <1>1, <1>2, <1>3, <1>4 DEF Log!LoggerInv

LEMMA OwnerKeepsLoggerInv ==
  ASSUME Log!LoggerAssumption, Log!LoggerInv, Log!Startup \/ Log!BeginShutdown \/ Log!OwnerRunsOn
  PROVE  Log!LoggerInv'
<1> USE DEF Log!LoggerInv
<1>1. UNCHANGED <<Log!queues, logger>>
  BY DEF Log!Startup, Log!BeginShutdown, Log!OwnerRunsOn, Log!StartThread,
     Log!StartThreadFails, Log!NotifyStop, Log!NotifySignal, Log!Join, Log!EndShutdown
<1>2. Log!TypeOK'
  <2>1. /\ {initialized, context_set, log_module, signal, stop_signal}' \subseteq BOOLEAN
        /\ due' \in {due, queued}
    BY DEF Log!TypeOK, Log!session, Log!signals, Log!Startup, Log!BeginShutdown,
       Log!OwnerRunsOn, Log!StartThread, Log!StartThreadFails, Log!NotifyStop,
       Log!NotifySignal, Log!Join, Log!EndShutdown
  <2>2. /\ owner' \in Log!OwnerPoints /\ dispatcher' \in Log!DispatcherPoints
        /\ dispatcher' = "none" <=> owner' \in {"stopped", "start_thread", "deinit"}
    BY DEF Log!TypeOK, Log!OwnerPoints, Log!DispatcherPoints, Log!OwnerGoto,
       Log!DispatcherGoto, Log!Startup, Log!BeginShutdown, Log!OwnerRunsOn, Log!StartThread,
       Log!StartThreadFails, Log!NotifyStop, Log!NotifySignal, Log!Join, Log!EndShutdown
  <2> QED
    BY <1>1, <2>1, <2>2 DEF Log!TypeOK, Log!queues
<1>3. Log!PlacesAgree'
  BY <1>1 DEF Log!TypeOK, Log!PlacesAgree, Log!LastPoints, Log!OwnerGoto,
     Log!DispatcherGoto, Log!queues, Log!session, Log!signals, Log!Startup,
     Log!BeginShutdown, Log!OwnerRunsOn, Log!StartThread, Log!StartThreadFails,
     Log!NotifyStop, Log!NotifySignal, Log!Join, Log!EndShutdown
<1>4. Log!DueIsInHand'
  BY <1>1 DEF Log!TypeOK, Log!PlacesAgree, Log!DueIsInHand, Log!LastPoints, Log!OwnerGoto,
     Log!DispatcherGoto, Log!queues, Log!Startup, Log!BeginShutdown, Log!OwnerRunsOn,
     Log!StartThread, Log!StartThreadFails, Log!NotifyStop, Log!NotifySignal, Log!Join,
     Log!EndShutdown
<1>5. Log!HandledInOrder' /\ Log!RoomForCalls'
  BY <1>1 DEF Log!HandledInOrder, Log!RoomForCalls, Log!Enqueuing, Log!queues
<1> QED
  BY <1>2, <1>3, <1>4, <1>5

LEMMA LoggersKeepLoggerInv ==
  ASSUME Log!LoggerAssumption, Log!LoggerInv, NEW t \in Loggers,
         Log!CallLog(t) \/ Log!LoggerRunsOn(t)
  PROVE  Log!LoggerInv'
<1> USE DEF Log!LoggerInv
<1>1. CASE Log!CallLog(t)
  <2>1. Log!TypeOK' /\ Log!PlacesAgree' /\ Log!HandledInOrder' /\ Log!DueIsInHand'
    BY <1>1 DEF Log!TypeOK, Log!PlacesAgree, Log!HandledInOrder, Log!DueIsInHand,
       Log!CallLog, Log!LoggerGoto, Log!session, Log!signals, Log!queues
  <2> QED
    BY <1>1, <2>1, RoomForOneMore
<1>2. CASE Log!Notify(t)
  <2>1. Log!TypeOK' /\ Log!PlacesAgree' /\ Log!HandledInOrder' /\ Log!DueIsInHand'
    BY <1>2 DEF Log!TypeOK, Log!PlacesAgree, Log!HandledInOrder, Log!DueIsInHand,
       Log!Notify, Log!LoggerGoto, Log!session, Log!queues
  <2>2. Log!Enqueuing' \subseteq Log!Enqueuing /\ queued' = queued
    BY <1>2 DEF Log!TypeOK, Log!Notify, Log!LoggerGoto, Log!queues, Log!Enqueuing
  <2> QED
    BY <2>1, <2>2, RoomIsKept
<1>3. CASE Log!Enqueue(t)
  <2>1. /\ queued' = queued + 1 /\ msg_q' = Append(msg_q, queued + 1)
        /\ UNCHANGED <<Log!session, Log!signals, to_log, handled, owner, dispatcher, due>>
        /\ queued \in Nat
    BY <1>3 DEF Log!TypeOK, Log!Enqueue
  <2>2. 1..queued \subseteq 1..(queued + 1) /\ queued + 1 \in 1..(queued + 1)
    BY <2>1
  <2>3. /\ msg_q \in Seq(1..(queued + 1)) /\ to_log \in Seq(1..(queued + 1))
        /\ handled \in Seq(1..(queued + 1))
    BY <2>2, SeqMonotonic DEF Log!TypeOK
  <2>4. Log!TypeOK'
    <3>1. msg_q' \in Seq(1..(queued + 1))
      BY <2>1, <2>2, <2>3
    <3>2. logger' \in [Loggers -> {"idle", "enqueue", "notify"}]
      BY <1>3 DEF Log!Enqueue, Log!LoggerGoto, Log!TypeOK
    <3>3. queued' \in 0..MaxMessages /\ due' \in 0..queued'
      BY <1>3, <2>1, EnqueueKeepsRoom DEF Log!TypeOK, Log!LoggerAssumption
    <3> QED
      BY <2>1, <2>3, <3>1, <3>2, <3>3 DEF Log!TypeOK, Log!session, Log!signals
  <2>5. Log!PlacesAgree' /\ Log!DueIsInHand'
    BY <2>1 DEF Log!PlacesAgree, Log!DueIsInHand, Log!session, Log!signals
  <2>6. Log!HandledInOrder'
    <3>1. handled \o to_log \o Append(msg_q, queued + 1)
            = Append(handled \o to_log \o msg_q, queued + 1)
      BY SMTT(40), <2>3, AppendIsConcat, ConcatAssociative, ConcatProperties
    <3>2. Append([i \in 1..queued |-> i], queued + 1) = [i \in 1..(queued + 1) |-> i]
      BY <2>1
    <3> QED
      BY <2>1, <3>1, <3>2 DEF Log!HandledInOrder
  <2> QED
    BY <1>3, <2>4, <2>5, <2>6, EnqueueKeepsRoom
<1> QED
  BY <1>1, <1>2, <1>3 DEF Log!LoggerRunsOn

LEMMA DispatcherKeepsLoggerInv ==
  ASSUME Log!LoggerAssumption, Log!LoggerInv, Log!DispatcherStep
  PROVE  Log!LoggerInv'
<1> USE DEF Log!LoggerInv
<1>1. UNCHANGED <<Log!session, queued, owner, logger, due>>
  BY DEF Log!DispatcherStep, Log!CheckStop, Log!Swap, Log!Dispatch, Log!AllDispatched,
     Log!WaitSignal, Log!signals, Log!queues
<1>2. Log!RoomForCalls'
  BY <1>1, RoomIsKept DEF Log!Enqueuing
<1>3. CASE Log!CheckStop
  <2>1. Log!TypeOK'
    BY <1>1, <1>3 DEF Log!CheckStop, Log!DispatcherGoto, Log!TypeOK, Log!PlacesAgree,
       Log!DispatcherPoints, Log!session, Log!queues
  <2>2. Log!PlacesAgree' /\ Log!DueIsInHand' /\ Log!HandledInOrder'
    BY <1>1, <1>3 DEF Log!CheckStop, Log!DispatcherGoto, Log!TypeOK, Log!PlacesAgree,
       Log!DueIsInHand, Log!LastPoints, Log!HandledInOrder, Log!session, Log!queues
  <2> QED
    BY <1>2, <2>1, <2>2
<1>4. CASE Log!Swap
  <2>1. /\ to_log = << >> /\ to_log' = msg_q /\ msg_q' = << >> /\ handled' = handled
        /\ UNCHANGED Log!signals
    BY <1>4 DEF Log!Swap, Log!DispatcherGoto, Log!PlacesAgree
  <2>2. handled \o to_log' \o msg_q' = handled \o to_log \o msg_q
    BY <2>1, ConcatEmptySeq, ConcatProperties DEF Log!TypeOK
  <2>3. Log!TypeOK'
    BY <1>1, <1>4, <2>1 DEF Log!Swap, Log!DispatcherGoto, Log!TypeOK, Log!DispatcherPoints,
       Log!session, Log!signals
  <2>4. Log!PlacesAgree'
    BY <1>1, <1>4, <2>1 DEF Log!Swap, Log!DispatcherGoto, Log!PlacesAgree, Log!LastPoints,
       Log!session, Log!signals
  <2>5. Log!HandledInOrder'
    BY <1>1, <2>1, <2>2 DEF Log!HandledInOrder
  <2>6. Len(handled) + Len(msg_q) = queued
    BY <2>1 DEF Log!HandledInOrder, Log!TypeOK
  <2>7. Log!DueIsInHand'
    BY <1>1, <1>4, <2>1, <2>6 DEF Log!Swap, Log!DispatcherGoto, Log!DueIsInHand, Log!TypeOK
  <2> QED
    BY <1>2, <2>3, <2>4, <2>5, <2>7
<1>5. CASE Log!Dispatch
  <2>1. /\ to_log # << >> /\ to_log' = Tail(to_log) /\ handled' = Append(handled, Head(to_log))
        /\ UNCHANGED <<Log!signals, msg_q, dispatcher>>
        /\ dispatcher \in {"dispatch", "last_dispatch"}
    BY <1>5 DEF Log!Dispatch
  <2>2. /\ to_log' \in Seq(1..queued) /\ handled' \in Seq(1..queued)
        /\ Len(handled') = Len(handled) + 1 /\ Len(to_log') = Len(to_log) - 1
    BY <2>1 DEF Log!TypeOK
  <2>3. handled' \o to_log' = handled \o to_log
    <3>1. to_log \in Seq(1..queued) /\ handled \in Seq(1..queued)
      BY DEF Log!TypeOK
    <3>2. PICK first \in 1..queued, rest \in Seq(1..queued) :
            first = Head(to_log) /\ rest = Tail(to_log)
      BY <2>1, <3>1, HeadTailProperties
    <3>3. to_log = <<first>> \o rest
      BY <2>1, <3>1, <3>2
    <3>4. Append(handled, first) \o rest = handled \o (<<first>> \o rest)
      BY <3>1, <3>2
    <3> QED
      BY <2>1, <3>2, <3>3, <3>4
  <2>4. Log!TypeOK' /\ Log!PlacesAgree'
    BY <1>1, <2>1, <2>2 DEF Log!TypeOK, Log!PlacesAgree, Log!session, Log!signals
  <2>5. Log!HandledInOrder'
    BY <1>1, <2>1, <2>3 DEF Log!HandledInOrder
  <2>6. Log!DueIsInHand'
    BY <1>1, <2>1, <2>2 DEF Log!DueIsInHand, Log!TypeOK
  <2> QED
    BY <1>2, <2>4, <2>5, <2>6
<1>6. CASE Log!AllDispatched
  <2>1. Log!TypeOK'
    BY <1>1, <1>6 DEF Log!AllDispatched, Log!DispatcherGoto, Log!TypeOK,
       Log!DispatcherPoints, Log!session, Log!signals, Log!queues
  <2>2. Log!PlacesAgree' /\ Log!DueIsInHand' /\ Log!HandledInOrder'
    BY <1>1, <1>6 DEF Log!AllDispatched, Log!DispatcherGoto, Log!TypeOK, Log!PlacesAgree,
       Log!DueIsInHand, Log!LastPoints, Log!HandledInOrder, Log!session, Log!signals,
       Log!queues
  <2> QED
    BY <1>2, <2>1, <2>2
<1>7. CASE Log!WaitSignal
  <2>1. Log!TypeOK'
    BY <1>1, <1>7 DEF Log!WaitSignal, Log!DispatcherGoto, Log!TypeOK, Log!DispatcherPoints,
       Log!session, Log!queues
  <2>2. Log!PlacesAgree' /\ Log!DueIsInHand' /\ Log!HandledInOrder'
    BY <1>1, <1>7 DEF Log!WaitSignal, Log!DispatcherGoto, Log!TypeOK, Log!PlacesAgree,
       Log!DueIsInHand, Log!LastPoints, Log!HandledInOrder, Log!session, Log!queues
  <2> QED
    BY <1>2, <2>1, <2>2
<1> QED
  BY <1>3, <1>4, <1>5, <1>6, <1>7 DEF Log!DispatcherStep

\* The steps of the dispatch thread, of the thread that owns the Logger and of
\* those that log keep each other's queue and places in order.
THEOREM LoggerInvariant == ASSUME Log!LoggerAssumption PROVE Log!Spec => []Log!LoggerInv
<1>1. Log!Init => Log!LoggerInv
  BY LoggerInitInv
<1>2. Log!LoggerInv /\ [Log!Next]_Log!vars => Log!LoggerInv'
  <2>1. Log!LoggerInv /\ Log!Next => Log!LoggerInv'
    BY OwnerKeepsLoggerInv, LoggersKeepLoggerInv, DispatcherKeepsLoggerInv DEF Log!Next
  <2>2. Log!LoggerInv /\ UNCHANGED Log!vars => Log!LoggerInv'
    BY DEF Log!LoggerInv, Log!TypeOK, Log!PlacesAgree, Log!HandledInOrder, Log!DueIsInHand,
       Log!RoomForCalls, Log!Enqueuing, Log!vars, Log!session, Log!signals, Log!queues
  <2> QED
    BY <2>1, <2>2
<1> QED
  BY <1>1, <1>2, PTL DEF Log!Spec

\* Every message reaches a live handler, once, in order and before Shutdown
\* returns (log.h:390-394), for any number of threads that log.
THEOREM MessagesAreAlwaysSafe ==
  ASSUME Log!LoggerAssumption PROVE Log!Spec => []MessagesAreSafe
<1>1. Log!LoggerInv => MessagesAreSafe
  BY DEF MessagesAreSafe, Log!LoggerInv, Log!MessagesAreSafe, Log!ShutdownFlushes, Log!HandlerIsLive,
     Log!DueIsInHand, Log!PlacesAgree, Log!LastPoints, Log!TypeOK
<1> QED
  BY <1>1, LoggerInvariant, PTL
====
