---- MODULE QueueProofs ----
(***************************************************************************)
(* The counting invariant of Queue and the safety properties it implies.   *)
(* The argument: the lock is held by one call at a time; with that, the    *)
(* three counts change together at each step; from the counts, a push that *)
(* holds a space token finds room in the ring and a pop that holds an item *)
(* token finds an item, although neither looks.                            *)
(***************************************************************************)
EXTENDS Queue, CountingLemmas, SequenceTheorems

LEMMA CountIsTally ==
  ASSUME NEW S
  PROVE  Count(S) = Tally(Clients, pc, S) /\ Count(S)' = Tally(Clients, pc', S)
BY DEF Count, At, Tally, Standing

LEMMA CountType ==
  ASSUME NEW S
  PROVE  Count(S) \in Nat
BY CountIsTally, TallyType, QueueAssumption

LEMMA CountMoves ==
  ASSUME TypeOK, NEW c \in Clients, NEW from, NEW to, Goto(c, from, to), NEW S
  PROVE  Count(S)' = IF from \in S
                     THEN IF to \in S THEN Count(S) ELSE Count(S) - 1
                     ELSE IF to \in S THEN Count(S) + 1 ELSE Count(S)
<1>1. /\ pc[c] = from /\ pc'[c] = to
      /\ OnlyMoves(Clients, pc, pc', c)
  BY DEF Goto, TypeOK, OnlyMoves
<1> QED
  BY <1>1, CountIsTally, TallyMoves, QueueAssumption

LEMMA CountSubset ==
  ASSUME NEW S, NEW T, S \subseteq T
  PROVE  /\ Count(S) <= Count(T)
         /\ \A c \in Clients : pc[c] \in T \ S => Count(S) < Count(T)
BY CountIsTally, TallySubset, QueueAssumption

LEMMA AtMostOneInside ==
  ASSUME TypeOK, LockIsExclusive,
         NEW c \in Clients, NEW d \in Clients,
         pc[c] \in LockedPoints, pc[d] \in LockedPoints
  PROVE  c = d /\ lock = 0
<1>1. Count(LockedPoints) # 0
  BY CountIsTally, TallyNone, QueueAssumption
<1>2. Count(LockedPoints) = 1 /\ lock = 0
  BY <1>1 DEF LockIsExclusive, TypeOK
<1> QED
  BY <1>2, CountIsTally, TallyOne, QueueAssumption

LEMMA AdvanceWraps ==
  ASSUME NEW index \in Nodes
  PROVE  Advance(index) = IF index = Capacity THEN 0 ELSE index + 1
BY QueueAssumption, SMT DEF Advance, Nodes

LEMMA RoomToPush ==
  ASSUME CountingInv, NEW c \in Clients, pc[c] \in {"push_copy", "push_advance"}
  PROVE  queue_size < Capacity
<1>1. Count(NotYetPosted) < Count(HoldingSpace)
  BY CountSubset DEF NotYetPosted, HoldingSpace, Push
<1>2. Count(NotYetPopped) <= Count(HoldingData)
  BY CountSubset DEF NotYetPopped, HoldingData, Pop
<1>3. reset_i = 0
  BY AtMostOneInside DEF CountingInv, ResetProgress, LockedPoints, At
<1> QED
  BY <1>1, <1>2, <1>3, CountType, QueueAssumption
  DEF CountingInv, TypeOK, TokensConserved, SizeMatchesTokens

LEMMA ItemToPop ==
  ASSUME CountingInv, NEW c \in Clients, pc[c] \in {"pop_copy", "pop_advance"}
  PROVE  queue_size > 0
<1>1. Count({}) < Count(NotYetPopped)
  BY CountSubset DEF NotYetPopped
<1> QED
  BY <1>1, CountType DEF CountingInv, TypeOK, SizeMatchesTokens

LEMMA SendPreserves ==
  ASSUME CountingInv, NEW c \in Senders, SendStep(c)
  PROVE  CountingInv'
<1> USE DEF CountingInv
<1>1. c \in Clients
  BY DEF Clients
<1>2. ASSUME NEW v \in Items, NEW forever \in BOOLEAN, CallSend(c, v, forever)
      PROVE  CountingInv'
  <2>1. Goto(c, "idle", "wait_for_space")
    BY <1>2 DEF CallSend
  <2>2. TypeOK' /\ RingMatchesSize'
    BY <1>1, <1>2, <2>1, QueueAssumption
    DEF CallSend, Goto, TypeOK, RingMatchesSize, PCs, Push, Pop, ResetCall, Query, Nodes,
        Finish, TakeLock, GiveLock, sems, ring
  <2>3. LockIsExclusive' /\ TokensConserved' /\ SizeMatchesTokens'
    BY <1>1, <1>2, <2>1, CountMoves, CountType
    DEF CallSend, LockIsExclusive, TokensConserved, SizeMatchesTokens, LockedPoints,
        HoldingSpace, HoldingData, NotYetPosted, NotYetPopped, Push, Pop,
        TypeOK, Finish, TakeLock, GiveLock, sems, ring
  <2>4. ResetProgress'
    BY <1>1, <1>2, <2>1, AtMostOneInside
    DEF CallSend, ResetProgress, At, Goto, TypeOK, LockedPoints, ring
  <2> QED
    BY <2>2, <2>3, <2>4
<1>3. ASSUME WaitForSpace(c)
      PROVE  CountingInv'
  <2>1. Goto(c, "wait_for_space", "push_lock")
    BY <1>3 DEF WaitForSpace
  <2>2. TypeOK' /\ RingMatchesSize'
    BY <1>1, <1>3, <2>1, QueueAssumption
    DEF WaitForSpace, Goto, TypeOK, RingMatchesSize, PCs, Push, Pop, ResetCall, Query, Nodes,
        Finish, TakeLock, GiveLock, sems, ring
  <2>3. LockIsExclusive' /\ TokensConserved' /\ SizeMatchesTokens'
    BY <1>1, <1>3, <2>1, CountMoves, CountType
    DEF WaitForSpace, LockIsExclusive, TokensConserved, SizeMatchesTokens, LockedPoints,
        HoldingSpace, HoldingData, NotYetPosted, NotYetPopped, Push, Pop,
        TypeOK, Finish, TakeLock, GiveLock, sems, ring
  <2>4. ResetProgress'
    BY <1>1, <1>3, <2>1, AtMostOneInside
    DEF WaitForSpace, ResetProgress, At, Goto, TypeOK, LockedPoints, ring
  <2> QED
    BY <2>2, <2>3, <2>4
<1>4. ASSUME SpaceTimeout(c)
      PROVE  CountingInv'
  <2>1. Goto(c, "wait_for_space", "idle")
    BY <1>4 DEF SpaceTimeout
  <2>2. TypeOK' /\ RingMatchesSize'
    BY <1>1, <1>4, <2>1, QueueAssumption
    DEF SpaceTimeout, Goto, TypeOK, RingMatchesSize, PCs, Push, Pop, ResetCall, Query, Nodes,
        Finish, TakeLock, GiveLock, sems, ring
  <2>3. LockIsExclusive' /\ TokensConserved' /\ SizeMatchesTokens'
    BY <1>1, <1>4, <2>1, CountMoves, CountType
    DEF SpaceTimeout, LockIsExclusive, TokensConserved, SizeMatchesTokens, LockedPoints,
        HoldingSpace, HoldingData, NotYetPosted, NotYetPopped, Push, Pop,
        TypeOK, Finish, TakeLock, GiveLock, sems, ring
  <2>4. ResetProgress'
    BY <1>1, <1>4, <2>1, AtMostOneInside
    DEF SpaceTimeout, ResetProgress, At, Goto, TypeOK, LockedPoints, ring
  <2> QED
    BY <2>2, <2>3, <2>4
<1>5. ASSUME PushLock(c)
      PROVE  CountingInv'
  <2>1. Goto(c, "push_lock", "push_copy")
    BY <1>5 DEF PushLock
  <2>2. TypeOK' /\ RingMatchesSize'
    BY <1>1, <1>5, <2>1, QueueAssumption
    DEF PushLock, Goto, TypeOK, RingMatchesSize, PCs, Push, Pop, ResetCall, Query, Nodes,
        Finish, TakeLock, GiveLock, sems, ring
  <2>3. LockIsExclusive' /\ TokensConserved' /\ SizeMatchesTokens'
    BY <1>1, <1>5, <2>1, CountMoves, CountType
    DEF PushLock, LockIsExclusive, TokensConserved, SizeMatchesTokens, LockedPoints,
        HoldingSpace, HoldingData, NotYetPosted, NotYetPopped, Push, Pop,
        TypeOK, Finish, TakeLock, GiveLock, sems, ring
  <2>4. ResetProgress'
    BY <1>1, <1>5, <2>1, AtMostOneInside
    DEF PushLock, ResetProgress, At, Goto, TypeOK, LockedPoints, ring
  <2> QED
    BY <2>2, <2>3, <2>4
<1>6. ASSUME PushCopy(c)
      PROVE  CountingInv'
  <2>1. Goto(c, "push_copy", "push_advance")
    BY <1>6 DEF PushCopy
  <2>2. TypeOK' /\ RingMatchesSize'
    BY <1>1, <1>6, <2>1, QueueAssumption
    DEF PushCopy, Goto, TypeOK, RingMatchesSize, PCs, Push, Pop, ResetCall, Query, Nodes,
        Finish, TakeLock, GiveLock, sems, ring
  <2>3. LockIsExclusive' /\ TokensConserved' /\ SizeMatchesTokens'
    BY <1>1, <1>6, <2>1, CountMoves, CountType
    DEF PushCopy, LockIsExclusive, TokensConserved, SizeMatchesTokens, LockedPoints,
        HoldingSpace, HoldingData, NotYetPosted, NotYetPopped, Push, Pop,
        TypeOK, Finish, TakeLock, GiveLock, sems, ring
  <2>4. ResetProgress'
    BY <1>1, <1>6, <2>1, AtMostOneInside
    DEF PushCopy, ResetProgress, At, Goto, TypeOK, LockedPoints, ring
  <2> QED
    BY <2>2, <2>3, <2>4
<1>7. ASSUME PushAdvance(c)
      PROVE  CountingInv'
  <2>1. Goto(c, "push_advance", "push_unlock")
    BY <1>7 DEF PushAdvance
  <2>2. queue_size < Capacity
    BY <1>1, <2>1, RoomToPush, CountType DEF Goto
  <2>3. head' = IF head = Capacity THEN 0 ELSE head + 1
    BY <1>7, AdvanceWraps DEF PushAdvance, TypeOK
  <2>4. TypeOK'
    BY <1>1, <1>7, <2>1, <2>2, <2>3, QueueAssumption
    DEF PushAdvance, Goto, TypeOK, PCs, Push, Pop, Nodes, sems
  <2>5. RingMatchesSize'
    BY <1>7, <2>2, <2>3, QueueAssumption
    DEF PushAdvance, TypeOK, RingMatchesSize, Nodes
  <2>6. LockIsExclusive' /\ TokensConserved' /\ SizeMatchesTokens'
    BY <1>1, <1>7, <2>1, CountMoves, CountType
    DEF PushAdvance, LockIsExclusive, TokensConserved, SizeMatchesTokens, LockedPoints,
        HoldingSpace, HoldingData, NotYetPosted, NotYetPopped, Push, Pop,
        TypeOK, Finish, TakeLock, GiveLock, sems, ring
  <2>7. ResetProgress'
    BY <1>1, <1>7, <2>1, AtMostOneInside
    DEF PushAdvance, ResetProgress, At, Goto, TypeOK, LockedPoints, ring
  <2> QED
    BY <2>4, <2>5, <2>6, <2>7
<1>8. ASSUME PushUnlock(c)
      PROVE  CountingInv'
  <2>1. Goto(c, "push_unlock", "notify_data")
    BY <1>8 DEF PushUnlock
  <2>2. lock = 0
    BY <1>1, <2>1, AtMostOneInside DEF Goto, LockedPoints
  <2>3. TypeOK' /\ RingMatchesSize'
    BY <1>1, <1>8, <2>1, QueueAssumption
    DEF PushUnlock, Goto, TypeOK, RingMatchesSize, PCs, Push, Pop, ResetCall, Query, Nodes,
        Finish, TakeLock, GiveLock, sems, ring
  <2>4. LockIsExclusive' /\ TokensConserved' /\ SizeMatchesTokens'
    BY <1>1, <1>8, <2>1, <2>2, CountMoves, CountType
    DEF PushUnlock, LockIsExclusive, TokensConserved, SizeMatchesTokens, LockedPoints,
        HoldingSpace, HoldingData, NotYetPosted, NotYetPopped, Push, Pop,
        TypeOK, Finish, TakeLock, GiveLock, sems, ring
  <2>5. ResetProgress'
    BY <1>1, <1>8, <2>1, AtMostOneInside
    DEF PushUnlock, ResetProgress, At, Goto, TypeOK, LockedPoints, ring
  <2> QED
    BY <2>3, <2>4, <2>5
<1>9. ASSUME NotifyDataAvailable(c)
      PROVE  CountingInv'
  <2>1. Goto(c, "notify_data", "idle")
    BY <1>9 DEF NotifyDataAvailable
  <2>2. TypeOK' /\ RingMatchesSize'
    BY <1>1, <1>9, <2>1, QueueAssumption
    DEF NotifyDataAvailable, Goto, TypeOK, RingMatchesSize, PCs, Push, Pop, ResetCall, Query, Nodes,
        Finish, TakeLock, GiveLock, sems, ring
  <2>3. LockIsExclusive' /\ TokensConserved' /\ SizeMatchesTokens'
    BY <1>1, <1>9, <2>1, CountMoves, CountType
    DEF NotifyDataAvailable, LockIsExclusive, TokensConserved, SizeMatchesTokens, LockedPoints,
        HoldingSpace, HoldingData, NotYetPosted, NotYetPopped, Push, Pop,
        TypeOK, Finish, TakeLock, GiveLock, sems, ring
  <2>4. ResetProgress'
    BY <1>1, <1>9, <2>1, AtMostOneInside
    DEF NotifyDataAvailable, ResetProgress, At, Goto, TypeOK, LockedPoints, ring
  <2> QED
    BY <2>2, <2>3, <2>4
<1> QED
  BY <1>2, <1>3, <1>4, <1>5, <1>6, <1>7, <1>8, <1>9 DEF SendStep

LEMMA ReceivePreserves ==
  ASSUME CountingInv, NEW c \in Receivers, ReceiveStep(c)
  PROVE  CountingInv'
<1> USE DEF CountingInv
<1>1. c \in Clients
  BY DEF Clients
<1>2. ASSUME NEW forever \in BOOLEAN, CallReceive(c, forever)
      PROVE  CountingInv'
  <2>1. Goto(c, "idle", "wait_for_data")
    BY <1>2 DEF CallReceive
  <2>2. TypeOK' /\ RingMatchesSize'
    BY <1>1, <1>2, <2>1, QueueAssumption
    DEF CallReceive, Goto, TypeOK, RingMatchesSize, PCs, Push, Pop, ResetCall, Query, Nodes,
        Finish, TakeLock, GiveLock, sems, ring
  <2>3. LockIsExclusive' /\ TokensConserved' /\ SizeMatchesTokens'
    BY <1>1, <1>2, <2>1, CountMoves, CountType
    DEF CallReceive, LockIsExclusive, TokensConserved, SizeMatchesTokens, LockedPoints,
        HoldingSpace, HoldingData, NotYetPosted, NotYetPopped, Push, Pop,
        TypeOK, Finish, TakeLock, GiveLock, sems, ring
  <2>4. ResetProgress'
    BY <1>1, <1>2, <2>1, AtMostOneInside
    DEF CallReceive, ResetProgress, At, Goto, TypeOK, LockedPoints, ring
  <2> QED
    BY <2>2, <2>3, <2>4
<1>3. ASSUME WaitForData(c)
      PROVE  CountingInv'
  <2>1. Goto(c, "wait_for_data", "pop_lock")
    BY <1>3 DEF WaitForData
  <2>2. TypeOK' /\ RingMatchesSize'
    BY <1>1, <1>3, <2>1, QueueAssumption
    DEF WaitForData, Goto, TypeOK, RingMatchesSize, PCs, Push, Pop, ResetCall, Query, Nodes,
        Finish, TakeLock, GiveLock, sems, ring
  <2>3. LockIsExclusive' /\ TokensConserved' /\ SizeMatchesTokens'
    BY <1>1, <1>3, <2>1, CountMoves, CountType
    DEF WaitForData, LockIsExclusive, TokensConserved, SizeMatchesTokens, LockedPoints,
        HoldingSpace, HoldingData, NotYetPosted, NotYetPopped, Push, Pop,
        TypeOK, Finish, TakeLock, GiveLock, sems, ring
  <2>4. ResetProgress'
    BY <1>1, <1>3, <2>1, AtMostOneInside
    DEF WaitForData, ResetProgress, At, Goto, TypeOK, LockedPoints, ring
  <2> QED
    BY <2>2, <2>3, <2>4
<1>4. ASSUME DataTimeout(c)
      PROVE  CountingInv'
  <2>1. Goto(c, "wait_for_data", "idle")
    BY <1>4 DEF DataTimeout
  <2>2. TypeOK' /\ RingMatchesSize'
    BY <1>1, <1>4, <2>1, QueueAssumption
    DEF DataTimeout, Goto, TypeOK, RingMatchesSize, PCs, Push, Pop, ResetCall, Query, Nodes,
        Finish, TakeLock, GiveLock, sems, ring
  <2>3. LockIsExclusive' /\ TokensConserved' /\ SizeMatchesTokens'
    BY <1>1, <1>4, <2>1, CountMoves, CountType
    DEF DataTimeout, LockIsExclusive, TokensConserved, SizeMatchesTokens, LockedPoints,
        HoldingSpace, HoldingData, NotYetPosted, NotYetPopped, Push, Pop,
        TypeOK, Finish, TakeLock, GiveLock, sems, ring
  <2>4. ResetProgress'
    BY <1>1, <1>4, <2>1, AtMostOneInside
    DEF DataTimeout, ResetProgress, At, Goto, TypeOK, LockedPoints, ring
  <2> QED
    BY <2>2, <2>3, <2>4
<1>5. ASSUME PopLock(c)
      PROVE  CountingInv'
  <2>1. Goto(c, "pop_lock", "pop_copy")
    BY <1>5 DEF PopLock
  <2>2. TypeOK' /\ RingMatchesSize'
    BY <1>1, <1>5, <2>1, QueueAssumption
    DEF PopLock, Goto, TypeOK, RingMatchesSize, PCs, Push, Pop, ResetCall, Query, Nodes,
        Finish, TakeLock, GiveLock, sems, ring
  <2>3. LockIsExclusive' /\ TokensConserved' /\ SizeMatchesTokens'
    BY <1>1, <1>5, <2>1, CountMoves, CountType
    DEF PopLock, LockIsExclusive, TokensConserved, SizeMatchesTokens, LockedPoints,
        HoldingSpace, HoldingData, NotYetPosted, NotYetPopped, Push, Pop,
        TypeOK, Finish, TakeLock, GiveLock, sems, ring
  <2>4. ResetProgress'
    BY <1>1, <1>5, <2>1, AtMostOneInside
    DEF PopLock, ResetProgress, At, Goto, TypeOK, LockedPoints, ring
  <2> QED
    BY <2>2, <2>3, <2>4
<1>6. ASSUME PopCopy(c)
      PROVE  CountingInv'
  <2>1. Goto(c, "pop_copy", "pop_advance")
    BY <1>6 DEF PopCopy
  <2>2. TypeOK' /\ RingMatchesSize'
    BY <1>1, <1>6, <2>1, QueueAssumption
    DEF PopCopy, Goto, TypeOK, RingMatchesSize, PCs, Push, Pop, ResetCall, Query, Nodes,
        Finish, TakeLock, GiveLock, sems, ring
  <2>3. LockIsExclusive' /\ TokensConserved' /\ SizeMatchesTokens'
    BY <1>1, <1>6, <2>1, CountMoves, CountType
    DEF PopCopy, LockIsExclusive, TokensConserved, SizeMatchesTokens, LockedPoints,
        HoldingSpace, HoldingData, NotYetPosted, NotYetPopped, Push, Pop,
        TypeOK, Finish, TakeLock, GiveLock, sems, ring
  <2>4. ResetProgress'
    BY <1>1, <1>6, <2>1, AtMostOneInside
    DEF PopCopy, ResetProgress, At, Goto, TypeOK, LockedPoints, ring
  <2> QED
    BY <2>2, <2>3, <2>4
<1>7. ASSUME PopAdvance(c)
      PROVE  CountingInv'
  <2>1. Goto(c, "pop_advance", "pop_unlock")
    BY <1>7 DEF PopAdvance
  <2>2. queue_size > 0
    BY <1>1, <2>1, ItemToPop, CountType DEF Goto
  <2>3. tail' = IF tail = Capacity THEN 0 ELSE tail + 1
    BY <1>7, AdvanceWraps DEF PopAdvance, TypeOK
  <2>4. TypeOK'
    BY <1>1, <1>7, <2>1, <2>2, <2>3, QueueAssumption
    DEF PopAdvance, Goto, TypeOK, PCs, Push, Pop, Nodes, sems
  <2>5. RingMatchesSize'
    BY <1>7, <2>2, <2>3, QueueAssumption
    DEF PopAdvance, TypeOK, RingMatchesSize, Nodes
  <2>6. LockIsExclusive' /\ TokensConserved' /\ SizeMatchesTokens'
    BY <1>1, <1>7, <2>1, CountMoves, CountType
    DEF PopAdvance, LockIsExclusive, TokensConserved, SizeMatchesTokens, LockedPoints,
        HoldingSpace, HoldingData, NotYetPosted, NotYetPopped, Push, Pop,
        TypeOK, Finish, TakeLock, GiveLock, sems, ring
  <2>7. ResetProgress'
    BY <1>1, <1>7, <2>1, AtMostOneInside
    DEF PopAdvance, ResetProgress, At, Goto, TypeOK, LockedPoints, ring
  <2> QED
    BY <2>4, <2>5, <2>6, <2>7
<1>8. ASSUME PopUnlock(c)
      PROVE  CountingInv'
  <2>1. Goto(c, "pop_unlock", "notify_space")
    BY <1>8 DEF PopUnlock
  <2>2. lock = 0
    BY <1>1, <2>1, AtMostOneInside DEF Goto, LockedPoints
  <2>3. TypeOK' /\ RingMatchesSize'
    BY <1>1, <1>8, <2>1, QueueAssumption
    DEF PopUnlock, Goto, TypeOK, RingMatchesSize, PCs, Push, Pop, ResetCall, Query, Nodes,
        Finish, TakeLock, GiveLock, sems, ring
  <2>4. LockIsExclusive' /\ TokensConserved' /\ SizeMatchesTokens'
    BY <1>1, <1>8, <2>1, <2>2, CountMoves, CountType
    DEF PopUnlock, LockIsExclusive, TokensConserved, SizeMatchesTokens, LockedPoints,
        HoldingSpace, HoldingData, NotYetPosted, NotYetPopped, Push, Pop,
        TypeOK, Finish, TakeLock, GiveLock, sems, ring
  <2>5. ResetProgress'
    BY <1>1, <1>8, <2>1, AtMostOneInside
    DEF PopUnlock, ResetProgress, At, Goto, TypeOK, LockedPoints, ring
  <2> QED
    BY <2>3, <2>4, <2>5
<1>9. ASSUME NotifySpaceAvailable(c)
      PROVE  CountingInv'
  <2>1. Goto(c, "notify_space", "idle")
    BY <1>9 DEF NotifySpaceAvailable
  <2>2. TypeOK' /\ RingMatchesSize'
    BY <1>1, <1>9, <2>1, QueueAssumption
    DEF NotifySpaceAvailable, Goto, TypeOK, RingMatchesSize, PCs, Push, Pop, ResetCall, Query, Nodes,
        Finish, TakeLock, GiveLock, sems, ring
  <2>3. LockIsExclusive' /\ TokensConserved' /\ SizeMatchesTokens'
    BY <1>1, <1>9, <2>1, CountMoves, CountType
    DEF NotifySpaceAvailable, LockIsExclusive, TokensConserved, SizeMatchesTokens, LockedPoints,
        HoldingSpace, HoldingData, NotYetPosted, NotYetPopped, Push, Pop,
        TypeOK, Finish, TakeLock, GiveLock, sems, ring
  <2>4. ResetProgress'
    BY <1>1, <1>9, <2>1, AtMostOneInside
    DEF NotifySpaceAvailable, ResetProgress, At, Goto, TypeOK, LockedPoints, ring
  <2> QED
    BY <2>2, <2>3, <2>4
<1> QED
  BY <1>2, <1>3, <1>4, <1>5, <1>6, <1>7, <1>8, <1>9 DEF ReceiveStep

LEMMA ResetPreserves ==
  ASSUME CountingInv, NEW c \in Resetters, ResetStep(c)
  PROVE  CountingInv'
<1> USE DEF CountingInv
<1>1. c \in Clients
  BY DEF Clients
<1>2. ASSUME CallReset(c)
      PROVE  CountingInv'
  <2>1. Goto(c, "idle", "reset_lock")
    BY <1>2 DEF CallReset
  <2>2. TypeOK' /\ RingMatchesSize'
    BY <1>1, <1>2, <2>1, QueueAssumption
    DEF CallReset, Goto, TypeOK, RingMatchesSize, PCs, Push, Pop, ResetCall, Query, Nodes,
        Finish, TakeLock, GiveLock, sems, ring
  <2>3. LockIsExclusive' /\ TokensConserved' /\ SizeMatchesTokens'
    BY <1>1, <1>2, <2>1, CountMoves, CountType
    DEF CallReset, LockIsExclusive, TokensConserved, SizeMatchesTokens, LockedPoints,
        HoldingSpace, HoldingData, NotYetPosted, NotYetPopped, Push, Pop,
        TypeOK, Finish, TakeLock, GiveLock, sems, ring
  <2>4. ResetProgress'
    BY <1>1, <1>2, <2>1, AtMostOneInside
    DEF CallReset, ResetProgress, At, Goto, TypeOK, LockedPoints, ring
  <2> QED
    BY <2>2, <2>3, <2>4
<1>3. ASSUME ResetLock(c)
      PROVE  CountingInv'
  <2>1. Goto(c, "reset_lock", IF queue_size = 0 THEN "reset_clear" ELSE "reset_wait")
    BY <1>3 DEF ResetLock
  <2>2. At(LockedPoints) = {} /\ reset_i = 0
    BY <1>3, AtMostOneInside DEF ResetLock, TakeLock, At, LockedPoints, ResetProgress
  <2>3. TypeOK' /\ RingMatchesSize'
    BY <1>1, <1>3, <2>1, QueueAssumption
    DEF ResetLock, Goto, TypeOK, RingMatchesSize, PCs, Push, Pop, ResetCall, Query, Nodes,
        Finish, TakeLock, GiveLock, sems, ring
  <2>4. LockIsExclusive' /\ TokensConserved' /\ SizeMatchesTokens'
    BY <1>1, <1>3, <2>1, <2>2, CountMoves, CountType
    DEF ResetLock, LockIsExclusive, TokensConserved, SizeMatchesTokens, LockedPoints,
        HoldingSpace, HoldingData, NotYetPosted, NotYetPopped, Push, Pop,
        TypeOK, Finish, TakeLock, GiveLock, sems, ring
  <2>5. ResetProgress'
    BY <1>1, <1>3, <2>1, <2>2, AtMostOneInside
    DEF ResetLock, ResetProgress, At, Goto, TypeOK, LockedPoints, ring
  <2> QED
    BY <2>3, <2>4, <2>5
<1>4. ASSUME ResetWait(c)
      PROVE  CountingInv'
  <2>1. Goto(c, "reset_wait", "reset_post")
    BY <1>4 DEF ResetWait
  <2>2. TypeOK' /\ RingMatchesSize'
    BY <1>1, <1>4, <2>1, QueueAssumption
    DEF ResetWait, Goto, TypeOK, RingMatchesSize, PCs, Push, Pop, ResetCall, Query, Nodes,
        Finish, TakeLock, GiveLock, sems, ring
  <2>3. LockIsExclusive' /\ TokensConserved' /\ SizeMatchesTokens'
    BY <1>1, <1>4, <2>1, CountMoves, CountType
    DEF ResetWait, LockIsExclusive, TokensConserved, SizeMatchesTokens, LockedPoints,
        HoldingSpace, HoldingData, NotYetPosted, NotYetPopped, Push, Pop,
        TypeOK, Finish, TakeLock, GiveLock, sems, ring
  <2>4. ResetProgress'
    BY <1>1, <1>4, <2>1, AtMostOneInside
    DEF ResetWait, ResetProgress, At, Goto, TypeOK, LockedPoints, ring
  <2> QED
    BY <2>2, <2>3, <2>4
<1>5. ASSUME ResetPost(c)
      PROVE  CountingInv'
  <2>1. Goto(c, "reset_post", IF reset_i + 1 < queue_size THEN "reset_wait" ELSE "reset_clear")
    BY <1>5 DEF ResetPost
  <2>2. reset_i < queue_size
    BY <1>1, <2>1 DEF Goto, ResetProgress, At
  <2>3. TypeOK' /\ RingMatchesSize'
    BY <1>1, <1>5, <2>1, QueueAssumption
    DEF ResetPost, Goto, TypeOK, RingMatchesSize, PCs, Push, Pop, ResetCall, Query, Nodes,
        Finish, TakeLock, GiveLock, sems, ring
  <2>4. LockIsExclusive' /\ TokensConserved' /\ SizeMatchesTokens'
    BY <1>1, <1>5, <2>1, CountMoves, CountType
    DEF ResetPost, LockIsExclusive, TokensConserved, SizeMatchesTokens, LockedPoints,
        HoldingSpace, HoldingData, NotYetPosted, NotYetPopped, Push, Pop,
        TypeOK, Finish, TakeLock, GiveLock, sems, ring
  <2>5. ResetProgress'
    BY <1>1, <1>5, <2>1, <2>2, AtMostOneInside
    DEF ResetPost, ResetProgress, At, Goto, TypeOK, LockedPoints, ring
  <2> QED
    BY <2>3, <2>4, <2>5
<1>6. ASSUME ResetClear(c)
      PROVE  CountingInv'
  <2>1. Goto(c, "reset_clear", "reset_unlock")
    BY <1>6 DEF ResetClear
  <2>2. reset_i = queue_size
    BY <1>1, <2>1 DEF Goto, ResetProgress, At
  <2>3. TypeOK' /\ RingMatchesSize'
    BY <1>1, <1>6, <2>1, QueueAssumption
    DEF ResetClear, Goto, TypeOK, RingMatchesSize, PCs, Push, Pop, ResetCall, Query, Nodes,
        Finish, TakeLock, GiveLock, sems, ring
  <2>4. LockIsExclusive' /\ TokensConserved' /\ SizeMatchesTokens'
    BY <1>1, <1>6, <2>1, <2>2, CountMoves, CountType
    DEF ResetClear, LockIsExclusive, TokensConserved, SizeMatchesTokens, LockedPoints,
        HoldingSpace, HoldingData, NotYetPosted, NotYetPopped, Push, Pop,
        TypeOK, Finish, TakeLock, GiveLock, sems, ring
  <2>5. ResetProgress'
    BY <1>1, <1>6, <2>1, AtMostOneInside
    DEF ResetClear, ResetProgress, At, Goto, TypeOK, LockedPoints, ring
  <2> QED
    BY <2>3, <2>4, <2>5
<1>7. ASSUME ResetUnlock(c)
      PROVE  CountingInv'
  <2>1. Goto(c, "reset_unlock", "idle")
    BY <1>7 DEF ResetUnlock
  <2>2. lock = 0
    BY <1>1, <2>1, AtMostOneInside DEF Goto, LockedPoints
  <2>3. TypeOK' /\ RingMatchesSize'
    BY <1>1, <1>7, <2>1, QueueAssumption
    DEF ResetUnlock, Goto, TypeOK, RingMatchesSize, PCs, Push, Pop, ResetCall, Query, Nodes,
        Finish, TakeLock, GiveLock, sems, ring
  <2>4. LockIsExclusive' /\ TokensConserved' /\ SizeMatchesTokens'
    BY <1>1, <1>7, <2>1, <2>2, CountMoves, CountType
    DEF ResetUnlock, LockIsExclusive, TokensConserved, SizeMatchesTokens, LockedPoints,
        HoldingSpace, HoldingData, NotYetPosted, NotYetPopped, Push, Pop,
        TypeOK, Finish, TakeLock, GiveLock, sems, ring
  <2>5. ResetProgress'
    BY <1>1, <1>7, <2>1, AtMostOneInside
    DEF ResetUnlock, ResetProgress, At, Goto, TypeOK, LockedPoints, ring
  <2> QED
    BY <2>3, <2>4, <2>5
<1> QED
  BY <1>2, <1>3, <1>4, <1>5, <1>6, <1>7 DEF ResetStep

LEMMA QueryPreserves ==
  ASSUME CountingInv, NEW c \in Observers, QueryStep(c)
  PROVE  CountingInv'
<1> USE DEF CountingInv
<1>1. c \in Clients
  BY DEF Clients
<1>2. ASSUME CallQuery(c)
      PROVE  CountingInv'
  <2>1. Goto(c, "idle", "query_lock")
    BY <1>2 DEF CallQuery
  <2>2. TypeOK' /\ RingMatchesSize'
    BY <1>1, <1>2, <2>1, QueueAssumption
    DEF CallQuery, Goto, TypeOK, RingMatchesSize, PCs, Push, Pop, ResetCall, Query, Nodes,
        Finish, TakeLock, GiveLock, sems, ring
  <2>3. LockIsExclusive' /\ TokensConserved' /\ SizeMatchesTokens'
    BY <1>1, <1>2, <2>1, CountMoves, CountType
    DEF CallQuery, LockIsExclusive, TokensConserved, SizeMatchesTokens, LockedPoints,
        HoldingSpace, HoldingData, NotYetPosted, NotYetPopped, Push, Pop,
        TypeOK, Finish, TakeLock, GiveLock, sems, ring
  <2>4. ResetProgress'
    BY <1>1, <1>2, <2>1, AtMostOneInside
    DEF CallQuery, ResetProgress, At, Goto, TypeOK, LockedPoints, ring
  <2> QED
    BY <2>2, <2>3, <2>4
<1>3. ASSUME QueryLock(c)
      PROVE  CountingInv'
  <2>1. Goto(c, "query_lock", "query_read")
    BY <1>3 DEF QueryLock
  <2>2. TypeOK' /\ RingMatchesSize'
    BY <1>1, <1>3, <2>1, QueueAssumption
    DEF QueryLock, Goto, TypeOK, RingMatchesSize, PCs, Push, Pop, ResetCall, Query, Nodes,
        Finish, TakeLock, GiveLock, sems, ring
  <2>3. LockIsExclusive' /\ TokensConserved' /\ SizeMatchesTokens'
    BY <1>1, <1>3, <2>1, CountMoves, CountType
    DEF QueryLock, LockIsExclusive, TokensConserved, SizeMatchesTokens, LockedPoints,
        HoldingSpace, HoldingData, NotYetPosted, NotYetPopped, Push, Pop,
        TypeOK, Finish, TakeLock, GiveLock, sems, ring
  <2>4. ResetProgress'
    BY <1>1, <1>3, <2>1, AtMostOneInside
    DEF QueryLock, ResetProgress, At, Goto, TypeOK, LockedPoints, ring
  <2> QED
    BY <2>2, <2>3, <2>4
<1>4. ASSUME QueryUnlock(c)
      PROVE  CountingInv'
  <2>1. Goto(c, "query_read", "idle")
    BY <1>4 DEF QueryUnlock
  <2>2. lock = 0
    BY <1>1, <2>1, AtMostOneInside DEF Goto, LockedPoints
  <2>3. TypeOK' /\ RingMatchesSize'
    BY <1>1, <1>4, <2>1, QueueAssumption
    DEF QueryUnlock, Goto, TypeOK, RingMatchesSize, PCs, Push, Pop, ResetCall, Query, Nodes,
        Finish, TakeLock, GiveLock, sems, ring
  <2>4. LockIsExclusive' /\ TokensConserved' /\ SizeMatchesTokens'
    BY <1>1, <1>4, <2>1, <2>2, CountMoves, CountType
    DEF QueryUnlock, LockIsExclusive, TokensConserved, SizeMatchesTokens, LockedPoints,
        HoldingSpace, HoldingData, NotYetPosted, NotYetPopped, Push, Pop,
        TypeOK, Finish, TakeLock, GiveLock, sems, ring
  <2>5. ResetProgress'
    BY <1>1, <1>4, <2>1, AtMostOneInside
    DEF QueryUnlock, ResetProgress, At, Goto, TypeOK, LockedPoints, ring
  <2> QED
    BY <2>3, <2>4, <2>5
<1> QED
  BY <1>2, <1>3, <1>4 DEF QueryStep

LEMMA CountingInvInit == Init => CountingInv
<1> SUFFICES ASSUME Init PROVE CountingInv
  OBVIOUS
<1>1. ASSUME NEW S, "idle" \notin S PROVE At(S) = {} /\ Count(S) = 0
  BY <1>1, CountIsTally, TallyNone, QueueAssumption DEF Init, At
<1>2. TypeOK
  BY QueueAssumption DEF Init, TypeOK, PCs, Nodes
<1>3. LockIsExclusive /\ TokensConserved /\ SizeMatchesTokens
  BY <1>1, QueueAssumption
  DEF Init, LockIsExclusive, TokensConserved, SizeMatchesTokens, LockedPoints,
      HoldingSpace, HoldingData, NotYetPosted, NotYetPopped, Push, Pop
<1> QED
  BY <1>1, <1>2, <1>3, QueueAssumption
  DEF Init, CountingInv, RingMatchesSize, ResetProgress, Nodes

LEMMA CountingInvStep == CountingInv /\ [Next]_vars => CountingInv'
<1> SUFFICES ASSUME CountingInv, [Next]_vars PROVE CountingInv'
  OBVIOUS
<1>1. CASE Next
  BY <1>1, SendPreserves, ReceivePreserves, ResetPreserves, QueryPreserves DEF Next
<1>2. CASE UNCHANGED vars
  <2>1. \A S : Count(S)' = Count(S) /\ At(S)' = At(S)
    BY <1>2 DEF vars, Count, At
  <2> QED
    BY <1>2, <2>1
    DEF vars, sems, ring, CountingInv, TypeOK, LockIsExclusive, TokensConserved,
        SizeMatchesTokens, RingMatchesSize, ResetProgress
<1> QED
  BY <1>1, <1>2

\* The inductive invariant: see CountingInv in Queue.
THEOREM QueueCounting == Spec => []CountingInv
BY CountingInvInit, CountingInvStep, PTL DEF Spec

\* The ring is never inside two calls at once, for any number of clients.
THEOREM QueueLockIsExclusive == Spec => []LockIsExclusive
<1>1. CountingInv => LockIsExclusive
  BY DEF CountingInv
<1> QED
  BY <1>1, QueueCounting, PTL

\* No slot is lost or made up, for any capacity and any number of clients.
THEOREM QueueTokensConserved == Spec => []TokensConserved
<1>1. CountingInv => TokensConserved
  BY DEF CountingInv
<1> QED
  BY <1>1, QueueCounting, PTL

LEMMA NodeAtValue ==
  ASSUME TypeOK, NEW k \in Nodes
  PROVE  NodeAt(k) = IF tail + k <= Capacity THEN tail + k ELSE tail + k - (Capacity + 1)
BY QueueAssumption, SMT DEF NodeAt, Nodes, TypeOK

LEMMA HeadIsFree ==
  ASSUME CountingInv, queue_size < Capacity, NEW k \in Nodes, k < queue_size
  PROVE  head # NodeAt(k)
BY NodeAtValue, QueueAssumption DEF CountingInv, TypeOK, RingMatchesSize, Nodes

\* A push never writes over an item that has not been received, and a pop never
\* reads a slot that holds none.
THEOREM QueueNoUnreadItemLost == Spec => []NoUnreadItemLost
<1>1. CountingInv => NoUnreadItemLost
  BY RoomToPush, ItemToPop, HeadIsFree DEF NoUnreadItemLost, At
<1> QED
  BY <1>1, QueueCounting, PTL

(***************************************************************************)
(* The ring with its three semaphores implements BoundedFifo.              *)
(***************************************************************************)

LEMMA QueuedSeq ==
  ASSUME CountingInv, ContentsInv
  PROVE  /\ Queued \in Seq(Items)
         /\ Len(Queued) = queue_size
         /\ DOMAIN Queued = 1 .. queue_size
         /\ \A k \in 1 .. queue_size : Queued[k] = node_list[NodeAt(k - 1)]
BY DEF Queued, ContentsInv, CountingInv, TypeOK

\* Steps that leave the ring alone leave what is queued alone.
LEMMA QueuedUnchanged ==
  ASSUME TypeOK, UNCHANGED <<tail, queue_size>>,
         \A k \in 1 .. queue_size : node_list'[NodeAt(k - 1)] = node_list[NodeAt(k - 1)]
  PROVE  Queued' = Queued
<1>1. \A k \in 1 .. queue_size : NodeAt(k - 1)' = NodeAt(k - 1)
  BY DEF NodeAt
<1> QED
  BY <1>1 DEF Queued

\* The head that is written is not a queued slot.
LEMMA CopyKeepsQueued ==
  ASSUME CountingInv, NEW c \in Clients, PushCopy(c)
  PROVE  Queued' = Queued
<1>1. queue_size < Capacity /\ queue_size \in Nat /\ Capacity \in Nat
  BY RoomToPush, QueueAssumption DEF PushCopy, Goto, CountingInv, TypeOK
<1>2. \A k \in 1 .. queue_size : NodeAt(k - 1) # head
  BY <1>1, HeadIsFree DEF Nodes
<1>3. \A k \in 1 .. queue_size : node_list'[NodeAt(k - 1)] = node_list[NodeAt(k - 1)]
  <2> SUFFICES ASSUME NEW k \in 1 .. queue_size
               PROVE  node_list'[NodeAt(k - 1)] = node_list[NodeAt(k - 1)]
    OBVIOUS
  <2>1. k - 1 \in Nodes
    BY <1>1 DEF Nodes
  <2>2. NodeAt(k - 1) \in Nodes
    BY <2>1, NodeAtValue, QueueAssumption DEF CountingInv, TypeOK, Nodes
  <2> QED
    BY <1>2, <2>2 DEF PushCopy, CountingInv, TypeOK
<1> QED
  BY <1>3, QueuedUnchanged DEF PushCopy, CountingInv

LEMMA AdvanceAppends ==
  ASSUME CountingInv, ContentsInv, NEW c \in Clients, PushAdvance(c)
  PROVE  Queued' = Append(Queued, data[c]) /\ data[c] \in Items
<1>1. /\ queue_size < Capacity /\ queue_size \in Nat
      /\ queue_size' = queue_size + 1 /\ UNCHANGED <<tail, node_list>>
  BY RoomToPush DEF PushAdvance, Goto, CountingInv, TypeOK
<1>2. NodeAt(queue_size) = head
  <2>1. queue_size \in Nodes
    BY <1>1, QueueAssumption DEF Nodes
  <2>2. NodeAt(queue_size) = IF tail + queue_size <= Capacity
                             THEN tail + queue_size
                             ELSE tail + queue_size - (Capacity + 1)
    BY <2>1, NodeAtValue DEF CountingInv
  <2> QED
    BY <1>1, <2>2, QueueAssumption DEF CountingInv, TypeOK, RingMatchesSize, Nodes
<1>3. node_list[head] = data[c] /\ data[c] \in Items
  BY DEF ContentsInv, PushAdvance, Goto, SendPoints
<1>4. \A k \in 1 .. queue_size + 1 : NodeAt(k - 1)' = NodeAt(k - 1)
  BY <1>1 DEF NodeAt
<1>5. Queued' = [k \in 1 .. queue_size + 1 |-> node_list[NodeAt(k - 1)]]
  BY <1>1, <1>4 DEF Queued
<1>6. Append(Queued, data[c])
        = [k \in 1 .. queue_size + 1 |-> IF k = queue_size + 1 THEN data[c] ELSE Queued[k]]
  BY <1>1, QueuedSeq DEF CountingInv
<1>7. \A k \in 1 .. queue_size + 1 :
        node_list[NodeAt(k - 1)] = IF k = queue_size + 1 THEN data[c] ELSE Queued[k]
  BY <1>1, <1>2, <1>3, QueuedSeq DEF CountingInv
<1> QED
  BY <1>3, <1>5, <1>6, <1>7

LEMMA AdvanceTakesHead ==
  ASSUME CountingInv, ContentsInv, NEW c \in Clients, PopAdvance(c)
  PROVE  /\ Queued # << >> /\ data[c] = Head(Queued) /\ data[c] \in Items
         /\ Queued' = Tail(Queued)
<1>1. /\ queue_size > 0 /\ queue_size \in Nat /\ queue_size <= Capacity
      /\ queue_size' = queue_size - 1 /\ tail' = Advance(tail) /\ UNCHANGED node_list
  BY ItemToPop, CountType DEF PopAdvance, Goto, CountingInv, TypeOK, RingMatchesSize
<1>2. NodeAt(0) = tail
  BY NodeAtValue, QueueAssumption DEF CountingInv, TypeOK, Nodes
<1>3. data[c] = Queued[1] /\ data[c] \in Items
  BY <1>1, <1>2, QueuedSeq DEF ContentsInv, CountingInv, PopAdvance, Goto
<1>4. \A k \in 1 .. queue_size - 1 : NodeAt(k - 1)' = NodeAt(k)
  <2> SUFFICES ASSUME NEW k \in 1 .. queue_size - 1 PROVE NodeAt(k - 1)' = NodeAt(k)
    OBVIOUS
  <2>1. tail' = IF tail = Capacity THEN 0 ELSE tail + 1
    BY <1>1, AdvanceWraps DEF CountingInv, TypeOK
  <2>2. NodeAt(k - 1)' = (tail' + (k - 1)) % (Capacity + 1)
    BY DEF NodeAt
  <2>3. NodeAt(k) = IF tail + k <= Capacity THEN tail + k ELSE tail + k - (Capacity + 1)
    <3>1. k \in Nodes
      BY <1>1, QueueAssumption DEF Nodes
    <3> QED
      BY <3>1, NodeAtValue DEF CountingInv
  <2> QED
    BY <1>1, <2>1, <2>2, <2>3, QueueAssumption, SMT DEF CountingInv, TypeOK, Nodes
<1>5. Queued' = [k \in 1 .. queue_size - 1 |-> Queued[k + 1]]
  BY <1>1, <1>4, QueuedSeq DEF Queued, CountingInv
<1>6. Queued \in Seq(Items) /\ Len(Queued) = queue_size
  BY QueuedSeq DEF CountingInv
<1>7. Queued # << >> /\ Head(Queued) = Queued[1]
  BY <1>1, <1>6
<1>8. Tail(Queued) = [k \in 1 .. queue_size - 1 |-> Queued[k + 1]]
  <2>1. /\ Tail(Queued) \in Seq(Items) /\ Len(Tail(Queued)) = queue_size - 1
        /\ \A k \in 1 .. queue_size - 1 : Tail(Queued)[k] = Queued[k + 1]
    BY <1>6, <1>7, HeadTailProperties
  <2>2. /\ [k \in 1 .. queue_size - 1 |-> Queued[k + 1]] \in Seq(Items)
        /\ Len([k \in 1 .. queue_size - 1 |-> Queued[k + 1]]) = queue_size - 1
    BY <1>1, <1>6
  <2> QED
    BY <2>1, <2>2, SeqEqual
<1> QED
  BY <1>3, <1>5, <1>7, <1>8

LEMMA MappingMoves ==
  ASSUME CountingInv, NEW c \in Clients, NEW from, NEW to, Goto(c, from, to),
         \A d \in Clients \ {c} : data'[d] = data[d]
  PROVE  /\ Sending' = [Sending EXCEPT ![c] = IF to \in SendPoints THEN data'[c] ELSE None]
         /\ Received' = [Received EXCEPT ![c] = IF to \in TakenPoints THEN data'[c] ELSE None]
BY DEF Goto, Sending, Received, CountingInv, TypeOK

\* A step that moves a client without passing an item leaves the FIFO alone.
LEMMA SilentMove ==
  ASSUME CountingInv, NEW c \in Clients, NEW from, NEW to, Goto(c, from, to),
         UNCHANGED data, Queued' = Queued,
         from \in SendPoints <=> to \in SendPoints,
         from \in TakenPoints <=> to \in TakenPoints
  PROVE  UNCHANGED <<Queued, Sending, Received>>
BY MappingMoves DEF Goto, Sending, Received

LEMMA SendImplements ==
  ASSUME CountingInv, ContentsInv, NEW c \in Senders, SendStep(c)
  PROVE  [Fifo!Next]_<<Queued, Sending, Received>>
<1>1. c \in Clients /\ pc[c] \in PCs /\ CountingInv
  BY DEF Clients, CountingInv, TypeOK
<1>2. ASSUME NEW v \in Items, NEW forever \in BOOLEAN, CallSend(c, v, forever)
      PROVE  Fifo!Call(c, v)
  <2>1. Queued' = Queued
    BY <1>2 DEF CallSend, ring, Queued, NodeAt
  <2>2. /\ Sending' = [Sending EXCEPT ![c] = v]
        /\ Received' = [Received EXCEPT ![c] = None]
        /\ Sending[c] = None /\ Received[c] = None
    BY <1>1, <1>2, MappingMoves
    DEF CallSend, CountingInv, TypeOK, SendPoints, TakenPoints, Sending, Received, Goto
  <2> QED
    BY <2>1, <2>2 DEF Fifo!Call, Received
<1>3. ASSUME WaitForSpace(c)
      PROVE  UNCHANGED <<Queued, Sending, Received>>
  BY <1>1, <1>3, SilentMove
  DEF WaitForSpace, ring, Queued, NodeAt, SendPoints, TakenPoints
<1>4. ASSUME SpaceTimeout(c)
      PROVE  Fifo!GiveUp(c)
  <2>1. Queued' = Queued
    BY <1>4 DEF SpaceTimeout, ring, Queued, NodeAt
  <2>2. /\ Sending' = [Sending EXCEPT ![c] = None]
        /\ Received' = [Received EXCEPT ![c] = None]
    BY <1>1, <1>4, MappingMoves
    DEF SpaceTimeout, CountingInv, TypeOK, Finish, SendPoints, TakenPoints
  <2>3. Sending[c] # None /\ Received[c] = None
    BY <1>1, <1>4, QueueAssumption
    DEF SpaceTimeout, Goto, ContentsInv, SendPoints, TakenPoints, Sending, Received
  <2> QED
    BY <2>1, <2>2, <2>3 DEF Fifo!GiveUp, Received
<1>5. ASSUME PushLock(c)
      PROVE  UNCHANGED <<Queued, Sending, Received>>
  BY <1>1, <1>5, SilentMove
  DEF PushLock, ring, Queued, NodeAt, SendPoints, TakenPoints
<1>6. ASSUME PushCopy(c)
      PROVE  UNCHANGED <<Queued, Sending, Received>>
  BY <1>1, <1>6, SilentMove, CopyKeepsQueued DEF PushCopy, SendPoints, TakenPoints
<1>7. ASSUME PushAdvance(c)
      PROVE  Fifo!Enqueue(c)
  <2>1. Goto(c, "push_advance", "push_unlock") /\ UNCHANGED data
    BY <1>7 DEF PushAdvance
  <2>2. /\ Sending' = [Sending EXCEPT ![c] = None]
        /\ Received' = [Received EXCEPT ![c] = None]
    BY <1>1, <2>1, MappingMoves DEF SendPoints, TakenPoints
  <2>3. Sending[c] = data[c] /\ Received[c] = None
    BY <1>1, <1>7 DEF PushAdvance, Goto, SendPoints, TakenPoints, Sending, Received
  <2>4. Len(Queued) < Capacity
    BY <1>1, <1>7, QueuedSeq, RoomToPush DEF PushAdvance, Goto
  <2>5. Queued' = Append(Queued, data[c]) /\ data[c] # None
    BY <1>1, <1>7, AdvanceAppends, QueueAssumption
  <2> QED
    BY <2>2, <2>3, <2>4, <2>5 DEF Fifo!Enqueue, Received
<1>8. ASSUME PushUnlock(c)
      PROVE  UNCHANGED <<Queued, Sending, Received>>
  BY <1>1, <1>8, SilentMove
  DEF PushUnlock, ring, Queued, NodeAt, SendPoints, TakenPoints
<1>9. ASSUME NotifyDataAvailable(c)
      PROVE  UNCHANGED <<Queued, Sending, Received>>
  <2>1. Queued' = Queued
    BY <1>9 DEF NotifyDataAvailable, ring, Queued, NodeAt
  <2>2. /\ Sending' = [Sending EXCEPT ![c] = None]
        /\ Received' = [Received EXCEPT ![c] = None]
        /\ Sending[c] = None /\ Received[c] = None
    BY <1>1, <1>9, MappingMoves
    DEF NotifyDataAvailable, CountingInv, TypeOK, Finish, SendPoints, TakenPoints, Sending, Received, Goto
  <2> QED
    BY <2>1, <2>2 DEF Sending, Received
<1> QED
  BY <1>1, <1>2, <1>3, <1>4, <1>5, <1>6, <1>7, <1>8, <1>9 DEF SendStep, Fifo!Next

LEMMA ReceiveImplements ==
  ASSUME CountingInv, ContentsInv, NEW c \in Receivers, ReceiveStep(c)
  PROVE  [Fifo!Next]_<<Queued, Sending, Received>>
<1>1. c \in Clients /\ pc[c] \in PCs /\ CountingInv
  BY DEF Clients, CountingInv, TypeOK
<1>2. ASSUME NEW forever \in BOOLEAN, CallReceive(c, forever)
      PROVE  UNCHANGED <<Queued, Sending, Received>>
  BY <1>1, <1>2, SilentMove
  DEF CallReceive, ring, Queued, NodeAt, SendPoints, TakenPoints
<1>3. ASSUME WaitForData(c)
      PROVE  UNCHANGED <<Queued, Sending, Received>>
  BY <1>1, <1>3, SilentMove
  DEF WaitForData, ring, Queued, NodeAt, SendPoints, TakenPoints
<1>4. ASSUME PopLock(c)
      PROVE  UNCHANGED <<Queued, Sending, Received>>
  BY <1>1, <1>4, SilentMove
  DEF PopLock, ring, Queued, NodeAt, SendPoints, TakenPoints
<1>5. ASSUME PopUnlock(c)
      PROVE  UNCHANGED <<Queued, Sending, Received>>
  BY <1>1, <1>5, SilentMove
  DEF PopUnlock, ring, Queued, NodeAt, SendPoints, TakenPoints
<1>6. ASSUME DataTimeout(c)
      PROVE  UNCHANGED <<Queued, Sending, Received>>
  <2>1. Queued' = Queued
    BY <1>6 DEF DataTimeout, ring, Queued, NodeAt
  <2>2. /\ Sending' = [Sending EXCEPT ![c] = None]
        /\ Received' = [Received EXCEPT ![c] = None]
        /\ Sending[c] = None /\ Received[c] = None
    BY <1>1, <1>6, MappingMoves
    DEF DataTimeout, CountingInv, TypeOK, Finish, SendPoints, TakenPoints, Sending, Received, Goto
  <2> QED
    BY <2>1, <2>2 DEF Sending, Received
<1>7. ASSUME PopCopy(c)
      PROVE  UNCHANGED <<Queued, Sending, Received>>
  <2>1. Queued' = Queued
    BY <1>7 DEF PopCopy, ring, Queued, NodeAt
  <2>2. /\ Goto(c, "pop_copy", "pop_advance")
        /\ \A d \in Clients \ {c} : data'[d] = data[d]
    BY <1>7 DEF PopCopy, CountingInv, TypeOK
  <2>3. /\ Sending' = [Sending EXCEPT ![c] = None]
        /\ Received' = [Received EXCEPT ![c] = None]
    BY <1>1, <2>2, MappingMoves DEF SendPoints, TakenPoints
  <2>4. Sending[c] = None /\ Received[c] = None
    BY <1>1, <2>2 DEF Goto, SendPoints, TakenPoints, Sending, Received
  <2> QED
    BY <2>1, <2>3, <2>4 DEF Sending, Received
<1>8. ASSUME PopAdvance(c)
      PROVE  Fifo!Dequeue(c)
  <2>1. Goto(c, "pop_advance", "pop_unlock") /\ UNCHANGED data
    BY <1>8 DEF PopAdvance
  <2>2. /\ Sending' = [Sending EXCEPT ![c] = None]
        /\ Received' = [Received EXCEPT ![c] = data[c]]
    BY <1>1, <2>1, MappingMoves DEF SendPoints, TakenPoints
  <2>3. Sending[c] = None /\ Received[c] = None
    BY <1>1, <2>1 DEF Goto, SendPoints, TakenPoints, Sending, Received
  <2>4. Queued # << >> /\ data[c] = Head(Queued) /\ Queued' = Tail(Queued)
    BY <1>1, <1>8, AdvanceTakesHead
  <2> QED
    BY <2>2, <2>3, <2>4 DEF Fifo!Dequeue, Sending
<1>9. ASSUME NotifySpaceAvailable(c)
      PROVE  Fifo!Return(c)
  <2>1. Queued' = Queued
    BY <1>9 DEF NotifySpaceAvailable, ring, Queued, NodeAt
  <2>2. /\ Sending' = [Sending EXCEPT ![c] = None]
        /\ Received' = [Received EXCEPT ![c] = None]
    BY <1>1, <1>9, MappingMoves
    DEF NotifySpaceAvailable, CountingInv, TypeOK, Finish, SendPoints, TakenPoints
  <2>3. Sending[c] = None /\ Received[c] # None
    BY <1>1, <1>9, QueueAssumption
    DEF NotifySpaceAvailable, Goto, ContentsInv, SendPoints, TakenPoints, Sending, Received
  <2> QED
    BY <2>1, <2>2, <2>3 DEF Fifo!Return, Sending
<1> QED
  BY <1>1, <1>2, <1>3, <1>4, <1>5, <1>6, <1>7, <1>8, <1>9 DEF ReceiveStep, Fifo!Next

LEMMA ResetImplements ==
  ASSUME CountingInv, ContentsInv, NEW c \in Resetters, ResetStep(c)
  PROVE  [Fifo!Next]_<<Queued, Sending, Received>>
<1>1. c \in Clients /\ pc[c] \in PCs /\ CountingInv
  BY DEF Clients, CountingInv, TypeOK
<1>2. ASSUME ResetClear(c)
      PROVE  Fifo!Reset
  <2>1. Queued' = << >>
    BY <1>2 DEF ResetClear, Queued
  <2>2. UNCHANGED <<Sending, Received>>
    BY <1>1, <1>2 DEF ResetClear, Goto, Sending, Received, SendPoints, TakenPoints,
       CountingInv, TypeOK
  <2> QED
    BY <2>1, <2>2 DEF Fifo!Reset
<1>3. ASSUME CallReset(c)
      PROVE  UNCHANGED <<Queued, Sending, Received>>
  BY <1>1, <1>3, SilentMove
  DEF CallReset, ring, Queued, NodeAt, SendPoints, TakenPoints
<1>4. ASSUME ResetLock(c)
      PROVE  UNCHANGED <<Queued, Sending, Received>>
  BY <1>1, <1>4, SilentMove
  DEF ResetLock, ring, Queued, NodeAt, SendPoints, TakenPoints
<1>5. ASSUME ResetWait(c)
      PROVE  UNCHANGED <<Queued, Sending, Received>>
  BY <1>1, <1>5, SilentMove
  DEF ResetWait, ring, Queued, NodeAt, SendPoints, TakenPoints
<1>6. ASSUME ResetPost(c)
      PROVE  UNCHANGED <<Queued, Sending, Received>>
  BY <1>1, <1>6, SilentMove
  DEF ResetPost, ring, Queued, NodeAt, SendPoints, TakenPoints
<1>7. ASSUME ResetUnlock(c)
      PROVE  UNCHANGED <<Queued, Sending, Received>>
  BY <1>1, <1>7, SilentMove
  DEF ResetUnlock, ring, Queued, NodeAt, SendPoints, TakenPoints
<1> QED
  BY <1>2, <1>3, <1>4, <1>5, <1>6, <1>7 DEF ResetStep, Fifo!Next

LEMMA QueryImplements ==
  ASSUME CountingInv, ContentsInv, NEW c \in Observers, QueryStep(c)
  PROVE  UNCHANGED <<Queued, Sending, Received>>
<1>1. c \in Clients /\ pc[c] \in PCs /\ CountingInv
  BY DEF Clients, CountingInv, TypeOK
<1>2. ASSUME CallQuery(c)
      PROVE  UNCHANGED <<Queued, Sending, Received>>
  BY <1>1, <1>2, SilentMove
  DEF CallQuery, ring, Queued, NodeAt, SendPoints, TakenPoints
<1>3. ASSUME QueryLock(c)
      PROVE  UNCHANGED <<Queued, Sending, Received>>
  BY <1>1, <1>3, SilentMove
  DEF QueryLock, ring, Queued, NodeAt, SendPoints, TakenPoints
<1>4. ASSUME QueryUnlock(c)
      PROVE  UNCHANGED <<Queued, Sending, Received>>
  BY <1>1, <1>4, SilentMove
  DEF QueryUnlock, ring, Queued, NodeAt, SendPoints, TakenPoints
<1> QED
  BY <1>2, <1>3, <1>4 DEF QueryStep

\* Where the calls in progress stand, by themselves: each conjunct of
\* ContentsInv about a client d other than the one that moves needs that d is
\* not inside the lock while the ring changes.
LEMMA ContentsPreserved ==
  ASSUME CountingInv, ContentsInv, Next
  PROVE  ContentsInv'
<1> USE DEF CountingInv
<1>1. ASSUME NEW c \in Clients, PushCopy(c) PROVE ContentsInv'
  <2>1. Queued' \in Seq(Items)
    BY <1>1, CopyKeepsQueued DEF ContentsInv
  <2>2. ASSUME NEW d \in Clients, d # c PROVE pc[d] \notin LockedPoints
    BY <1>1, <2>2, AtMostOneInside DEF PushCopy, Goto, LockedPoints
  <2> QED
    BY <1>1, <2>1, <2>2
    DEF ContentsInv, PushCopy, Goto, TypeOK, LockedPoints, SendPoints, TakenPoints
<1>2. ASSUME NEW c \in Clients, PushAdvance(c) PROVE ContentsInv'
  <2>1. Queued' \in Seq(Items)
    BY <1>2, AdvanceAppends, AppendProperties DEF ContentsInv
  <2>2. ASSUME NEW d \in Clients, d # c PROVE pc[d] \notin LockedPoints
    BY <1>2, <2>2, AtMostOneInside DEF PushAdvance, Goto, LockedPoints
  <2> QED
    BY <1>2, <2>1, <2>2
    DEF ContentsInv, PushAdvance, Goto, TypeOK, LockedPoints, SendPoints, TakenPoints
<1>3. ASSUME NEW c \in Clients, PopCopy(c) PROVE ContentsInv'
  <2>1. Queued' = Queued
    BY <1>3 DEF PopCopy, ring, Queued, NodeAt
  <2> QED
    BY <1>3, <2>1 DEF ContentsInv, PopCopy, Goto, TypeOK, SendPoints, TakenPoints, ring
<1>4. ASSUME NEW c \in Clients, PopAdvance(c) PROVE ContentsInv'
  <2>1. Queued' \in Seq(Items) /\ data[c] \in Items
    BY <1>4, AdvanceTakesHead, HeadTailProperties DEF ContentsInv
  <2>2. ASSUME NEW d \in Clients, d # c PROVE pc[d] \notin LockedPoints
    BY <1>4, <2>2, AtMostOneInside DEF PopAdvance, Goto, LockedPoints
  <2> QED
    BY <1>4, <2>1, <2>2
    DEF ContentsInv, PopAdvance, Goto, TypeOK, LockedPoints, SendPoints, TakenPoints
<1>5. ASSUME NEW c \in Clients, ResetClear(c) PROVE ContentsInv'
  <2>1. Queued' \in Seq(Items)
    BY <1>5, EmptySeq DEF ResetClear, Queued
  <2>2. ASSUME NEW d \in Clients, d # c PROVE pc[d] \notin LockedPoints
    BY <1>5, <2>2, AtMostOneInside DEF ResetClear, Goto, LockedPoints
  <2> QED
    BY <1>5, <2>1, <2>2
    DEF ContentsInv, ResetClear, Goto, TypeOK, LockedPoints, SendPoints, TakenPoints
<1>6. ASSUME UNCHANGED ring, NEW c \in Clients, NEW from, NEW to, Goto(c, from, to),
             UNCHANGED data,
             to \in SendPoints \cup TakenPoints => from \in SendPoints \cup TakenPoints,
             to \notin {"push_advance", "pop_advance"}
      PROVE  ContentsInv'
  <2>1. Queued' = Queued
    BY <1>6 DEF ring, Queued, NodeAt
  <2> QED
    BY <1>6, <2>1 DEF ContentsInv, Goto, TypeOK, ring
<1>7. ASSUME UNCHANGED ring, NEW c \in Clients, NEW from, NEW to, Goto(c, from, to),
             \A d \in Clients \ {c} : data'[d] = data[d],
             to \in SendPoints \cup TakenPoints => data'[c] \in Items,
             to \notin {"push_advance", "pop_advance"}
      PROVE  ContentsInv'
  <2>1. Queued' = Queued
    BY <1>7 DEF ring, Queued, NodeAt
  <2> QED
    BY <1>7, <2>1 DEF ContentsInv, Goto, TypeOK, ring
<1>8. ASSUME NEW c \in Senders, SendStep(c) PROVE ContentsInv'
  <2>1. c \in Clients
    BY DEF Clients
  <2>2. ASSUME NEW v \in Items, NEW forever \in BOOLEAN, CallSend(c, v, forever)
        PROVE  ContentsInv'
    BY <1>7, <2>1, <2>2 DEF TypeOK, CallSend, SendPoints, TakenPoints
  <2>3. ASSUME WaitForSpace(c) PROVE ContentsInv'
    BY <1>6, <2>1, <2>3 DEF WaitForSpace, SendPoints, TakenPoints
  <2>4. ASSUME SpaceTimeout(c) PROVE ContentsInv'
    BY <1>7, <2>1, <2>4 DEF TypeOK, SpaceTimeout, Finish, SendPoints, TakenPoints
  <2>5. ASSUME PushLock(c) PROVE ContentsInv'
    BY <1>6, <2>1, <2>5 DEF PushLock, SendPoints, TakenPoints
  <2>6. ASSUME PushUnlock(c) PROVE ContentsInv'
    BY <1>6, <2>1, <2>6 DEF PushUnlock, SendPoints, TakenPoints
  <2>7. ASSUME NotifyDataAvailable(c) PROVE ContentsInv'
    BY <1>7, <2>1, <2>7 DEF TypeOK, NotifyDataAvailable, Finish, SendPoints, TakenPoints
  <2> QED
    BY <1>1, <1>2, <1>8, <2>1, <2>2, <2>3, <2>4, <2>5, <2>6, <2>7 DEF SendStep
<1>9. ASSUME NEW c \in Receivers, ReceiveStep(c) PROVE ContentsInv'
  <2>1. c \in Clients
    BY DEF Clients
  <2>2. ASSUME NEW forever \in BOOLEAN, CallReceive(c, forever) PROVE ContentsInv'
    BY <1>6, <2>1, <2>2 DEF CallReceive, SendPoints, TakenPoints
  <2>3. ASSUME WaitForData(c) PROVE ContentsInv'
    BY <1>6, <2>1, <2>3 DEF WaitForData, SendPoints, TakenPoints
  <2>4. ASSUME DataTimeout(c) PROVE ContentsInv'
    BY <1>7, <2>1, <2>4 DEF TypeOK, DataTimeout, Finish, SendPoints, TakenPoints
  <2>5. ASSUME PopLock(c) PROVE ContentsInv'
    BY <1>6, <2>1, <2>5 DEF PopLock, SendPoints, TakenPoints
  <2>6. ASSUME PopUnlock(c) PROVE ContentsInv'
    BY <1>6, <2>1, <2>6 DEF PopUnlock, SendPoints, TakenPoints
  <2>7. ASSUME NotifySpaceAvailable(c) PROVE ContentsInv'
    BY <1>7, <2>1, <2>7 DEF TypeOK, NotifySpaceAvailable, Finish, SendPoints, TakenPoints
  <2> QED
    BY <1>3, <1>4, <1>9, <2>1, <2>2, <2>3, <2>4, <2>5, <2>6, <2>7 DEF ReceiveStep
<1>10. ASSUME NEW c \in Resetters, ResetStep(c) PROVE ContentsInv'
  <2>1. c \in Clients
    BY DEF Clients
  <2>2. ASSUME CallReset(c) PROVE ContentsInv'
    BY <1>6, <2>1, <2>2 DEF CallReset, SendPoints, TakenPoints
  <2>3. ASSUME ResetLock(c) PROVE ContentsInv'
    BY <1>6, <2>1, <2>3 DEF ResetLock, SendPoints, TakenPoints
  <2>4. ASSUME ResetWait(c) PROVE ContentsInv'
    BY <1>6, <2>1, <2>4 DEF ResetWait, SendPoints, TakenPoints
  <2>5. ASSUME ResetPost(c) PROVE ContentsInv'
    BY <1>6, <2>1, <2>5 DEF ResetPost, SendPoints, TakenPoints
  <2>6. ASSUME ResetUnlock(c) PROVE ContentsInv'
    BY <1>6, <2>1, <2>6 DEF ResetUnlock, SendPoints, TakenPoints
  <2> QED
    BY <1>5, <1>10, <2>1, <2>2, <2>3, <2>4, <2>5, <2>6 DEF ResetStep
<1>11. ASSUME NEW c \in Observers, QueryStep(c) PROVE ContentsInv'
  <2>1. c \in Clients
    BY DEF Clients
  <2>2. ASSUME CallQuery(c) PROVE ContentsInv'
    BY <1>6, <2>1, <2>2 DEF CallQuery, SendPoints, TakenPoints
  <2>3. ASSUME QueryLock(c) PROVE ContentsInv'
    BY <1>6, <2>1, <2>3 DEF QueryLock, SendPoints, TakenPoints
  <2>4. ASSUME QueryUnlock(c) PROVE ContentsInv'
    BY <1>6, <2>1, <2>4 DEF QueryUnlock, SendPoints, TakenPoints
  <2> QED
    BY <1>11, <2>2, <2>3, <2>4 DEF QueryStep
<1> QED
  BY <1>8, <1>9, <1>10, <1>11 DEF Next

\* For any capacity, any number of senders, receivers, resets and queries,
\* the queue implements BoundedFifo.
THEOREM QueueImplementsFifo == Spec => ImplementsFifo
<1>1. Init => ContentsInv /\ Fifo!Init
  <2> SUFFICES ASSUME Init PROVE ContentsInv /\ Fifo!Init
    OBVIOUS
  <2>1. Queued = << >>
    BY DEF Init, Queued
  <2>2. Sending = [c \in Clients |-> None] /\ Received = [c \in Clients |-> None]
    BY DEF Init, Sending, Received
  <2> QED
    BY <2>1, <2>2, EmptySeq
    DEF Init, ContentsInv, SendPoints, TakenPoints, Fifo!Init, Fifo!Nobody
<1>2. CountingInv /\ ContentsInv /\ [Next]_vars => ContentsInv'
  <2> SUFFICES ASSUME CountingInv, ContentsInv, UNCHANGED vars PROVE ContentsInv'
    BY ContentsPreserved
  <2> QED
    BY DEF vars, ring, ContentsInv, Queued, NodeAt
<1>3. CountingInv /\ ContentsInv /\ [Next]_vars
        => [Fifo!Next]_<<Queued, Sending, Received>>
  <2> SUFFICES ASSUME CountingInv, ContentsInv, [Next]_vars
               PROVE  [Fifo!Next]_<<Queued, Sending, Received>>
    OBVIOUS
  <2>1. CASE Next
    BY <2>1, SendImplements, ReceiveImplements, ResetImplements, QueryImplements
    DEF Next
  <2>2. CASE UNCHANGED vars
    BY <2>2 DEF vars, ring, Queued, NodeAt, Sending, Received
  <2> QED
    BY <2>1, <2>2
<1> QED
  BY <1>1, <1>2, <1>3, QueueCounting, PTL
  DEF Spec, ImplementsFifo, Fifo!Spec, Fifo!fifoVars
====
