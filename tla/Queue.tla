---- MODULE Queue ----
(***************************************************************************)
(* EtcPal's queue on Linux, macOS and Windows (src/etcpal/queue.c): a      *)
(* ring of size + 1 nodes guarded by three counting semaphores.  `lock`    *)
(* serialises the ring, `spots_available` counts free slots and            *)
(* `spots_filled` queued ones.  Every semaphore operation and every access *)
(* to the ring is a step of its own, so calls interleave as threads do.    *)
(***************************************************************************)
EXTENDS Naturals, Sequences, FiniteSets

CONSTANTS Senders,    \* clients that call the send functions
          Receivers,  \* clients that call the receive functions
          Resetters,  \* clients that call etcpal_queue_reset
          Observers,  \* clients that call is_empty, is_full, slots_used...
          Items,      \* the values sent
          None,       \* no value
          Capacity    \* the queue's size

Clients == Senders \cup Receivers \cup Resetters \cup Observers

ASSUME QueueAssumption ==
  /\ Capacity \in Nat \ {0}
  /\ None \notin Items
  /\ IsFiniteSet(Clients)

VARIABLES lock,             \* semaphore: 1 when free
          spots_available,  \* semaphore
          spots_filled,     \* semaphore
          node_list, head, tail, queue_size,
          reset_i,          \* loop counter of etcpal_queue_reset
          pc,               \* the call each client is in and how far it got
          patient,          \* the client's call waits forever
          data              \* the item a call carries

ring == <<node_list, head, tail, queue_size>>
sems == <<lock, spots_available, spots_filled>>
vars == <<sems, ring, reset_i, pc, patient, data>>

Push  == {"wait_for_space", "push_lock", "push_copy", "push_advance",
          "push_unlock", "notify_data"}
Pop   == {"wait_for_data", "pop_lock", "pop_copy", "pop_advance",
          "pop_unlock", "notify_space"}
ResetCall == {"reset_lock", "reset_wait", "reset_post", "reset_clear",
              "reset_unlock"}
Query == {"query_lock", "query_read"}
PCs   == {"idle"} \cup Push \cup Pop \cup ResetCall \cup Query

\* The clients whose call stands at one of the points S, and their number.
At(S) == {c \in Clients : pc[c] \in S}
Count(S) == Cardinality(At(S))

Nodes == 0 .. Capacity

\* head++ or tail++, then %= (max_queue_size + 1).
Advance(index) == (index + 1) % (Capacity + 1)

Init ==
  /\ lock = 1 /\ spots_available = Capacity /\ spots_filled = 0
  /\ node_list = [n \in Nodes |-> None]
  /\ head = 0 /\ tail = 0 /\ queue_size = 0
  /\ reset_i = 0
  /\ pc = [c \in Clients |-> "idle"]
  /\ patient = [c \in Clients |-> FALSE]
  /\ data = [c \in Clients |-> None]

----
Goto(c, from, to) == pc[c] = from /\ pc' = [pc EXCEPT ![c] = to]

TakeLock == lock = 1 /\ lock' = 0

GiveLock == lock' = 1

\* The client's call returns: what it carried is forgotten.
Finish(c) ==
  /\ patient' = [patient EXCEPT ![c] = FALSE]
  /\ data' = [data EXCEPT ![c] = None]

----
\* etcpal_queue_send waits forever, etcpal_queue_timed_send and
\* etcpal_queue_send_from_isr do not.  There are no interrupts on these
\* platforms: the _from_isr functions are called by threads.
CallSend(c, v, forever) ==
  /\ Goto(c, "idle", "wait_for_space")
  /\ patient' = [patient EXCEPT ![c] = forever]
  /\ data' = [data EXCEPT ![c] = v]
  /\ UNCHANGED <<sems, ring, reset_i>>

WaitForSpace(c) ==
  /\ Goto(c, "wait_for_space", "push_lock")
  /\ spots_available > 0
  /\ spots_available' = spots_available - 1
  /\ UNCHANGED <<lock, spots_filled, ring, reset_i, patient, data>>

SpaceTimeout(c) ==
  /\ Goto(c, "wait_for_space", "idle")
  /\ spots_available = 0 /\ ~patient[c]
  /\ Finish(c)
  /\ UNCHANGED <<sems, ring, reset_i>>

PushLock(c) ==
  /\ Goto(c, "push_lock", "push_copy")
  /\ TakeLock
  /\ UNCHANGED <<spots_available, spots_filled, ring, reset_i, patient, data>>

PushCopy(c) ==
  /\ Goto(c, "push_copy", "push_advance")
  /\ node_list' = [node_list EXCEPT ![head] = data[c]]
  /\ UNCHANGED <<sems, head, tail, queue_size, reset_i, patient, data>>

PushAdvance(c) ==
  /\ Goto(c, "push_advance", "push_unlock")
  /\ head' = Advance(head)
  /\ queue_size' = queue_size + 1
  /\ UNCHANGED <<sems, node_list, tail, reset_i, patient, data>>

PushUnlock(c) ==
  /\ Goto(c, "push_unlock", "notify_data")
  /\ GiveLock
  /\ UNCHANGED <<spots_available, spots_filled, ring, reset_i, patient, data>>

ForgetToNotify(c) ==
  /\ Goto(c, "notify_data", "idle")
  /\ Finish(c)
  /\ UNCHANGED <<sems, ring, reset_i>>

NotifyDataAvailable(c) ==
  /\ Goto(c, "notify_data", "idle")
  /\ spots_filled' = spots_filled + 1
  /\ Finish(c)
  /\ UNCHANGED <<lock, spots_available, ring, reset_i>>

----
CallReceive(c, forever) ==
  /\ Goto(c, "idle", "wait_for_data")
  /\ patient' = [patient EXCEPT ![c] = forever]
  /\ UNCHANGED <<sems, ring, reset_i, data>>

WaitForData(c) ==
  /\ Goto(c, "wait_for_data", "pop_lock")
  /\ spots_filled > 0
  /\ spots_filled' = spots_filled - 1
  /\ UNCHANGED <<lock, spots_available, ring, reset_i, patient, data>>

DataTimeout(c) ==
  /\ Goto(c, "wait_for_data", "idle")
  /\ spots_filled = 0 /\ ~patient[c]
  /\ Finish(c)
  /\ UNCHANGED <<sems, ring, reset_i>>

PopLock(c) ==
  /\ Goto(c, "pop_lock", "pop_copy")
  /\ TakeLock
  /\ UNCHANGED <<spots_available, spots_filled, ring, reset_i, patient, data>>

CopyNextNode(c) ==
  /\ Goto(c, "pop_copy", "pop_advance")
  /\ data' = [data EXCEPT ![c] = node_list[Advance(tail)]]
  /\ UNCHANGED <<sems, ring, reset_i, patient>>

PopCopy(c) ==
  /\ Goto(c, "pop_copy", "pop_advance")
  /\ data' = [data EXCEPT ![c] = node_list[tail]]
  /\ UNCHANGED <<sems, ring, reset_i, patient>>

PopAdvance(c) ==
  /\ Goto(c, "pop_advance", "pop_unlock")
  /\ tail' = Advance(tail)
  /\ queue_size' = queue_size - 1
  /\ UNCHANGED <<sems, node_list, head, reset_i, patient, data>>

PopUnlock(c) ==
  /\ Goto(c, "pop_unlock", "notify_space")
  /\ GiveLock
  /\ UNCHANGED <<spots_available, spots_filled, ring, reset_i, patient, data>>

NotifySpaceAvailable(c) ==
  /\ Goto(c, "notify_space", "idle")
  /\ spots_available' = spots_available + 1
  /\ Finish(c)
  /\ UNCHANGED <<lock, spots_filled, ring, reset_i>>

----
CallReset(c) ==
  /\ Goto(c, "idle", "reset_lock")
  /\ UNCHANGED <<sems, ring, reset_i, patient, data>>

ResetWithoutDraining(c) ==
  /\ Goto(c, "reset_lock", "reset_clear")
  /\ TakeLock
  /\ reset_i' = 0
  /\ UNCHANGED <<spots_available, spots_filled, ring, patient, data>>

ResetLock(c) ==
  /\ Goto(c, "reset_lock", IF queue_size = 0 THEN "reset_clear" ELSE "reset_wait")
  /\ TakeLock
  /\ reset_i' = 0
  /\ UNCHANGED <<spots_available, spots_filled, ring, patient, data>>

\* The loop's etcpal_sem_wait waits forever, with the lock held.
ResetWait(c) ==
  /\ Goto(c, "reset_wait", "reset_post")
  /\ spots_filled > 0
  /\ spots_filled' = spots_filled - 1
  /\ UNCHANGED <<lock, spots_available, ring, reset_i, patient, data>>

ResetPost(c) ==
  /\ Goto(c, "reset_post",
          IF reset_i + 1 < queue_size THEN "reset_wait" ELSE "reset_clear")
  /\ spots_available' = spots_available + 1
  /\ reset_i' = reset_i + 1
  /\ UNCHANGED <<lock, spots_filled, ring, patient, data>>

ResetForgetsTail(c) ==
  /\ Goto(c, "reset_clear", "reset_unlock")
  /\ queue_size' = 0 /\ head' = 0
  /\ reset_i' = 0
  /\ UNCHANGED <<sems, node_list, tail, patient, data>>

ResetClear(c) ==
  /\ Goto(c, "reset_clear", "reset_unlock")
  /\ queue_size' = 0 /\ tail' = 0 /\ head' = 0
  /\ reset_i' = 0
  /\ UNCHANGED <<sems, node_list, patient, data>>

ResetUnlock(c) ==
  /\ Goto(c, "reset_unlock", "idle")
  /\ GiveLock
  /\ UNCHANGED <<spots_available, spots_filled, ring, reset_i, patient, data>>

----
\* is_empty, is_full, slots_used and slots_available read queue_size under
\* the lock, and so do their _from_isr forms (slots_used_from_isr then
\* returns 0).
CallQuery(c) ==
  /\ Goto(c, "idle", "query_lock")
  /\ UNCHANGED <<sems, ring, reset_i, patient, data>>

QueryLock(c) ==
  /\ Goto(c, "query_lock", "query_read")
  /\ TakeLock
  /\ UNCHANGED <<spots_available, spots_filled, ring, reset_i, patient, data>>

QueryUnlock(c) ==
  /\ Goto(c, "query_read", "idle")
  /\ GiveLock
  /\ UNCHANGED <<spots_available, spots_filled, ring, reset_i, patient, data>>

----
SendStep(c) ==
  \/ \E v \in Items, forever \in BOOLEAN : CallSend(c, v, forever)
  \/ WaitForSpace(c) \/ SpaceTimeout(c) \/ PushLock(c) \/ PushCopy(c)
  \/ PushAdvance(c) \/ PushUnlock(c) \/ NotifyDataAvailable(c)

ReceiveStep(c) ==
  \/ \E forever \in BOOLEAN : CallReceive(c, forever)
  \/ WaitForData(c) \/ DataTimeout(c) \/ PopLock(c) \/ PopCopy(c)
  \/ PopAdvance(c) \/ PopUnlock(c) \/ NotifySpaceAvailable(c)

ResetStep(c) ==
  \/ CallReset(c) \/ ResetLock(c) \/ ResetWait(c) \/ ResetPost(c)
  \/ ResetClear(c) \/ ResetUnlock(c)

QueryStep(c) == CallQuery(c) \/ QueryLock(c) \/ QueryUnlock(c)

Next ==
  \/ \E c \in Senders : SendStep(c)
  \/ \E c \in Receivers : ReceiveStep(c)
  \/ \E c \in Resetters : ResetStep(c)
  \/ \E c \in Observers : QueryStep(c)

Spec == Init /\ [][Next]_vars

(***************************************************************************)
(* A call that has begun keeps running, and a client waiting on a          *)
(* semaphore that is posted again and again is served: the operating       *)
(* systems queue the waiters of a semaphore.  Nobody has to begin a call.  *)
(***************************************************************************)
Fairness ==
  /\ \A c \in Senders :
       /\ WF_vars(PushCopy(c) \/ PushAdvance(c) \/ PushUnlock(c) \/ NotifyDataAvailable(c))
       /\ SF_vars(WaitForSpace(c)) /\ SF_vars(PushLock(c))
  /\ \A c \in Receivers :
       /\ WF_vars(PopCopy(c) \/ PopAdvance(c) \/ PopUnlock(c) \/ NotifySpaceAvailable(c))
       /\ SF_vars(WaitForData(c)) /\ SF_vars(PopLock(c))
  /\ \A c \in Resetters :
       /\ WF_vars(ResetWait(c) \/ ResetPost(c) \/ ResetClear(c) \/ ResetUnlock(c))
       /\ SF_vars(ResetLock(c))
  /\ \A c \in Observers : SF_vars(QueryLock(c)) /\ WF_vars(QueryUnlock(c))

FairSpec == Spec /\ Fairness

----
(***************************************************************************)
(* Properties.                                                             *)
(***************************************************************************)
\* Every variable has its type: head and tail never leave node_list, and no
\* counter of queue.c goes below zero.
TypeOK ==
  /\ lock \in {0, 1}
  /\ spots_available \in Nat /\ spots_filled \in Nat
  /\ node_list \in [Nodes -> Items \cup {None}]
  /\ head \in Nodes /\ tail \in Nodes /\ queue_size \in Nat
  /\ reset_i \in Nat
  /\ pc \in [Clients -> PCs]
  /\ patient \in [Clients -> BOOLEAN]
  /\ data \in [Clients -> Items \cup {None}]

\* The points of a call between taking `lock` and posting it.
LockedPoints == {"push_copy", "push_advance", "push_unlock",
                 "pop_copy", "pop_advance", "pop_unlock",
                 "reset_wait", "reset_post", "reset_clear", "reset_unlock",
                 "query_read"}

\* The ring and queue_size are never touched by two calls at once, and the
\* lock is free exactly when no call is inside.
LockIsExclusive == Count(LockedPoints) = 1 - lock

\* The points where a call owns a free slot, or an item, taken from a
\* semaphore; and where what it did to queue_size has yet to be posted, or is
\* yet to be done.
HoldingSpace == Push \ {"wait_for_space"}
HoldingData  == Pop \ {"wait_for_data"}
NotYetPosted == {"push_unlock", "notify_data"}
NotYetPopped == {"pop_lock", "pop_copy", "pop_advance"}

\* No token is lost or made up, however pushes, pops, time-outs and resets
\* interleave: every slot of the queue is free, filled, or owned by one call.
TokensConserved ==
  spots_available + spots_filled + Count(HoldingSpace) + Count(HoldingData)
    + Count({"reset_post"}) = Capacity

\* queue_size tells of the ring what spots_filled tells a receiver: an item
\* counted by one and not by the other is with a call that has yet to post
\* or yet to pop, or has been drained by a reset in progress.
SizeMatchesTokens ==
  queue_size = reset_i + spots_filled + Count(NotYetPosted) + Count(NotYetPopped)
                 + Count({"reset_post"})

\* The k-th item from the tail, and all that are queued, oldest first.
NodeAt(k) == (tail + k) % (Capacity + 1)
Queued == [k \in 1 .. queue_size |-> node_list[NodeAt(k - 1)]]

\* The slot a push is about to write holds no unread item, and the slot a pop
\* is about to read does hold one, although neither looks at the other index.
NoUnreadItemLost ==
  /\ At({"push_copy"}) # {} => \A k \in Nodes : k < queue_size => head # NodeAt(k)
  /\ At({"pop_copy"}) # {} => queue_size > 0

\* head runs queue_size slots ahead of tail.
RingMatchesSize ==
  /\ queue_size <= Capacity
  /\ \/ head = tail + queue_size
     \/ head + Capacity + 1 = tail + queue_size

\* How far the loop of etcpal_queue_reset is, at each point of it.
ResetProgress ==
  /\ At({"reset_wait", "reset_post"}) # {} => reset_i < queue_size
  /\ At({"reset_clear"}) # {} => reset_i = queue_size
  /\ At({"reset_wait", "reset_post", "reset_clear"}) = {} => reset_i = 0

\* What the two semaphores say implies that the ring is in order only together
\* with who holds the lock and how far a reset is: this is what is inductive.
CountingInv ==
  /\ TypeOK /\ LockIsExclusive /\ TokensConserved /\ SizeMatchesTokens
  /\ RingMatchesSize /\ ResetProgress

\* An item left in the queue while a receiver waits for one is not left there
\* for ever, and room while a sender waits is not either: no post is missing
\* and none is taken by a call that does not use it.
NoLostWakeup ==
  /\ \A c \in Receivers : ~ <>[](pc[c] = "wait_for_data" /\ queue_size > 0)
  /\ \A c \in Senders : ~ <>[](pc[c] = "wait_for_space" /\ queue_size < Capacity)

\* etcpal_queue_reset comes back (queue.dox: "Resets queue to empty state.").
ResetReturns ==
  \A c \in Resetters : (pc[c] = "reset_lock") ~> (pc[c] = "idle")

----
(***************************************************************************)
(* The queue implements a bounded FIFO.  An item is queued when the ring's *)
(* head passes it and dequeued when the tail does.                         *)
(***************************************************************************)
SendPoints  == {"wait_for_space", "push_lock", "push_copy", "push_advance"}
TakenPoints == {"pop_unlock", "notify_space"}

Sending  == [c \in Clients |-> IF pc[c] \in SendPoints THEN data[c] ELSE None]
Received == [c \in Clients |-> IF pc[c] \in TakenPoints THEN data[c] ELSE None]

Fifo == INSTANCE BoundedFifo
          WITH contents <- Queued, sending <- Sending, received <- Received

\* Whatever the interleaving, callers see a bounded FIFO: no item is lost,
\* duplicated or overtaken, a timed-out send leaves nothing behind, and a
\* reset empties the queue in one step.
ImplementsFifo == Fifo!Spec

\* What the calls in progress carry, and that queued slots hold items: with
\* CountingInv, what makes each step of the queue a step of the FIFO.
ContentsInv ==
  /\ Queued \in Seq(Items)
  /\ \A c \in Clients :
       /\ pc[c] \in SendPoints \cup TakenPoints => data[c] \in Items
       /\ pc[c] = "push_advance" => node_list[head] = data[c]
       /\ pc[c] = "pop_advance" => node_list[tail] = data[c]
====
