------------------------------ MODULE KernelQueue ------------------------------
(***************************************************************************)
(* The queues of FreeRTOS and Zephyr, which EtcPal takes from the kernel:  *)
(* freertos/etcpal/os_queue.c, zephyr/etcpal/os_queue.c and the C++ class  *)
(* Queue over them.  The kernels' own queues are not in the repository and *)
(* are modelled as these files use them.  Zephyr hands an item to a thread *)
(* that waits for it, and takes one from a thread that waits for room, in  *)
(* the same call; the kernel's lock keeps the others out in between.       *)
(***************************************************************************)
EXTENDS Naturals, Sequences, SequencesExt

CONSTANTS Ports,     \* among "freertos" and "zephyr"
          Threads,   \* callers that may wait
          Isrs,      \* interrupt handlers, which may not
          Items, Capacity, None

VARIABLES port,
          created,   \* the queue exists
          ring,      \* the items in the kernel's queue, oldest first
          waiting,   \* Zephyr: the threads in its wait queue, in order
          in_kernel, \* the caller that holds the kernel's lock between two steps, or None
          pc,        \* per caller: idle, send, receive (calling or waiting), returned
          data,      \* per caller: the item it still has to send, or has received
          timeout_ms,\* per caller: what its call may wait: "no", "some", "forever"
          ok         \* per caller: the value the call returns

vars == <<port, created, ring, waiting, in_kernel, pc, data, timeout_ms, ok>>

KernelAssumption ==
  /\ Capacity \in Nat \ {0}
  /\ None \notin Items /\ None \notin Threads \cup Isrs

Callers == Threads \cup Isrs

TypeOK ==
  /\ port \in Ports /\ created \in BOOLEAN
  /\ ring \in Seq(Items) /\ Len(ring) <= Capacity
  /\ waiting \in Seq(Threads) /\ in_kernel \in Callers \cup {None}
  /\ pc \in [Callers -> {"idle", "send", "receive", "returned"}]
  /\ data \in [Callers -> Items \cup {None}]
  /\ timeout_ms \in [Callers -> {"no", "some", "forever"}]
  /\ ok \in [Callers -> BOOLEAN]

Init ==
  /\ port \in Ports /\ created = FALSE
  /\ ring = << >> /\ waiting = << >> /\ in_kernel = None
  /\ pc = [c \in Callers |-> "idle"] /\ data = [c \in Callers |-> None]
  /\ timeout_ms = [c \in Callers |-> "no"] /\ ok = [c \in Callers |-> FALSE]

----
\* xQueueCreate, or malloc and k_msgq_init; either may find no memory.
FreeRtosCreate ==
  /\ port = "freertos" /\ ~created
  /\ created' \in BOOLEAN
  /\ ring' = << >>
  /\ UNCHANGED <<port, waiting, in_kernel, pc, data, timeout_ms, ok>>

ZephyrCreate ==
  /\ port = "zephyr" /\ ~created
  /\ created' \in BOOLEAN
  /\ ring' = << >> /\ waiting' = << >>
  /\ UNCHANGED <<port, in_kernel, pc, data, timeout_ms, ok>>

\* A queue may be destroyed only when no call is under way.
FreeRtosDestroy ==
  /\ port = "freertos" /\ created /\ \A c \in Callers : pc[c] = "idle"
  /\ created' = FALSE /\ ring' = << >>
  /\ UNCHANGED <<port, waiting, in_kernel, pc, data, timeout_ms, ok>>

ZephyrDestroy ==
  /\ port = "zephyr" /\ created /\ \A c \in Callers : pc[c] = "idle"
  /\ created' = FALSE /\ ring' = << >>
  /\ UNCHANGED <<port, waiting, in_kernel, pc, data, timeout_ms, ok>>

\* The calls from an interrupt do not wait, on either port.
Timeouts(c) == IF c \in Isrs THEN {"no"} ELSE {"no", "some", "forever"}

Call(c, does, item, timeout) ==
  /\ created /\ pc[c] = "idle"
  /\ pc' = [pc EXCEPT ![c] = does]
  /\ data' = [data EXCEPT ![c] = item]
  /\ timeout_ms' = [timeout_ms EXCEPT ![c] = timeout]
  /\ UNCHANGED <<port, created, ring, waiting, in_kernel, ok>>

Send(c, item, timeout) == Call(c, "send", item, timeout)

Receive(c, timeout) == Call(c, "receive", None, timeout)

\* The call of c is over and returns success.
Answers(c, success) == pc' = [pc EXCEPT ![c] = "returned"] /\ ok' = [ok EXCEPT ![c] = success]

\* The C function gives the kernel's answer to its caller; an item that was received is
\* the caller's from here on.
Return(c) ==
  /\ pc[c] = "returned"
  /\ pc' = [pc EXCEPT ![c] = "idle"] /\ data' = [data EXCEPT ![c] = None]
  /\ timeout_ms' = [timeout_ms EXCEPT ![c] = "no"] /\ ok' = [ok EXCEPT ![c] = FALSE]
  /\ UNCHANGED <<port, created, ring, waiting, in_kernel>>
----
(* FreeRTOS: a task that waits runs again when there may be an item, or    *)
(* room, and looks itself, in no order that the ports rely on.             *)
\* The mutant: xQueueSendToFront.
PutInFront(c) == ring' = <<data[c]>> \o ring

xQueueSendToBack(c) == ring' = Append(ring, data[c])

FreeRtosSend(c) ==
  /\ port = "freertos" /\ pc[c] = "send" /\ Len(ring) < Capacity
  /\ xQueueSendToBack(c)
  /\ data' = [data EXCEPT ![c] = None] /\ Answers(c, TRUE)
  /\ UNCHANGED <<port, created, waiting, in_kernel, timeout_ms>>

FreeRtosReceive(c) ==
  /\ port = "freertos" /\ pc[c] = "receive" /\ ring # << >>
  /\ data' = [data EXCEPT ![c] = Head(ring)] /\ ring' = Tail(ring)
  /\ Answers(c, TRUE)
  /\ UNCHANGED <<port, created, waiting, in_kernel, timeout_ms>>

\* errQUEUE_FULL or errQUEUE_EMPTY: at once, or after a time.
FreeRtosGivesUp(c) ==
  /\ port = "freertos" /\ timeout_ms[c] # "forever"
  /\ \/ pc[c] = "send" /\ (timeout_ms[c] = "no" => Len(ring) = Capacity)
     \/ pc[c] = "receive" /\ (timeout_ms[c] = "no" => ring = << >>)
  /\ Answers(c, FALSE)
  /\ UNCHANGED <<port, created, ring, waiting, in_kernel, data, timeout_ms>>

FreeRtosReset ==
  /\ port = "freertos" /\ created
  /\ ring' = << >>
  /\ UNCHANGED <<port, created, waiting, in_kernel, pc, data, timeout_ms, ok>>
----
Waits(c) == \E k \in DOMAIN waiting : waiting[k] = c

Asks(c, does) == port = "zephyr" /\ in_kernel = None /\ pc[c] = does /\ ~Waits(c)

\* Somebody waits: for the item that came, or for the room.
HoldLock(c) == in_kernel' = IF waiting = << >> THEN None ELSE c

\* k_msgq_put with room, and k_msgq_get with an item.
ZephyrSend(c) ==
  /\ Asks(c, "send") /\ Len(ring) < Capacity
  /\ ring' = Append(ring, data[c])
  /\ data' = [data EXCEPT ![c] = None] /\ Answers(c, TRUE) /\ HoldLock(c)
  /\ UNCHANGED <<port, created, waiting, timeout_ms>>

ZephyrReceive(c) ==
  /\ Asks(c, "receive") /\ ring # << >>
  /\ data' = [data EXCEPT ![c] = Head(ring)] /\ ring' = Tail(ring)
  /\ Answers(c, TRUE) /\ HoldLock(c)
  /\ UNCHANGED <<port, created, waiting, timeout_ms>>

Blocked(c) == \/ pc[c] = "send" /\ Len(ring) = Capacity
              \/ pc[c] = "receive" /\ ring = << >>

ZephyrWaits(c) ==
  /\ Asks(c, pc[c]) /\ Blocked(c) /\ timeout_ms[c] # "no"
  /\ waiting' = Append(waiting, c)
  /\ UNCHANGED <<port, created, ring, in_kernel, pc, data, timeout_ms, ok>>

\* -ENOMSG at once, or -EAGAIN after a time.
ZephyrGivesUp(c) ==
  /\ port = "zephyr" /\ in_kernel = None
  /\ \/ /\ Asks(c, pc[c]) /\ Blocked(c) /\ timeout_ms[c] = "no"
        /\ UNCHANGED waiting
     \/ /\ timeout_ms[c] = "some"
        /\ \E k \in DOMAIN waiting : waiting[k] = c /\ waiting' = RemoveAt(waiting, k)
  /\ Answers(c, FALSE)
  /\ UNCHANGED <<port, created, ring, in_kernel, data, timeout_ms>>

\* The rest of the call that took the lock: the first thread that waits gets the item, or
\* its item the room, and runs again.
ZephyrHandsOver ==
  /\ in_kernel # None
  /\ LET t == Head(waiting) IN
       /\ IF pc[t] = "receive"
          THEN data' = [data EXCEPT ![t] = Head(ring)] /\ ring' = Tail(ring)
          ELSE data' = [data EXCEPT ![t] = None] /\ ring' = Append(ring, data[t])
       /\ Answers(t, TRUE)
  /\ waiting' = Tail(waiting) /\ in_kernel' = None
  /\ UNCHANGED <<port, created, timeout_ms>>

\* k_msgq_purge: every thread that waits is told -ENOMSG, and the queue is empty.
ZephyrReset ==
  /\ port = "zephyr" /\ created /\ in_kernel = None
  /\ ring' = << >> /\ waiting' = << >>
  /\ pc' = [c \in Callers |-> IF Waits(c) THEN "returned" ELSE pc[c]]
  /\ ok' = [c \in Callers |-> IF Waits(c) THEN FALSE ELSE ok[c]]
  /\ UNCHANGED <<port, created, in_kernel, data, timeout_ms>>
----
Next ==
  \/ FreeRtosCreate \/ ZephyrCreate \/ FreeRtosDestroy \/ ZephyrDestroy
  \/ FreeRtosReset \/ ZephyrReset \/ ZephyrHandsOver
  \/ \E c \in Callers :
       \/ \E t \in Timeouts(c) : Receive(c, t) \/ \E item \in Items : Send(c, item, t)
       \/ FreeRtosSend(c) \/ FreeRtosReceive(c) \/ FreeRtosGivesUp(c)
       \/ ZephyrSend(c) \/ ZephyrReceive(c) \/ ZephyrWaits(c) \/ ZephyrGivesUp(c)
       \/ Return(c)

Spec == Init /\ [][Next]_vars
----
(* What the refinement rests on.                                           *)
\* A caller has an item just while it sends it, or until it returns with it, and the
\* interrupts' calls do not wait.
ItemsOfCalls ==
  /\ \A c \in Callers :
       /\ pc[c] = "send" => data[c] # None
       /\ pc[c] \in {"idle", "receive"} => data[c] = None
       /\ ok[c] => pc[c] = "returned"
  /\ \A c \in Isrs : timeout_ms[c] = "no"

\* The wait queue is Zephyr's; a thread stands in it once, and inside a call.
WaitersCall ==
  /\ waiting # << >> => port = "zephyr"
  /\ \A i, j \in DOMAIN waiting : waiting[i] = waiting[j] => i = j
  /\ \A i \in DOMAIN waiting : pc[waiting[i]] \in {"send", "receive"}
  /\ ~created => \A c \in Callers : pc[c] = "idle"

\* With the kernel's lock free, none of those who wait could go on; when it is held, they
\* all wait for the one item, or the one place, that the holder brought.
WaitersMustWait ==
  IF in_kernel = None
  THEN \A i \in DOMAIN waiting : Blocked(waiting[i])
  ELSE /\ waiting # << >>
       /\ \/ Len(ring) = 1 /\ \A i \in DOMAIN waiting : pc[waiting[i]] = "receive"
          \/ Len(ring) = Capacity - 1 /\ \A i \in DOMAIN waiting : pc[waiting[i]] = "send"

KernelInv == TypeOK /\ ItemsOfCalls /\ WaitersCall /\ WaitersMustWait
----
Sending == [c \in Callers |-> IF ok[c] THEN None ELSE data[c]]
Received == [c \in Callers |-> IF ok[c] THEN data[c] ELSE None]

Fifo == INSTANCE BoundedFifo WITH
  Clients <- Callers, contents <- ring, sending <- Sending, received <- Received

\* What a call returns is true of the queue.
TrueAnswers ==
  \A c \in Callers : pc'[c] = "returned" =>
    /\ pc[c] = "receive" => (ok'[c] <=> data'[c] # None)
    /\ pc[c] = "send" => (ok'[c] <=> Len(ring') > Len(ring))

(***************************************************************************)
(* The kernels' queues keep the promise of the portable one, whose ring    *)
(* and semaphores implement the same BoundedFifo: at most Capacity items,  *)
(* each received once and in the order sent, also when an item passes from *)
(* one waiting thread to another; and what a call returns is true: it      *)
(* returns success just if it received an item or queued its own.          *)
(***************************************************************************)
KernelImplementsFifo == Fifo!Spec /\ [][TrueAnswers]_vars
================================================================================
