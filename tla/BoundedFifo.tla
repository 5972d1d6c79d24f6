---- MODULE BoundedFifo ----
(***************************************************************************)
(* What an EtcPal queue promises its callers, as queue.dox words it: at    *)
(* most Capacity items, handed over once each and in the order in which    *)
(* they were queued.  A call is open from its Call step to its Return      *)
(* step; the queue changes in one step in between.                         *)
(***************************************************************************)
EXTENDS Naturals, Sequences

CONSTANTS Clients,   \* threads that call the queue
          Items,     \* what is queued
          Capacity,  \* etcpal_queue_create's size, at least 1
          None       \* no item: not one of Items

VARIABLES contents,  \* the queued items, oldest first
          sending,   \* the item a send call in progress still has to queue
          received   \* the item a receive call has taken and not yet returned

fifoVars == <<contents, sending, received>>

Nobody == [c \in Clients |-> None]

Init == contents = << >> /\ sending = Nobody /\ received = Nobody

Call(c, v) ==
  /\ sending[c] = None /\ received[c] = None
  /\ sending' = [sending EXCEPT ![c] = v]
  /\ UNCHANGED <<contents, received>>

Enqueue(c) ==
  /\ sending[c] # None
  /\ Len(contents) < Capacity
  /\ contents' = Append(contents, sending[c])
  /\ sending' = [sending EXCEPT ![c] = None]
  /\ UNCHANGED received

\* A timed send that finds no room returns false and has queued nothing.
GiveUp(c) ==
  /\ sending[c] # None
  /\ sending' = [sending EXCEPT ![c] = None]
  /\ UNCHANGED <<contents, received>>

Dequeue(c) ==
  /\ sending[c] = None /\ received[c] = None
  /\ contents # << >>
  /\ received' = [received EXCEPT ![c] = Head(contents)]
  /\ contents' = Tail(contents)
  /\ UNCHANGED sending

Return(c) ==
  /\ received[c] # None
  /\ received' = [received EXCEPT ![c] = None]
  /\ UNCHANGED <<contents, sending>>

Reset == contents' = << >> /\ UNCHANGED <<sending, received>>

Next ==
  \/ Reset
  \/ \E c \in Clients : \/ \E v \in Items : Call(c, v)
                        \/ Enqueue(c) \/ GiveUp(c) \/ Dequeue(c) \/ Return(c)

Spec == Init /\ [][Next]_fifoVars
====
