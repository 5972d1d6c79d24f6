---- MODULE Live ----
(***************************************************************************)
(* The parts of the library whose calls must come to an end or wake up,    *)
(* side by side: handles, threads and the queue, and what is promised of   *)
(* the last two.  They share no state.                                     *)
(***************************************************************************)
EXTENDS HandleManager

CONSTANTS None,
          Objects, Ids,                                     \* Thread
          Senders, Receivers, Resetters, Observers, Items, Capacity   \* Queue

VARIABLES port, faults, thread_, thread_pc, live, task, sig, cancel, frees,
          lock, spots_available, spots_filled, node_list, queue_head, tail,
          queue_size, reset_i, queue_pc, patient, data

Life == INSTANCE Thread WITH pc <- thread_pc

Fifo == INSTANCE Queue WITH head <- queue_head, pc <- queue_pc
----
(* The properties of the modules that are instantiated, in detail there.    *)
\* When an etcpal_thread_t is freed no thread uses it any more, and its callable and its
\* signal are freed, but for the exceptions that Thread names.
NothingIsLeftBehind == Life!NothingIsLeftBehind

\* A join returns when the thread has ended.
JoinReturns == Life!JoinReturns

\* A receiver gets on when there is an item, and a sender when there is room.
NoLostWakeup == Fifo!NoLostWakeup
====
