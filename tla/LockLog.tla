---- MODULE LockLog ----
(***************************************************************************)
(* What threads wait on, side by side: the spinning read-write lock, the   *)
(* C++ Logger, event groups and signals, and what is promised of each.     *)
(* They share threads and no state; part says which of them runs.          *)
(***************************************************************************)
EXTENDS SpinRwLock

CONSTANTS None,
          Loggers, MaxMessages,             \* Logger
          Waiters, Setters, Bits, Masks,    \* EventGroup
          Ports                             \* Signal

VARIABLES part,
          initialized, context_set, log_module, signal, stop_signal, msg_q, to_log,
          owner, dispatcher, logger, queued, handled, due,
          wakes_multiple, callers, bits, mutex, sleeping, event_pc, event_call, result,
          port, valid, signaled, signal_mutex, signal_pc, signal_call

Log == INSTANCE Logger

Events == INSTANCE EventGroup WITH
  NoCall <- None, NoThread <- None, pc <- event_pc, call <- event_call

Signals == INSTANCE Signal WITH
  mutex <- signal_mutex, pc <- signal_pc, call <- signal_call
----
(* The properties of the modules that are instantiated, stated and         *)
(* explained there, each with the types of its part's variables.           *)
\* Each message is handled once and in order, by a handler that is there, before Shutdown
\* returns.
MessagesAreSafe == part = "logger" => Log!MessagesAreSafe /\ Log!LoggerInv

\* Messages that were queued are handled, and Shutdown returns.
NothingWaitsForEver == Log!NothingWaitsForEver

\* No thread sleeps on bits that are set, and an event that clears itself reaches one waiter.
EventsReachOneWaiter == part = "events" => Events!EventsReachOneWaiter

\* A thread wakes when what it waits for stays set.
WaiterWakes == Events!WaiterWakes

\* A signal is an auto-reset flag: a post lets one wait through, and a wait gets it.
ImplementsAutoReset == [](part = "signals" => Signals!SignalInv) /\ Signals!ImplementsAutoReset
====
