---- MODULE MCLockLog ----
(***************************************************************************)
(* What threads wait on, in one instance for TLC: the spinning read-write  *)
(* lock for three threads and two readers, the C++ Logger for two that log *)
(* and one that owns it, event groups for two that wait and one that sets, *)
(* and signals for three.  Each part has the fairness its own module gives *)
(* it.                                                                     *)
(***************************************************************************)
EXTENDS LockLog

CONSTANTS t1, t2, t3, part_names, b1

\* What the proofs about these modules assume of their constants.
ASSUME EventConstants == Events!EventAssumption
ASSUME SignalConstants == Signals!SignalAssumption
ASSUME LoggerConstants == Log!LoggerAssumption
----
logger_part == <<initialized, context_set, log_module, signal, stop_signal, msg_q, to_log,
                 owner, dispatcher, logger, queued, handled, due>>
event_part == <<wakes_multiple, callers, bits, mutex, sleeping, event_pc, event_call, result>>
signal_part == <<port, valid, signaled, signal_mutex, signal_pc, signal_call>>

\* A bound: beside t1, which waits in every way, t2 waits for b1 and takes it.
SecondWaits ==
  /\ callers # {t2}
  /\ event_call[t2] # None => \E patient \in BOOLEAN :
       event_call[t2] = [mask |-> {b1}, all |-> TRUE, clear |-> TRUE, patient |-> patient]

LockLogInit ==
  /\ part \in part_names
  /\ Init /\ Log!Init
  /\ Events!Init /\ SecondWaits
  /\ (part # "events" => ~wakes_multiple /\ callers = {t1})
  /\ Signals!Init /\ (part # "signals" => port = "posix")

\* The part that runs is p, and no other changes.
Only(p) ==
  /\ part = p /\ UNCHANGED part
  /\ IF p = "lock" THEN TRUE ELSE UNCHANGED vars
  /\ IF p = "logger" THEN TRUE ELSE UNCHANGED logger_part
  /\ IF p = "events" THEN TRUE ELSE UNCHANGED event_part
  /\ IF p = "signals" THEN TRUE ELSE UNCHANGED signal_part

LockLogNext ==
  \/ Only("lock") /\ Next
  \/ Only("logger") /\ Log!Next
  \/ Only("events") /\ Events!Next /\ SecondWaits'
  \/ Only("signals") /\ Signals!Next

all_vars == <<part, vars, logger_part, event_part, signal_part>>

(* The fairness of each part's module, thread by thread.  Only one part takes *)
(* steps, so that a conjunct for a thread says of that part what its module    *)
(* says; the Logger is t3's.                                                   *)
Runs(t) ==
  \/ Only("lock") /\ RunsOn(t)
  \/ Only("logger") /\ IF t = t3 THEN Log!OwnerRunsOn ELSE Log!LoggerRunsOn(t)
  \/ Only("events") /\ Events!RunsOn(t)
  \/ Only("signals") /\ Signals!RunsOn(t)

GetsMutex(t) ==
  \/ Only("events") /\ Events!GetsMutex(t)
  \/ Only("signals") /\ Signals!LockMutex(t)

LockLogSpec ==
  /\ LockLogInit /\ [][LockLogNext]_all_vars
  /\ \A t \in Threads : WF_all_vars(Runs(t)) /\ SF_all_vars(GetsMutex(t))
  /\ WF_all_vars(Only("logger") /\ Log!DispatcherStep)
====
