---- MODULE EventGroup ----
(***************************************************************************)
(* Event groups where EtcPal builds them from a mutex and a condition      *)
(* variable: Linux (os/linux/etcpal/os_event_group.c), and macOS and       *)
(* Windows alike, where set_bits signals one waiter and a timeout other    *)
(* than 0 is ignored; and Zephyr (os/zephyr/etcpal/os_event_group.c),      *)
(* where set_bits wakes all waiters and timed waits do time out.           *)
(***************************************************************************)
EXTENDS Naturals, FiniteSets

CONSTANTS Waiters,  \* threads that may wait on the group
          Setters,  \* other threads, that set and clear bits
          Bits,
          Masks,    \* the sets of bits that calls name, none of them empty
          NoCall, NoThread

\* Of the constants: who waits does not set, in one run of a program.
EventAssumption ==
  /\ IsFiniteSet(Waiters) /\ Waiters \cap Setters = {}
  /\ NoThread \notin Waiters \cup Setters
  /\ Masks \subseteq SUBSET Bits
  /\ \A all, clear, patient \in BOOLEAN, mask \in Masks, op \in {"set", "clear"} :
       /\ NoCall # [mask |-> mask, all |-> all, clear |-> clear, patient |-> patient]
       /\ NoCall # [mask |-> mask, op |-> op]

VARIABLES wakes_multiple,  \* the platform is Zephyr
          callers,         \* the threads that wait on the group in this run
          bits, mutex,
          sleeping,        \* the waiters in the condition variable's queue
          pc, call,
          result           \* of a wait that is about to return

platform == <<wakes_multiple, callers>>
vars == <<platform, bits, mutex, sleeping, pc, call, result>>

Users == Waiters \cup Setters

WaitPoints == {"lock", "check", "sleep", "timed_out", "unlock"}
SetPoints  == {"set_lock", "set", "clear", "set_unlock"}
PCs == {"idle"} \cup WaitPoints \cup SetPoints

\* all: ETCPAL_EVENT_GROUP_WAIT_FOR_ALL; clear: ..._AUTO_CLEAR; patient: no
\* timeout, or one the platform ignores.
WaitCalls == [mask : Masks, all : BOOLEAN, clear : BOOLEAN, patient : BOOLEAN]
SetCalls == [mask : Masks, op : {"set", "clear"}]

Init ==
  /\ wakes_multiple \in BOOLEAN
  /\ callers \in (SUBSET Waiters) \ {{}}
  /\ bits = {} /\ mutex = NoThread /\ sleeping = {}
  /\ pc = [t \in Users |-> "idle"]
  /\ call = [t \in Users |-> NoCall]
  /\ result = [t \in Users |-> {}]

Goto(t, from, to) == pc[t] = from /\ pc' = [pc EXCEPT ![t] = to]

Lock(t) == mutex = NoThread /\ mutex' = t

\* The bits that are set fulfil the request.
MetBy(request, set) ==
  IF request.all THEN request.mask \subseteq set ELSE request.mask \cap set # {}

----
CallWait(t, request) ==
  /\ t \in callers
  /\ Goto(t, "idle", "lock")
  /\ call' = [call EXCEPT ![t] = request]
  /\ UNCHANGED <<platform, bits, mutex, sleeping, result>>

WaitLock(t) ==
  /\ Goto(t, "lock", "check")
  /\ Lock(t)
  /\ UNCHANGED <<platform, bits, sleeping, call, result>>

\* Zephyr gives the mutex the wait's timeout too, and returns 0.
LockTimeout(t) ==
  /\ Goto(t, "lock", "idle")
  /\ wakes_multiple /\ ~call[t].patient /\ mutex # NoThread
  /\ call' = [call EXCEPT ![t] = NoCall]
  /\ UNCHANGED <<platform, bits, mutex, sleeping, result>>

NeverClear(t) ==
  /\ Goto(t, "check", "unlock")
  /\ MetBy(call[t], bits)
  /\ result' = [result EXCEPT ![t] = bits]
  /\ UNCHANGED <<platform, bits, mutex, sleeping, call>>

\* check_and_clear_bits returns true.
CheckAndClear(t) ==
  /\ Goto(t, "check", "unlock")
  /\ MetBy(call[t], bits)
  /\ result' = [result EXCEPT ![t] = bits]
  /\ bits' = IF call[t].clear THEN bits \ call[t].mask ELSE bits
  /\ UNCHANGED <<platform, mutex, sleeping, call>>

\* A timeout of 0 on the platforms without timed waits.
CheckOnce(t) ==
  /\ Goto(t, "check", "unlock")
  /\ ~wakes_multiple /\ ~call[t].patient
  /\ ~MetBy(call[t], bits)
  /\ result' = [result EXCEPT ![t] = bits]
  /\ UNCHANGED <<platform, bits, mutex, sleeping, call>>

\* The condition wait gives up the mutex and queues the thread in one step.
Sleep(t) ==
  /\ Goto(t, "check", "sleep")
  /\ wakes_multiple \/ call[t].patient
  /\ ~MetBy(call[t], bits)
  /\ mutex' = NoThread
  /\ sleeping' = sleeping \cup {t}
  /\ UNCHANGED <<platform, bits, call, result>>

\* POSIX lets a condition wait end without a signal.
SpuriousWakeup(t) ==
  /\ ~wakes_multiple /\ t \in sleeping
  /\ sleeping' = sleeping \ {t}
  /\ UNCHANGED <<platform, bits, mutex, pc, call, result>>

\* A woken thread takes the mutex again and looks at the bits again.
Relock(t) ==
  /\ t \notin sleeping
  /\ Goto(t, "sleep", "check")
  /\ Lock(t)
  /\ UNCHANGED <<platform, bits, sleeping, call, result>>

CondTimeout(t) ==
  /\ Goto(t, "sleep", "timed_out")
  /\ wakes_multiple /\ ~call[t].patient /\ t \in sleeping
  /\ sleeping' = sleeping \ {t}
  /\ UNCHANGED <<platform, bits, mutex, call, result>>

\* After its timeout the thread returns what the bits are by then.
RelockTimedOut(t) ==
  /\ Goto(t, "timed_out", "unlock")
  /\ Lock(t)
  /\ result' = [result EXCEPT ![t] = bits]
  /\ UNCHANGED <<platform, bits, sleeping, call>>

\* The mutex is given up and the call returns.
Return(t, from) ==
  /\ Goto(t, from, "idle")
  /\ mutex' = NoThread
  /\ call' = [call EXCEPT ![t] = NoCall]
  /\ result' = [result EXCEPT ![t] = {}]
  /\ UNCHANGED <<platform, bits, sleeping>>

----
CallSet(t, request) ==
  /\ Goto(t, "idle", "set_lock")
  /\ call' = [call EXCEPT ![t] = request]
  /\ UNCHANGED <<platform, bits, mutex, sleeping, result>>

SetLock(t) ==
  /\ Goto(t, "set_lock", call[t].op)
  /\ Lock(t)
  /\ UNCHANGED <<platform, bits, sleeping, call, result>>

SetWithoutSignal(t) ==
  /\ Goto(t, "set", "set_unlock")
  /\ bits' = bits \cup call[t].mask
  /\ UNCHANGED <<platform, mutex, sleeping, call, result>>

\* pthread_cond_signal takes one waiter from the queue, whatever it waits for;
\* k_condvar_broadcast takes them all.
SetBits(t) ==
  /\ Goto(t, "set", "set_unlock")
  /\ bits' = bits \cup call[t].mask
  /\ \/ wakes_multiple /\ sleeping' = {}
     \/ ~wakes_multiple /\ sleeping = {} /\ sleeping' = {}
     \/ ~wakes_multiple /\ \E w \in sleeping : sleeping' = sleeping \ {w}
  /\ UNCHANGED <<platform, mutex, call, result>>

ClearBits(t) ==
  /\ Goto(t, "clear", "set_unlock")
  /\ bits' = bits \ call[t].mask
  /\ UNCHANGED <<platform, mutex, sleeping, call, result>>

----
WaitStep(t) ==
  \/ \E request \in WaitCalls : CallWait(t, request)
  \/ WaitLock(t) \/ LockTimeout(t) \/ CheckAndClear(t) \/ CheckOnce(t) \/ Sleep(t)
  \/ SpuriousWakeup(t) \/ Relock(t) \/ CondTimeout(t) \/ RelockTimedOut(t)
  \/ Return(t, "unlock")

SetStep(t) ==
  \/ \E request \in SetCalls : CallSet(t, request)
  \/ SetLock(t) \/ SetBits(t) \/ ClearBits(t) \/ Return(t, "set_unlock")

Next == (\E t \in Waiters : WaitStep(t)) \/ (\E t \in Setters : SetStep(t))

Spec == Init /\ [][Next]_vars

\* A call runs on once it has begun, and gets the mutex if it is given up
\* again and again; nobody has to begin a call.
GetsMutex(t) == WaitLock(t) \/ Relock(t) \/ RelockTimedOut(t) \/ SetLock(t)
RunsOn(t) ==
  \/ CheckAndClear(t) \/ CheckOnce(t) \/ Sleep(t) \/ SetBits(t) \/ ClearBits(t)
  \/ Return(t, "unlock") \/ Return(t, "set_unlock")

Fairness == \A t \in Users : SF_vars(GetsMutex(t)) /\ WF_vars(RunsOn(t))

FairSpec == Spec /\ Fairness

----
\* Types, who holds the mutex, and who may be queued.
TypeOK ==
  /\ wakes_multiple \in BOOLEAN
  /\ callers \subseteq Waiters
  /\ bits \subseteq Bits
  /\ mutex \in Users \cup {NoThread}
  /\ sleeping \subseteq Waiters
  /\ pc \in [Users -> PCs]
  /\ call \in [Users -> WaitCalls \cup SetCalls \cup {NoCall}]
  /\ result \in [Users -> SUBSET Bits]
  /\ \A t \in Users :
       /\ mutex = t <=> pc[t] \in {"check", "unlock", "set", "clear", "set_unlock"}
       /\ t \in sleeping => pc[t] = "sleep"

\* What event_group.dox recommends, or a platform on which it does not matter.
OneWaiterOrBroadcast == wakes_multiple \/ Cardinality(callers) <= 1

\* No thread sleeps through its event: while it is queued, what it waits for
\* is not there, except for the moment in which a setter is at work.
NoSleeperMissed ==
  OneWaiterOrBroadcast /\ mutex = NoThread =>
    \A t \in sleeping : ~MetBy(call[t], bits)

\* With AUTO_CLEAR, a wait that reports what it asked for has taken it, so the
\* next wait does not report it again; and a wait that was not fulfilled takes
\* nothing.
TakenOnce(t) ==
  pc[t] = "unlock" /\ call[t].clear /\ MetBy(call[t], result[t]) =>
    call[t].mask \cap bits = {}

TakesNothingOnFailure(t) ==
  pc[t] = "unlock" /\ ~(call[t].clear /\ MetBy(call[t], result[t])) => bits = result[t]

\* The platforms without timed waits keep both halves of the bargain.
EventsAreTakenOnce ==
  \A t \in Waiters : (wakes_multiple \/ TakenOnce(t)) /\ TakesNothingOnFailure(t)

\* A thread is at a point of the function that it called, and only callers wait; a wait
\* times out on Zephyr only.
CallsMatch ==
  /\ \A t \in Waiters :
       /\ pc[t] \in WaitPoints \cup {"idle"}
       /\ pc[t] \in WaitPoints => call[t] \in WaitCalls /\ t \in callers
       /\ pc[t] = "timed_out" => wakes_multiple
  /\ \A t \in Setters :
       /\ pc[t] \in SetPoints \cup {"idle"}
       /\ pc[t] \in SetPoints => call[t] \in SetCalls

\* Also while a setter is at work: it wakes, in the step in which it sets the bits,
\* every thread that they could concern.
SleepersUnmet == OneWaiterOrBroadcast => \A t \in sleeping : ~MetBy(call[t], bits)

\* Inductive: the mutex keeps everyone else away from the bits between the look at
\* them and the return, and from the wait queue between the look and the sleep.
EventInv == TypeOK /\ CallsMatch /\ SleepersUnmet /\ EventsAreTakenOnce

\* An event reaches a thread that waits for it, and only one that takes it.
EventsReachOneWaiter == EventInv /\ NoSleeperMissed

\* event_group.dox, timed_wait: "If AUTO_CLEAR is given as a flag, any bits
\* will be cleared automatically from the event's state before the function
\* returns."
AutoClearClears == \A t \in Waiters : TakenOnce(t)

\* A thread whose event has come and stays is not left waiting for it.
WaiterWakes ==
  \A t \in Waiters :
    OneWaiterOrBroadcast => ~ <>[](pc[t] \in WaitPoints /\ MetBy(call[t], bits))
====
