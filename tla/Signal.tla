---- MODULE Signal ----
(***************************************************************************)
(* Signals (os/<port>/etcpal/os_signal.c).  On Linux and macOS a signal is *)
(* a flag, a mutex and a condition variable; elsewhere it is an object of  *)
(* the kernel: an event on Windows and MQX, a binary semaphore on FreeRTOS *)
(* and Zephyr.                                                             *)
(*                                                                         *)
(* The section under the mutex is one step, and so is an operation of a    *)
(* kernel.  A wait on the condition variable may end for no reason, and    *)
(* does not fail; a kernel's wait fails only when its time is up.  Calls   *)
(* on a signal that is not valid return at once and are no steps.          *)
(***************************************************************************)
CONSTANTS Ports,    \* "posix" and "kernel"
          Threads, None

\* Of the constants: None is neither a thread nor a function.
SignalAssumption == None \notin Threads \cup {"wait", "try_wait", "timed_wait", "post"}

VARIABLES port,
          valid, signaled,
          mutex,
          pc, call      \* how far each thread got, and in which function

vars == <<port, valid, signaled, mutex, pc, call>>

Waits == {"wait", "try_wait", "timed_wait"}

TypeOK ==
  /\ port \in Ports
  /\ valid \in BOOLEAN /\ signaled \in BOOLEAN
  /\ mutex \in Threads \cup {None}
  /\ pc \in [Threads -> {"idle", "lock", "locked", "asleep", "kernel"}]
  /\ call \in [Threads -> Waits \cup {"post", None}]

Init ==
  /\ port \in Ports
  /\ valid = FALSE /\ signaled = FALSE /\ mutex = None
  /\ pc = [t \in Threads |-> "idle"] /\ call = [t \in Threads |-> None]

NobodyCalls == \A t \in Threads : pc[t] = "idle"

----
etcpal_signal_create ==
  /\ ~valid
  /\ valid' = TRUE /\ signaled' = FALSE
  /\ UNCHANGED <<port, mutex, pc, call>>

etcpal_signal_destroy ==
  /\ valid /\ NobodyCalls
  /\ valid' = FALSE
  /\ UNCHANGED <<port, signaled, mutex, pc, call>>

\* Where there is no timed wait, one with a timeout waits for as long as it takes.
Function(name, timeout) ==
  IF name # "timed_wait" THEN name
  ELSE IF timeout = "zero" THEN "try_wait"
  ELSE IF timeout = "forever" \/ port = "posix" THEN "wait" ELSE "timed_wait"

CallSignal(t, name, timeout) ==
  /\ valid /\ pc[t] = "idle"
  /\ call' = [call EXCEPT ![t] = Function(name, timeout)]
  /\ pc' = [pc EXCEPT ![t] = IF port = "posix" THEN "lock" ELSE "kernel"]
  /\ UNCHANGED <<port, valid, signaled, mutex>>

Return(t) ==
  /\ pc' = [pc EXCEPT ![t] = "idle"] /\ call' = [call EXCEPT ![t] = None]

----
(***************************************************************************)
(* Linux and macOS.                                                        *)
(***************************************************************************)
LockMutex(t) ==
  /\ pc[t] = "lock" /\ mutex = None
  /\ mutex' = t
  /\ pc' = [pc EXCEPT ![t] = "locked"]
  /\ UNCHANGED <<port, valid, signaled, call>>

Holds(t) == pc[t] = "locked" /\ mutex = t

TakeSignal(t) ==
  /\ Holds(t) /\ call[t] \in {"wait", "try_wait"} /\ signaled
  /\ signaled' = FALSE /\ mutex' = None
  /\ Return(t) /\ UNCHANGED <<port, valid>>

Sleep(t) ==
  /\ Holds(t) /\ call[t] = "wait" /\ ~signaled
  /\ mutex' = None
  /\ pc' = [pc EXCEPT ![t] = "asleep"]
  /\ UNCHANGED <<port, valid, signaled, call>>

\* pthread_cond_wait returns with the mutex locked, and the flag is looked at again.
WakeForNoReason(t) ==
  /\ pc[t] = "asleep"
  /\ pc' = [pc EXCEPT ![t] = "lock"]
  /\ UNCHANGED <<port, valid, signaled, mutex, call>>

NotSignaled(t) ==
  /\ Holds(t) /\ call[t] = "try_wait" /\ ~signaled
  /\ mutex' = None
  /\ Return(t) /\ UNCHANGED <<port, valid, signaled>>

\* The mutant sets the flag and wakes nobody.
SetWithoutSignal(t) ==
  /\ Holds(t) /\ call[t] = "post"
  /\ signaled' = TRUE /\ mutex' = None
  /\ Return(t)
  /\ UNCHANGED <<port, valid>>

PostSignal(t) ==
  /\ Holds(t) /\ call[t] = "post"
  /\ signaled' = TRUE /\ mutex' = None
  /\ call' = [call EXCEPT ![t] = None]
  /\ LET asleep == {u \in Threads : pc[u] = "asleep"} IN
     \/ asleep = {} /\ pc' = [pc EXCEPT ![t] = "idle"]
     \/ \E u \in asleep : pc' = [pc EXCEPT ![t] = "idle", ![u] = "lock"]
  /\ UNCHANGED <<port, valid>>

----
(***************************************************************************)
(* The other ports.                                                        *)
(***************************************************************************)
KernelTake(t) ==
  /\ pc[t] = "kernel" /\ call[t] \in Waits /\ signaled
  /\ signaled' = FALSE
  /\ Return(t) /\ UNCHANGED <<port, valid, mutex>>

KernelTimesOut(t) ==
  /\ pc[t] = "kernel" /\ call[t] \in {"try_wait", "timed_wait"} /\ ~signaled
  /\ Return(t) /\ UNCHANGED <<port, valid, signaled, mutex>>

\* Giving a semaphore that is full changes nothing.
KernelPost(t) ==
  /\ pc[t] = "kernel" /\ call[t] = "post"
  /\ signaled' = TRUE
  /\ Return(t) /\ UNCHANGED <<port, valid, mutex>>

etcpal_signal_post_from_isr ==
  /\ port = "kernel" /\ valid
  /\ signaled' = TRUE
  /\ UNCHANGED <<port, valid, mutex, pc, call>>

----
RunsOn(t) ==
  \/ TakeSignal(t) \/ Sleep(t) \/ NotSignaled(t) \/ PostSignal(t)
  \/ KernelTake(t) \/ KernelTimesOut(t) \/ KernelPost(t)

Next ==
  \/ etcpal_signal_create \/ etcpal_signal_destroy \/ etcpal_signal_post_from_isr
  \/ \E t \in Threads :
       \/ \E name \in Waits \cup {"post"}, timeout \in {"zero", "some", "forever"} :
            CallSignal(t, name, timeout)
       \/ LockMutex(t) \/ WakeForNoReason(t) \/ RunsOn(t)

\* A thread that can go on does, and the mutex is not kept from one that waits for it.
Fairness == \A t \in Threads : WF_vars(RunsOn(t)) /\ SF_vars(LockMutex(t))

Spec == Init /\ [][Next]_vars

FairSpec == Spec /\ Fairness

----
\* Inductive: who is in a call, on which port, and that no call outlives its signal.
\* It makes every step of a signal one of an AutoReset.
SignalInv ==
  /\ TypeOK
  /\ \A t \in Threads :
       /\ pc[t] = "idle" <=> call[t] = None
       /\ pc[t] # "idle" => valid
       /\ pc[t] = "kernel" <=> port # "posix" /\ pc[t] # "idle"
       /\ pc[t] = "asleep" => call[t] = "wait"
       /\ port = "posix" => call[t] # "timed_wait"
       /\ mutex = t <=> pc[t] = "locked"

Waiting == {t \in Threads : call[t] \in Waits}

(* A signal is an AutoReset: one wait returns for each time it is set, no wait returns *)
(* that it was not set when it was, and it never stays set while a thread sleeps.      *)
Auto == INSTANCE AutoReset WITH
  flag <- signaled,
  waiting <- Waiting,
  patient <- {t \in Threads : call[t] = "wait"}

ImplementsAutoReset == Auto!AutoSpec
====
