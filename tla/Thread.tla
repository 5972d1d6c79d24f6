---- MODULE Thread ----
(***************************************************************************)
(* The life of an etcpal::Thread (cpp/thread.h) on the threads of each     *)
(* port (os/*/etcpal/os_thread.c).  Start allocates an etcpal_thread_t and *)
(* a callable; the new thread reads or signals the first and frees the     *)
(* second, while Join, Terminate and a failed Start free the first.        *)
(*                                                                         *)
(* An Id is the address of an etcpal_thread_t.  A thread does not join     *)
(* itself, and its callable returns.                                       *)
(***************************************************************************)
EXTENDS Naturals

CONSTANTS Objects,   \* the Thread objects of the program, each with its owner
          Ids,
          None

\* Of the constants.
ThreadAssumption == None \notin Ids

VARIABLES port,
          faults,    \* threads may be terminated, and naming one may fail
          thread_,   \* of each object, its etcpal_thread_t
          pc,        \* where the owner of the object is
          live,      \* the etcpal_thread_t that are allocated
          task,      \* where the thread of an Id is
          sig,       \* the signal that a join waits for, on FreeRTOS and MQX; "leaked" if
                     \* its etcpal_thread_t was freed before it
          cancel,    \* a pthread_cancel is pending
          frees      \* how often the callable has been freed

fixed == <<port, faults>>
vars == <<fixed, thread_, pc, live, task, sig, cancel, frees>>

Ports == {"linux", "windows", "freertos", "mqx", "zephyr"}
TimedJoinPorts == {"windows", "freertos", "zephyr"}
Signals == port \in {"freertos", "mqx"}

Init ==
  /\ port \in Ports /\ faults \in BOOLEAN
  /\ thread_ = [o \in Objects |-> None]
  /\ pc = [o \in Objects |-> "idle"]
  /\ live = {}
  /\ task = [i \in Ids |-> "none"]
  /\ sig = [i \in Ids |-> "none"]
  /\ cancel = [i \in Ids |-> FALSE]
  /\ frees = [i \in Ids |-> 1]

Goto(o, from, to) == pc[o] = from /\ pc' = [pc EXCEPT ![o] = to]

\* thread_.reset()
ResetThread(o) ==
  /\ thread_' = [thread_ EXCEPT ![o] = None]
  /\ live' = live \ {thread_[o]}

Start(o) ==
  /\ thread_[o] = None
  /\ Goto(o, "idle", "create")
  /\ \E i \in Ids \ live :
       /\ task[i] = "none"
       /\ thread_' = [thread_ EXCEPT ![o] = i]
       /\ live' = live \cup {i}
       /\ frees' = [frees EXCEPT ![i] = 0]
  /\ UNCHANGED <<fixed, task, sig, cancel>>

Create(o) ==
  LET i == thread_[o] IN
  /\ Goto(o, "create", IF port = "zephyr" THEN "name" ELSE "idle")
  /\ task' = [task EXCEPT ![i] = "ready"]
  /\ sig' = [sig EXCEPT ![i] = IF Signals THEN "empty" ELSE "none"]
  /\ UNCHANGED <<fixed, thread_, live, cancel, frees>>

\* Without a signal there is no task.  Without a task the signal stays behind, at an address
\* that is freed (freertos/os_thread.c:44-60, mqx :42-71).
CreateFails(o) ==
  LET i == thread_[o] IN
  /\ Goto(o, "create", "idle")
  /\ \E s \in IF Signals THEN {"none", "leaked"} ELSE {"none"} : sig' = [sig EXCEPT ![i] = s]
  /\ frees' = [frees EXCEPT ![i] = @ + 1]
  /\ ResetThread(o)
  /\ UNCHANGED <<fixed, task, cancel>>

\* Zephyr names the thread after starting it.
Named(o) ==
  /\ Goto(o, "name", "idle")
  /\ UNCHANGED <<fixed, thread_, live, task, sig, cancel, frees>>

\* The thread is aborted, wherever it is, and Start frees the callable.
NameFails(o) ==
  LET i == thread_[o] IN
  /\ faults
  /\ Goto(o, "name", "idle")
  /\ task' = [task EXCEPT ![i] = "none"]
  /\ frees' = [frees EXCEPT ![i] = @ + 1]
  /\ ResetThread(o)
  /\ UNCHANGED <<fixed, sig, cancel>>

\* The entry function finds the callable in the etcpal_thread_t (on Zephyr among its
\* arguments) and calls it.
Enter(i) ==
  /\ task[i] = "ready" /\ task' = [task EXCEPT ![i] = "running"]
  /\ UNCHANGED <<fixed, thread_, pc, live, sig, cancel, frees>>

\* The callable returns and CppThreadFn frees it.
Return(i) ==
  /\ task[i] = "running" /\ task' = [task EXCEPT ![i] = "done"]
  /\ frees' = [frees EXCEPT ![i] = @ + 1]
  /\ UNCHANGED <<fixed, thread_, pc, live, sig, cancel>>

ExitSilently(i) ==
  /\ task[i] = "done" /\ task' = [task EXCEPT ![i] = "ended"]
  /\ UNCHANGED <<fixed, thread_, pc, live, sig, cancel, frees>>

\* Nothing is left at the address of a thread that nobody will join.
Exit(i) ==
  /\ task[i] = "done"
  /\ task' = [task EXCEPT ![i] = IF i \in live THEN "ended" ELSE "none"]
  /\ sig' = IF Signals THEN [sig EXCEPT ![i] = "full"] ELSE sig
  /\ cancel' = [cancel EXCEPT ![i] = FALSE]
  /\ UNCHANGED <<fixed, thread_, pc, live, frees>>

\* Cancellation is deferred: it strikes where the callable lets it.
Cancelled(i) ==
  /\ task[i] = "running" /\ cancel[i]
  /\ task' = [task EXCEPT ![i] = "none"]
  /\ cancel' = [cancel EXCEPT ![i] = FALSE]
  /\ \E n \in {0, 1} : frees' = [frees EXCEPT ![i] = @ + n]
  /\ UNCHANGED <<fixed, thread_, pc, live, sig>>

Over(i) == IF Signals THEN sig[i] = "full" ELSE task[i] = "ended"

\* Join with a time limit, or without; the destructor is a Join without.
CallJoin(o) ==
  /\ thread_[o] # None
  /\ \E how \in {"join", "timed join"} : Goto(o, "idle", how)
  /\ UNCHANGED <<fixed, thread_, live, task, sig, cancel, frees>>

Joined(o) ==
  LET i == thread_[o] IN
  /\ pc[o] \in {"join", "timed join"} /\ pc' = [pc EXCEPT ![o] = "idle"]
  /\ Over(i)
  /\ task' = [task EXCEPT ![i] = "none"]
  /\ sig' = [sig EXCEPT ![i] = "none"]
  /\ ResetThread(o)
  /\ UNCHANGED <<fixed, cancel, frees>>

ResetAnyway(o) ==
  /\ Goto(o, "timed join", "idle")
  /\ port \in TimedJoinPorts /\ ~Over(thread_[o])
  /\ ResetThread(o)
  /\ UNCHANGED <<fixed, task, sig, cancel, frees>>

\* Linux and MQX ignore the time limit.
JoinTimesOut(o) ==
  /\ Goto(o, "timed join", "idle")
  /\ port \in TimedJoinPorts /\ ~Over(thread_[o])
  /\ UNCHANGED <<fixed, thread_, live, task, sig, cancel, frees>>

\* pthread_cancel only asks; the other ports end the thread, and FreeRTOS and MQX leave the
\* signal.  MQX reports an error when the task is gone, and the object stays joinable.  On
\* FreeRTOS the handle of a task that is gone is dangling, so only a task that is there is
\* terminated.
Terminate(o) ==
  LET i == thread_[o] IN
  /\ faults
  /\ i # None /\ pc[o] = "idle"
  /\ port \in {"freertos", "mqx"} => task[i] # "ended"
  /\ IF port = "linux" /\ task[i] # "ended"
     THEN cancel' = [cancel EXCEPT ![i] = TRUE] /\ UNCHANGED task
     ELSE task' = [task EXCEPT ![i] = "none"] /\ UNCHANGED cancel
  /\ sig' = IF Signals THEN [sig EXCEPT ![i] = "leaked"] ELSE sig
  /\ ResetThread(o)
  /\ UNCHANGED <<fixed, pc, frees>>

\* Moving into an object that has a thread is undefined.
Move(from, to) ==
  /\ pc[from] = "idle" /\ pc[to] = "idle"
  /\ thread_[from] # None /\ thread_[to] = None
  /\ thread_' = [thread_ EXCEPT ![to] = thread_[from], ![from] = None]
  /\ UNCHANGED <<fixed, pc, live, task, sig, cancel, frees>>

Next ==
  \/ \E o \in Objects :
       \/ Start(o) \/ Create(o) \/ CreateFails(o) \/ Named(o) \/ NameFails(o)
       \/ CallJoin(o) \/ Joined(o) \/ JoinTimesOut(o) \/ Terminate(o)
       \/ \E to \in Objects : Move(o, to)
  \/ \E i \in Ids : Enter(i) \/ Return(i) \/ Exit(i) \/ Cancelled(i)

Spec == Init /\ [][Next]_vars

\* Every thread runs, and a join that need not wait returns.
Fairness ==
  /\ \A i \in Ids : WF_vars(Enter(i)) /\ WF_vars(Return(i)) /\ WF_vars(Exit(i))
  /\ \A o \in Objects : WF_vars(Joined(o))

FairSpec == Spec /\ Fairness

----
\* Every variable has its type.
TypeOK ==
  /\ port \in Ports /\ faults \in BOOLEAN
  /\ thread_ \in [Objects -> Ids \cup {None}]
  /\ pc \in [Objects -> {"idle", "create", "name", "join", "timed join"}]
  /\ live \subseteq Ids
  /\ task \in [Ids -> {"none", "ready", "running", "done", "ended"}]
  /\ sig \in [Ids -> {"none", "empty", "full", "leaked"}]
  /\ cancel \in [Ids -> BOOLEAN] /\ frees \in [Ids -> Nat]

Gone(i) == task[i] \in {"none", "ended"}

\* When an etcpal_thread_t has been freed its thread is gone: none is left that would
\* read it, signal through it or go on with its callable.  Terminate gives this on the
\* ports that can kill a thread.
ThreadIsGone ==
  \A i \in Ids : i \notin live => Gone(i) \/ (faults /\ port = "linux")

\* thread.h:479 of Terminate: "The thread was terminated; joinable() is now false."
TerminatedThreadIsGone ==
  \A i \in Ids : i \notin live => Gone(i)

\* Without faults, however starting, running and joining interleave and wherever the
\* creation fails, the callable is freed by the time its etcpal_thread_t is, and never twice.
CallableFreedOnce ==
  \A i \in Ids : ~faults => frees[i] <= 1 /\ (i \notin live => frees[i] = 1)

\* The thread of i is being started.
Starting(i) == \E o \in Objects : thread_[o] = i /\ pc[o] = "create"

\* An etcpal_thread_t that an object has is allocated and is that object's alone; only an
\* object with one is being started or joined, and there is no task yet while it is started.
OwnersAreAlone ==
  /\ \A o \in Objects : thread_[o] # None => thread_[o] \in live
  /\ \A o, p \in Objects : thread_[o] = thread_[p] /\ thread_[o] # None => o = p
  /\ \A o \in Objects : pc[o] # "idle" => thread_[o] # None
  /\ \A o \in Objects : pc[o] = "create" => task[thread_[o]] = "none"

\* What is allocated can still be freed.
LiveIsOwned == \A i \in live : \E o \in Objects : thread_[o] = i

\* The signal of an etcpal_thread_t that has been freed is deleted, but for two that are
\* leaked: the one of a creation that failed for want of a task, and the one of a thread that
\* was terminated.  Other ports than FreeRTOS and MQX have none; only Zephyr names threads.
SignalIsDeleted ==
  /\ \A i \in Ids \ live : sig[i] \in {"none", "leaked"}
  /\ ~Signals => \A i \in Ids : sig[i] = "none"
  /\ \A o \in Objects : pc[o] = "name" => port = "zephyr"

\* What a join on FreeRTOS and MQX waits for is the last that a thread does.
SignalledLast == \A i \in Ids : sig[i] = "full" => Gone(i)

\* Only Terminate cancels.
Uncancelled == \A i \in Ids : ~faults => ~cancel[i]

\* The callable is there from Start until the thread has freed it.
InUse(i) == task[i] \in {"ready", "running"}

FreedByItsThread ==
  ~faults =>
    /\ \A i \in Ids : frees[i] \in {0, 1}
    /\ \A i \in Ids : InUse(i) => frees[i] = 0
    /\ \A o \in Objects : pc[o] = "create" => frees[thread_[o]] = 0
    /\ \A i \in Ids : frees[i] = 0 => Starting(i) \/ InUse(i)

\* Inductive.
ThreadInv ==
  /\ TypeOK /\ ThreadIsGone /\ OwnersAreAlone /\ LiveIsOwned
  /\ SignalIsDeleted /\ SignalledLast /\ Uncancelled /\ FreedByItsThread

\* Together: when an etcpal_thread_t is freed its thread is gone, unless it was cancelled on
\* Linux; so is its callable, unless threads are terminated or a name is refused; and so is
\* its signal, unless it is one of the two that are leaked.
NothingIsLeftBehind == ThreadInv /\ CallableFreedOnce

\* Whoever joins without a time limit gets away, on every port.
JoinReturns == \A o \in Objects : pc[o] = "join" ~> pc[o] = "idle"
====
