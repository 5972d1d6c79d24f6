---- MODULE Logger ----
(***************************************************************************)
(* The C++ Logger with its default policy, kQueued                         *)
(* (include/etcpal/cpp/log.h): threads log into a queue under a mutex, and *)
(* a dispatch thread that Startup begins and Shutdown joins hands the      *)
(* messages to the application's handler.                                  *)
(*                                                                         *)
(* A message is the number of messages queued before it, plus one.  Each   *)
(* of the two sections under mutex_ is one step, and so is each operation  *)
(* of an etcpal::Signal.  One thread owns the logger and does not start it *)
(* again while a Log call of an earlier session is still under way.        *)
(***************************************************************************)
EXTENDS Naturals, Sequences, FiniteSets

CONSTANTS Loggers,     \* threads that log
          MaxMessages  \* a bound for TLC on the messages ever queued

VARIABLES initialized, context_set, \* initialized_, log_params_.context
          log_module,               \* etcpal_init(ETCPAL_FEATURE_LOGGING) is in effect
          signal, stop_signal,      \* TRUE when signaled
          msg_q, to_log,            \* the queue, and the dispatch thread's own
          owner, dispatcher, logger,\* how far each thread got
          queued,                   \* messages ever put on msg_q
          handled,                  \* messages the handler has seen, in order
          due                       \* `queued` when the last Shutdown began

LoggerAssumption == IsFiniteSet(Loggers) /\ MaxMessages \in Nat

session == <<initialized, context_set, log_module>>
signals == <<signal, stop_signal>>
queues  == <<msg_q, to_log, queued, handled>>
vars == <<session, signals, queues, owner, dispatcher, logger, due>>

OwnerPoints == {"stopped", "start_thread", "running", "stop", "wake", "join", "deinit"}
DispatcherPoints == {"none", "check_stop", "swap", "dispatch", "wait",
                     "last_swap", "last_dispatch", "exited"}
LastPoints == {"last_swap", "last_dispatch", "exited"}

Init ==
  /\ initialized = FALSE /\ context_set = FALSE /\ log_module = FALSE
  /\ signal = FALSE /\ stop_signal = FALSE
  /\ msg_q = << >> /\ to_log = << >> /\ queued = 0 /\ handled = << >>
  /\ owner = "stopped" /\ dispatcher = "none"
  /\ logger = [t \in Loggers |-> "idle"]
  /\ due = 0

OwnerGoto(from, to) == owner = from /\ owner' = to
DispatcherGoto(from, to) == dispatcher = from /\ dispatcher' = to
LoggerGoto(t, from, to) == logger[t] = from /\ logger' = [logger EXCEPT ![t] = to]

----
\* Both signals and the mutex are made anew; logging is on before the dispatch
\* thread exists.
Startup ==
  /\ OwnerGoto("stopped", "start_thread")
  /\ \A t \in Loggers : logger[t] = "idle"
  /\ log_module' = TRUE /\ context_set' = TRUE /\ initialized' = TRUE
  /\ signal' = FALSE /\ stop_signal' = FALSE
  /\ UNCHANGED <<queues, dispatcher, logger, due>>

StartThread ==
  /\ OwnerGoto("start_thread", "running")
  /\ dispatcher' = "check_stop"
  /\ UNCHANGED <<session, signals, queues, logger, due>>

\* The context stays set.
StartThreadFails ==
  /\ OwnerGoto("start_thread", "stopped")
  /\ initialized' = FALSE /\ log_module' = FALSE
  /\ UNCHANGED <<context_set, signals, queues, dispatcher, logger, due>>

BeginShutdown ==
  /\ OwnerGoto("running", "stop")
  /\ initialized' = FALSE
  /\ due' = queued
  /\ UNCHANGED <<context_set, log_module, signals, queues, dispatcher, logger>>

NotifyStop ==
  /\ OwnerGoto("stop", "wake")
  /\ stop_signal' = TRUE
  /\ UNCHANGED <<session, signal, queues, dispatcher, logger, due>>

NotifySignal ==
  /\ OwnerGoto("wake", "join")
  /\ signal' = TRUE
  /\ UNCHANGED <<session, stop_signal, queues, dispatcher, logger, due>>

Join ==
  /\ OwnerGoto("join", "deinit")
  /\ DispatcherGoto("exited", "none")
  /\ UNCHANGED <<session, signals, queues, logger, due>>

EndShutdown ==
  /\ OwnerGoto("deinit", "stopped")
  /\ log_module' = FALSE /\ context_set' = FALSE
  /\ UNCHANGED <<initialized, signals, queues, dispatcher, logger, due>>

----
\* Threads that have found the logger initialized and not yet the mutex free.
Enqueuing == {t \in Loggers : logger[t] = "enqueue"}

\* LogInternal looks at initialized_ once, before it takes the mutex.
CallLog(t) ==
  /\ LoggerGoto(t, "idle", "enqueue")
  /\ initialized
  /\ queued + Cardinality(Enqueuing) < MaxMessages
  /\ UNCHANGED <<session, signals, queues, owner, dispatcher, due>>

Enqueue(t) ==
  /\ LoggerGoto(t, "enqueue", "notify")
  /\ queued' = queued + 1
  /\ msg_q' = Append(msg_q, queued + 1)
  /\ UNCHANGED <<session, signals, to_log, handled, owner, dispatcher, due>>

ForgetToNotify(t) ==
  /\ LoggerGoto(t, "notify", "idle")
  /\ UNCHANGED <<session, signals, queues, owner, dispatcher, due>>

Notify(t) ==
  /\ LoggerGoto(t, "notify", "idle")
  /\ signal' = TRUE
  /\ UNCHANGED <<session, stop_signal, queues, owner, dispatcher, due>>

----
ExitAtOnce ==
  /\ DispatcherGoto("check_stop", IF stop_signal THEN "exited" ELSE "swap")
  /\ stop_signal' = FALSE
  /\ UNCHANGED <<session, signal, queues, owner, logger, due>>

\* stop_signal_->TryWait() takes the signal if it is there; a stopped thread
\* empties the queue one last time.
CheckStop ==
  /\ DispatcherGoto("check_stop", IF stop_signal THEN "last_swap" ELSE "swap")
  /\ stop_signal' = FALSE
  /\ UNCHANGED <<session, signal, queues, owner, logger, due>>

\* EmptyLogQueue swaps the queue with an empty one under the mutex...
Swap ==
  /\ \/ DispatcherGoto("swap", "dispatch")
     \/ DispatcherGoto("last_swap", "last_dispatch")
  /\ to_log' = msg_q /\ msg_q' = << >>
  /\ UNCHANGED <<session, signals, queued, handled, owner, logger, due>>

\* ...and hands out what it took, oldest first.
Dispatch ==
  /\ dispatcher \in {"dispatch", "last_dispatch"} /\ to_log # << >>
  /\ to_log' = Tail(to_log)
  /\ handled' = Append(handled, Head(to_log))
  /\ UNCHANGED <<session, signals, msg_q, queued, owner, dispatcher, logger, due>>

AllDispatched ==
  /\ to_log = << >>
  /\ \/ DispatcherGoto("dispatch", "wait")
     \/ DispatcherGoto("last_dispatch", "exited")
  /\ UNCHANGED <<session, signals, queues, owner, logger, due>>

WaitSignal ==
  /\ DispatcherGoto("wait", "check_stop")
  /\ signal /\ signal' = FALSE
  /\ UNCHANGED <<session, stop_signal, queues, owner, logger, due>>

----
OwnerRunsOn ==
  \/ StartThread \/ StartThreadFails
  \/ NotifyStop \/ NotifySignal \/ Join \/ EndShutdown
DispatcherStep == CheckStop \/ Swap \/ Dispatch \/ AllDispatched \/ WaitSignal
LoggerRunsOn(t) == Enqueue(t) \/ Notify(t)

Next ==
  \/ Startup \/ BeginShutdown \/ OwnerRunsOn \/ DispatcherStep
  \/ \E t \in Loggers : CallLog(t) \/ LoggerRunsOn(t)

Spec == Init /\ [][Next]_vars

\* The scheduler runs every thread that can run.  Nobody has to call Startup,
\* Shutdown or Log.
Fairness ==
  /\ WF_vars(DispatcherStep) /\ WF_vars(OwnerRunsOn)
  /\ \A t \in Loggers : WF_vars(LoggerRunsOn(t))

FairSpec == Spec /\ Fairness

----
\* Every variable has its type, and there is a dispatch thread from the moment
\* Startup has begun it until Shutdown has joined it.
TypeOK ==
  /\ {initialized, context_set, log_module, signal, stop_signal} \subseteq BOOLEAN
  /\ queued \in 0..MaxMessages /\ due \in 0..queued
  /\ \A q \in {msg_q, to_log, handled} : q \in Seq(1..queued)
  /\ owner \in OwnerPoints /\ dispatcher \in DispatcherPoints
  /\ logger \in [Loggers -> {"idle", "enqueue", "notify"}]
  /\ dispatcher = "none" <=> owner \in {"stopped", "start_thread", "deinit"}

\* log.h:390-394 -- Shutdown "will dispatch the rest of the log messages": what
\* was queued when Shutdown began has been handled when it returns, wherever
\* the dispatch thread was at the time.
ShutdownFlushes == owner = "stopped" => Len(handled) >= due

\* EmptyLogQueue and LogInternal: a message is handled at most once and in the
\* order the mutex gave, also across sessions and while Shutdown is under way;
\* none is lost between the queue, the dispatch thread and the handler.
HandledInOrder == handled \o to_log \o msg_q = [i \in 1..queued |-> i]

\* Shutdown deinitialises the log module and clears the handler's address only
\* when the dispatch thread cannot use them any more (log.h:405-407).
HandlerIsLive == to_log # << >> => log_module /\ context_set

\* Every message reaches a live handler, once, in order and before Shutdown returns.
MessagesAreSafe == TypeOK /\ ShutdownFlushes /\ HandledInOrder /\ HandlerIsLive

\* What each thread's place says about the rest: the log module outlives the
\* dispatch thread, which learns of a Shutdown once and only from stop_signal.
PlacesAgree ==
  /\ initialized <=> owner \in {"start_thread", "running"}
  /\ owner # "stopped" => log_module /\ context_set
  /\ stop_signal => owner \in {"wake", "join"}
  /\ dispatcher \in LastPoints => owner \in {"wake", "join"} /\ ~stop_signal
  /\ to_log # << >> => dispatcher \in {"dispatch", "last_dispatch"}

\* Before a Shutdown nothing is due; a stopped dispatch thread has in hand, from
\* its last swap on, all that was.
DueIsInHand ==
  /\ owner \notin {"stop", "wake", "join"} => Len(handled) >= due
  /\ dispatcher \in {"last_dispatch", "exited"} => Len(handled) + Len(to_log) >= due

\* The bound for TLC is kept.
RoomForCalls == queued + Cardinality(Enqueuing) <= MaxMessages

\* What MessagesAreSafe rests on, inductive.
LoggerInv ==
  TypeOK /\ PlacesAgree /\ HandledInOrder /\ DueIsInHand /\ RoomForCalls

\* signal_ and stop_signal_ hold one signal each and are consumed by waits, and
\* still no message stays in the queue of a session that goes on.
MessagesAreHandled == ~ <>[](owner = "running" /\ Len(handled) < queued)

\* log.h:404-405 -- Shutdown's Join returns: the dispatch thread never sleeps
\* through the two notifications.
ShutdownReturns == (owner = "stop") ~> (owner = "stopped")

\* Neither a message nor Shutdown waits for ever.
NothingWaitsForEver == MessagesAreHandled /\ ShutdownReturns
====
