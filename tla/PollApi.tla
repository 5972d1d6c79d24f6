---- MODULE PollApi ----
(***************************************************************************)
(* What the etcpal_poll_* functions promise, as etcpal/socket.dox words    *)
(* it: which calls are refused and why, and that an event is one of those  *)
(* asked for, on a socket that was added, with that socket's user data.    *)
(*                                                                         *)
(* Nothing is promised of a socket in doubt: one that was closed while it  *)
(* was watched, whose last change the system refused half-way, or that was *)
(* added twice.                                                            *)
(***************************************************************************)
EXTENDS Naturals, FiniteSets

CONSTANTS Sockets,
          Events,  \* the input events: "in", "out", "connect", "oob"
          Data,    \* user data
          Asks,    \* what calls ask for: events and user data
          None

VARIABLES valid,     \* the context is initialised
          watched,   \* what was asked of each socket: None or [events, data]
          doubtful,
          polls,     \* the events that the system can wait for
          capacity,  \* ETCPAL_SOCKET_MAX_POLL_SIZE
          waiting,   \* a call of etcpal_poll_wait is under way
          disturbed, \* a socket was removed since it began
          reply      \* what the last call returned

apiVars == <<valid, watched, doubtful, polls, capacity, waiting, disturbed, reply>>
frame == <<polls, capacity>>

Watched == {s \in Sockets : watched[s] # None}
Waitable == {s \in Watched : watched[s].events \cap polls # {}}

Nothing == [s \in Sockets |-> None]
Said(result) == [result |-> result, event |-> None]

Init ==
  /\ ~valid /\ watched = Nothing /\ doubtful = {}
  /\ polls \subseteq Events /\ capacity \in Nat
  /\ ~waiting /\ ~disturbed /\ reply = None

Reset(ok) ==
  /\ ~waiting
  /\ valid' = ok /\ watched' = Nothing /\ doubtful' = {}
  /\ UNCHANGED <<frame, waiting, disturbed>>

\* A call on a socket, with its result; sockets may come out of doubt with it.
Call(s, result, half) ==
  /\ valid /\ reply' = Said(result)
  /\ doubtful' \subseteq IF half THEN doubtful \cup {s} ELSE doubtful
  /\ UNCHANGED <<valid, frame, waiting>>

Accept(s, ask, half) ==
  /\ Call(s, "Ok", half)
  /\ watched' = [watched EXCEPT ![s] = ask]
  /\ UNCHANGED disturbed

Refuse(s, result, half) == Call(s, result, half) /\ UNCHANGED <<watched, disturbed>>

Add(s, ask) ==
  \/ Accept(s, ask, watched[s] # None)
  \/ watched[s] # None /\ Refuse(s, "Exists", FALSE)
  \/ (Cardinality(Watched) >= capacity \/ doubtful # {}) /\ Refuse(s, "NoMem", FALSE)
  \/ Refuse(s, "OutOfMemory", FALSE)
  \/ Refuse(s, "OsError", TRUE)

Modify(s, ask) ==
  \/ (watched[s] # None \/ s \in doubtful) /\ Accept(s, ask, FALSE)
  \/ watched[s] = None /\ Refuse(s, "NotFound", FALSE)
  \/ watched[s] # None /\ Refuse(s, "OsError", TRUE)

Remove(s) ==
  /\ Call(s, "Ok", FALSE)
  /\ watched' = [watched EXCEPT ![s] = None]
  /\ disturbed' = waiting

\* The application closes a socket.
Close(s) ==
  /\ doubtful' \subseteq doubtful \cup (Watched \cap {s})
  /\ UNCHANGED <<valid, watched, frame, waiting, disturbed, reply>>

BeginWait ==
  /\ valid /\ ~waiting
  /\ waiting' = TRUE /\ disturbed' = FALSE
  /\ UNCHANGED <<valid, watched, doubtful, frame, reply>>

\* A wait ends, at once or after BeginWait.
EndWait(answer) ==
  /\ valid /\ reply' = answer
  /\ waiting' = FALSE /\ disturbed' = FALSE
  /\ UNCHANGED <<valid, watched, doubtful, frame>>

Report(s, events, data) ==
  /\ EndWait([result |-> "Ok", event |-> [socket |-> s, events |-> events, data |-> data]])
  /\ s \notin doubtful =>
       /\ s \in Watched
       /\ data = watched[s].data
       /\ events \subseteq watched[s].events \cup {"err"}

\* No event: time ran out, the system failed, nothing is watched, or the socket
\* of the event is no longer there.
NoReport ==
  \/ EndWait(Said("TimedOut")) \/ EndWait(Said("OsError"))
  \/ EndWait(Said("NoSockets")) /\ ~waiting /\ Waitable \subseteq doubtful
  \/ EndWait(Said("Sys")) /\ (disturbed \/ doubtful # {})

Next ==
  \/ \E ok \in BOOLEAN : Reset(ok) /\ reply' = None
  \/ BeginWait \/ NoReport
  \/ \E s \in Sockets :
       \/ Remove(s) \/ Close(s)
       \/ \E ask \in Asks : Add(s, ask) \/ Modify(s, ask)
       \/ \E events \in SUBSET (Events \cup {"err"}), data \in Data : Report(s, events, data)

Spec == Init /\ [][Next]_apiVars
====
