---- MODULE PollContext ----
(***************************************************************************)
(* Poll contexts (EtcPalPollContext in os/<port>/etcpal/os_socket.c): the  *)
(* sockets that a context was given, and what each port tells its system   *)
(* to watch.                                                               *)
(*                                                                         *)
(*   linux    a tree of sockets beside the kernel's epoll set              *)
(*   macos    a tree beside kqueue filters; user data is in the filters    *)
(*   windows  a tree beside three fd_sets, under a mutex: other calls may  *)
(*            overlap with a wait                                          *)
(*   lwip     an array of slots beside three fd_sets, with the largest fd  *)
(*   mqx      an array of slots beside two fd_sets                         *)
(*                                                                         *)
(* Whether a filter of a socket is watched is in interest, for a kernel's  *)
(* set and for the bit of an fd_set alike.                                 *)
(***************************************************************************)
EXTENDS Integers, Sequences, FiniteSets

Fx == INSTANCE FiniteSetsExt

CONSTANTS Sockets,   \* numbers from 0
          EventSets, \* the sets of events that calls name
          Data,      \* user data
          MaxPoll,   \* ETCPAL_SOCKET_MAX_POLL_SIZE where there is one
          MaxDoubtful, \* a bound for TLC on the sockets in doubt at a time
          None

Events == {"in", "out", "connect", "oob"}
Filters == {"read", "write", "except"}

VARIABLES port, valid,
          tree,      \* linux, macos, windows: each socket's entry or None
          slots,     \* lwip, mqx: each slot's entry or None
          interest, udata,
          count,     \* of each fd_set, the field beside its bits
          max_fd,
          waiting,   \* windows: the fd_sets that a wait has copied, or None
          open,      \* the sockets that are open
          asked, doubtful, disturbed, reply  \* history: see PollApi

context == <<valid, tree, slots, count, max_fd>>
kernel == <<interest, udata>>
history == <<asked, doubtful, disturbed, reply>>
vars == <<port, context, kernel, waiting, open, history>>

TreePorts == {"linux", "macos", "windows"}
SlotPorts == {"lwip", "mqx"}
SelectPorts == {"windows", "lwip", "mqx"}
Slots == 1 .. MaxPoll

Asks == [events : EventSets, data : Data]
Entries == [sock : Sockets, events : EventSets, data : Data]
Entry(s, ask) == [sock |-> s, events |-> ask.events, data |-> ask.data]

\* etcpal_poll_add_socket and its like refuse calls that name no event.
PollAssumption ==
  /\ Sockets \subseteq Nat /\ IsFiniteSet(Sockets)
  /\ EventSets \subseteq (SUBSET Events) \ {{}}
  /\ MaxPoll \in Nat
  /\ None \notin Asks /\ None \notin Entries /\ None \notin [Sockets -> SUBSET Filters]

NoTree == [s \in Sockets |-> None]
NoSlots == [i \in Slots |-> None]
NoInterest == [s \in Sockets |-> {}]
NoData == [f \in Filters |-> None]
NoCount == [f \in Filters |-> 0]

Init ==
  /\ port \in TreePorts \cup SlotPorts
  /\ valid = FALSE /\ tree = NoTree /\ slots = NoSlots
  /\ interest = NoInterest /\ udata = [s \in Sockets |-> NoData]
  /\ count = NoCount /\ max_fd = -1
  /\ waiting = None
  /\ open = Sockets
  /\ asked = NoTree /\ doubtful = {} /\ disturbed = FALSE /\ reply = None

----
\* What the ports make of a set of events.
Readable(events) == IF "in" \in events THEN {"read"} ELSE {}
Writable(events) == IF events \cap {"out", "connect"} # {} THEN {"write"} ELSE {}

EpollFilters(events) ==
  Readable(events) \cup Writable(events) \cup (IF "oob" \in events THEN {"except"} ELSE {})

WindowsFilters(events) ==
  Readable(events) \cup Writable(events)
    \cup (IF events \cap {"oob", "connect"} # {} THEN {"except"} ELSE {})

LwipFilters(events) == Readable(events) \cup Writable(events) \cup {"except"}

MqxFilters(events) == Readable(events) \cup Writable(events)

FiltersOn(p, events) ==
  CASE p \in {"linux", "macos"} -> EpollFilters(events)
    [] p = "windows" -> WindowsFilters(events)
    [] p = "lwip" -> LwipFilters(events)
    [] p = "mqx" -> MqxFilters(events)

FiltersOf(events) == FiltersOn(port, events)

\* ETCPAL_FD_SET and ETCPAL_FD_CLEAR count calls, whatever the bit was.
Raised(n, events) == [f \in Filters |-> IF f \in FiltersOf(events) THEN n[f] + 1 ELSE n[f]]
Lowered(n, events) == [f \in Filters |-> IF f \in FiltersOf(events) THEN n[f] - 1 ELSE n[f]]

set_in_fd_sets(s, events) ==
  /\ interest' = [interest EXCEPT ![s] = @ \cup FiltersOf(events)]
  /\ count' = Raised(count, events)
  /\ UNCHANGED udata

clear_in_fd_sets(s, events) ==
  /\ interest' = [interest EXCEPT ![s] = @ \ FiltersOf(events)]
  /\ count' = Lowered(count, events)
  /\ UNCHANGED udata

SetWithoutClearing(s, old, new) ==
  /\ interest' = [interest EXCEPT ![s] = @ \cup FiltersOf(new)]
  /\ count' = Raised(Lowered(count, old), new)
  /\ UNCHANGED udata

\* Modifying clears by the old events, then sets by the new ones.
reset_in_fd_sets(s, old, new) ==
  /\ interest' = [interest EXCEPT ![s] = (@ \ FiltersOf(old)) \cup FiltersOf(new)]
  /\ count' = Raised(Lowered(count, old), new)
  /\ UNCHANGED udata

----
\* The history: what was asked for, going by the results the caller got.
Said(result) == [result |-> result, event |-> None]

Asked(s, ask, result) ==
  /\ reply' = Said(result)
  /\ asked' = IF result = "Ok" THEN [asked EXCEPT ![s] = ask] ELSE asked
  /\ UNCHANGED disturbed

Certain == UNCHANGED doubtful
Doubt(s) ==
  doubtful' = doubtful \cup {s} /\ Cardinality(doubtful \cup {s}) <= MaxDoubtful

Refuse(s, result) ==
  /\ Asked(s, None, result) /\ Certain
  /\ UNCHANGED <<context, kernel>>

\* A socket that the context and the system have both forgotten is in no doubt.
Forgotten(s) ==
  /\ reply' = Said("Ok")
  /\ asked' = [asked EXCEPT ![s] = None]
  /\ doubtful' = IF interest'[s] = {} /\ \A i \in Slots : slots'[i] = None \/ slots'[i].sock # s
                 THEN doubtful \ {s} ELSE doubtful
  /\ disturbed' = (waiting # None)

\* A call that starts when no other runs, or on Windows beside a wait.
Call == valid /\ UNCHANGED <<port, valid, waiting, open>>

Find(s) == {i \in Slots : slots[i] # None /\ slots[i].sock = s}
FirstOf(S) == CHOOSE i \in S : \A j \in S : i <= j
Holes == {i \in Slots : slots[i] = None}

Size == Cardinality({s \in Sockets : tree[s] # None})

Insert(s, ask) == tree' = [tree EXCEPT ![s] = Entry(s, ask)]
Put(i, entry) == slots' = [slots EXCEPT ![i] = entry]

----
\* etcpal_poll_context_init finds the structure zeroed or deinitialised.
ContextInit ==
  /\ ~valid /\ valid' = TRUE
  /\ tree' = NoTree /\ slots' = NoSlots
  /\ interest' = NoInterest
  /\ count' = NoCount /\ max_fd' = -1
  /\ asked' = NoTree /\ doubtful' = {} /\ reply' = None
  /\ UNCHANGED <<port, udata, waiting, open, disturbed>>

ContextDeinit ==
  /\ valid /\ waiting = None /\ valid' = FALSE
  /\ tree' = NoTree
  /\ interest' = IF port \in SelectPorts THEN interest ELSE NoInterest
  /\ udata' = [s \in Sockets |-> NoData]
  /\ asked' = NoTree /\ doubtful' = {} /\ reply' = None
  /\ UNCHANGED <<port, slots, count, max_fd, waiting, open, disturbed>>

Close(s) ==
  /\ s \in open /\ open' = open \ {s}
  /\ interest' = IF port \in SelectPorts THEN interest ELSE [interest EXCEPT ![s] = {}]
  /\ udata' = [udata EXCEPT ![s] = NoData]
  /\ IF asked[s] # None THEN Doubt(s)
     ELSE doubtful' = IF port \in SelectPorts THEN doubtful ELSE doubtful \ {s}
  /\ UNCHANGED <<port, context, waiting, asked, disturbed, reply>>

\* The system gives the number of a closed socket to a new one.
Reopen(s) ==
  /\ s \notin open /\ open' = open \cup {s}
  /\ UNCHANGED <<port, context, kernel, waiting, history>>

----
\* Linux.  The socket goes into the tree and then to epoll_ctl, which refuses a
\* closed one, and may refuse an open one; then it leaves the tree again.
ForgetToRollBack(s, ask) ==
  /\ port = "linux" /\ Call /\ tree[s] = None
  /\ UNCHANGED <<slots, count, max_fd, kernel>>
  /\ Insert(s, ask) /\ Asked(s, ask, "OsError") /\ Certain

EpollRollBack(s, ask) ==
  /\ port = "linux" /\ Call /\ tree[s] = None
  /\ Refuse(s, "OsError")

EpollAdd(s, ask) ==
  /\ port = "linux" /\ Call /\ tree[s] = None /\ s \in open
  /\ UNCHANGED <<slots, count, max_fd, udata>>
  /\ Insert(s, ask)
  /\ interest' = [interest EXCEPT ![s] = EpollFilters(ask.events)]
  /\ Asked(s, ask, "Ok") /\ Certain

\* epoll_ctl knows the sockets that were added and are still open.
EpollModify(s, ask) ==
  /\ port = "linux" /\ Call /\ tree[s] # None
  /\ \/ /\ interest[s] # {}
        /\ UNCHANGED <<slots, count, max_fd, udata>>
        /\ Insert(s, ask)
        /\ interest' = [interest EXCEPT ![s] = EpollFilters(ask.events)]
        /\ Asked(s, ask, "Ok") /\ Certain
     \/ Refuse(s, "OsError")

EpollRemove(s) ==
  /\ port = "linux" /\ Call
  /\ UNCHANGED <<slots, count, max_fd, udata>>
  /\ interest' = [interest EXCEPT ![s] = {}]
  /\ tree' = [tree EXCEPT ![s] = None]
  /\ Forgotten(s)

----
\* macOS.  The changes go to kevent in a list, which it works off up to the first
\* that fails.
Changes(s, old, new) ==
  LET List(f) == IF f \in EpollFilters(new) THEN << [filter |-> f, add |-> TRUE] >>
                 ELSE IF f \in EpollFilters(old) THEN << [filter |-> f, add |-> FALSE] >>
                 ELSE << >>
  IN List("read") \o List("write") \o List("except")

\* The first n changes of the list are made.
Kevent(s, changes, n, data) ==
  LET done(add) == {changes[i].filter : i \in {j \in 1 .. n : changes[j].add = add}}
  IN /\ interest' = [interest EXCEPT ![s] = (@ \cup done(TRUE)) \ done(FALSE)]
     /\ udata' = [udata EXCEPT ![s] = [f \in Filters |-> IF f \in done(TRUE) THEN data
                                                         ELSE IF f \in done(FALSE) THEN None
                                                         ELSE udata[s][f]]]

\* A filter that is not there cannot be deleted, and no closed socket added.
MayFail(s, change) == change.add \/ change.filter \notin interest[s]
MustFail(s, change) == s \notin open \/ (~change.add /\ change.filter \notin interest[s])

\* How many of the changes kevent can make: all, or those before one that fails.
Done(s, changes) ==
  {n \in 0 .. Len(changes) :
     /\ \A i \in 1 .. n : ~MustFail(s, changes[i])
     /\ n < Len(changes) => MayFail(s, changes[n + 1])}

KqueueAdd(s, ask) ==
  LET changes == Changes(s, {}, ask.events) IN
  /\ port = "macos" /\ Call /\ tree[s] = None
  /\ UNCHANGED <<slots, count, max_fd>>
  /\ \E n \in Done(s, changes) :
       /\ Kevent(s, changes, n, ask.data)
       /\ IF n = Len(changes)
          THEN Insert(s, ask) /\ Asked(s, ask, "Ok") /\ Certain
          ELSE UNCHANGED tree /\ Asked(s, ask, "OsError") /\ (IF n = 0 THEN Certain ELSE Doubt(s))

KqueueModify(s, ask) ==
  LET changes == Changes(s, tree[s].events, ask.events) IN
  /\ port = "macos" /\ Call /\ tree[s] # None
  /\ UNCHANGED <<slots, count, max_fd>>
  /\ \E n \in Done(s, changes) :
       /\ Kevent(s, changes, n, ask.data)
       /\ IF n = Len(changes)
          THEN Insert(s, ask) /\ Asked(s, ask, "Ok") /\ Certain
          ELSE UNCHANGED tree /\ Asked(s, ask, "OsError") /\ (IF n = 0 THEN Certain ELSE Doubt(s))

KqueueRemove(s) ==
  LET changes == IF tree[s] = None THEN << >> ELSE Changes(s, tree[s].events, {}) IN
  /\ port = "macos" /\ Call
  /\ UNCHANGED <<slots, count, max_fd>>
  /\ \E n \in Done(s, changes) : Kevent(s, changes, n, None)
  /\ tree' = [tree EXCEPT ![s] = None]
  /\ Forgotten(s)

\* Linux and macOS allocate before they look the socket up.
TreeAddRefused(s, ask) ==
  /\ port \in TreePorts /\ Call
  /\ port = "windows" => Size < MaxPoll
  /\ \/ tree[s] # None /\ Refuse(s, "Exists")
     \/ Refuse(s, "OutOfMemory")

TreeModifyRefused(s, ask) ==
  port \in TreePorts /\ Call /\ tree[s] = None /\ Refuse(s, "NotFound")

----
\* Windows.
WindowsAdd(s, ask) ==
  /\ port = "windows" /\ Call
  /\ \/ Size >= MaxPoll /\ Refuse(s, "NoMem")
     \/ /\ Size < MaxPoll /\ tree[s] = None
        /\ Insert(s, ask)
        /\ set_in_fd_sets(s, ask.events)
        /\ UNCHANGED <<slots, max_fd>>
        /\ Asked(s, ask, "Ok") /\ Certain

WindowsModify(s, ask) ==
  /\ port = "windows" /\ Call /\ tree[s] # None
  /\ reset_in_fd_sets(s, tree[s].events, ask.events)
  /\ Insert(s, ask)
  /\ UNCHANGED <<slots, max_fd>>
  /\ Asked(s, ask, "Ok") /\ Certain

WindowsRemove(s) ==
  /\ port = "windows" /\ Call
  /\ IF tree[s] = None THEN UNCHANGED <<interest, udata, count>>
     ELSE clear_in_fd_sets(s, tree[s].events)
  /\ tree' = [tree EXCEPT ![s] = None]
  /\ UNCHANGED <<slots, max_fd>>
  /\ Forgotten(s)

----
\* lwIP and MQX.  A socket that is there already is put into a second slot.
SlotAdd(s, ask) ==
  /\ Call
  /\ IF Holes = {} THEN Refuse(s, "NoMem")
     ELSE /\ Put(FirstOf(Holes), Entry(s, ask))
          /\ set_in_fd_sets(s, ask.events)
          /\ UNCHANGED tree
          /\ Asked(s, ask, "Ok")
          /\ IF Find(s) = {} THEN Certain ELSE Doubt(s)

SlotModify(s, ask) ==
  /\ Call /\ UNCHANGED max_fd
  /\ IF Find(s) = {} THEN Refuse(s, "NotFound")
     ELSE LET i == FirstOf(Find(s)) IN
          /\ reset_in_fd_sets(s, slots[i].events, ask.events)
          /\ Put(i, Entry(s, ask))
          /\ UNCHANGED tree
          /\ Asked(s, ask, "Ok") /\ Certain

SlotRemove(s) ==
  /\ Call /\ UNCHANGED tree
  /\ IF Find(s) = {} THEN UNCHANGED <<slots, interest, udata, count>>
     ELSE LET i == FirstOf(Find(s)) IN
          clear_in_fd_sets(s, slots[i].events) /\ Put(i, None)
  /\ Forgotten(s)

\* Down to the next socket with a bit in a set.
NextMaxFd(sets) == Fx!Max({0} \cup {s \in Sockets : s <= max_fd /\ sets[s] # {}})

LwipAdd(s, ask) ==
  /\ port = "lwip" /\ SlotAdd(s, ask)
  /\ max_fd' = IF Holes # {} /\ s > max_fd THEN s ELSE max_fd

LwipModify(s, ask) == port = "lwip" /\ SlotModify(s, ask)

LwipRemove(s) ==
  /\ port = "lwip" /\ SlotRemove(s)
  /\ max_fd' = IF Find(s) # {} /\ s = max_fd THEN NextMaxFd(interest') ELSE max_fd

MqxAdd(s, ask) == port = "mqx" /\ SlotAdd(s, ask) /\ UNCHANGED max_fd
MqxModify(s, ask) == port = "mqx" /\ SlotModify(s, ask)
MqxRemove(s) == port = "mqx" /\ SlotRemove(s) /\ UNCHANGED max_fd

----
\* Waiting.  Only on Windows do other calls run while the system waits.
EndWait(answer) ==
  /\ waiting' = None /\ disturbed' = FALSE
  /\ reply' = answer
  /\ UNCHANGED <<port, context, kernel, open, asked, doubtful>>

Event(s, events, data) == 
  EndWait([result |-> "Ok", event |-> [socket |-> s, events |-> events, data |-> data]])

\* With getsockopt(SO_ERROR).
WithError(events) == {events, events \cup {"err"}}

\* What comes with a write that was asked for as such or as a connect.
WriteEvents(asks) == asks \cap {"out", "connect"}

EpollEvents(bits, asks) ==
     (IF "read" \in bits THEN {"in"} ELSE {})
  \cup (IF "write" \in bits THEN WriteEvents(asks) ELSE {})
  \cup (IF "except" \in bits THEN {"oob"} ELSE {})
  \cup (bits \cap {"err"})

\* epoll reports errors and hang-ups whatever was asked for.
EpollWait ==
  /\ port = "linux" /\ valid /\ Size > 0
  /\ \E s \in Sockets : \E bits \in (SUBSET (interest[s] \cup {"err", "hup"})) \ {{}} :
       /\ interest[s] # {}
       /\ IF tree[s] = None THEN EndWait(Said("Sys"))
          ELSE \E events \in WithError(EpollEvents(bits, tree[s].events)) :
                 Event(s, events, tree[s].data)

KqueueEvents(filter, eof, oob, asks) ==
     (CASE filter = "read" -> {"in"} \cup (IF oob THEN asks \cap {"oob"} ELSE {})
        [] filter = "write" -> WriteEvents(asks)
        [] filter = "except" -> {"oob"})
  \cup (IF eof THEN {"err"} ELSE {})

KqueueWait ==
  /\ port = "macos" /\ valid /\ Size > 0
  /\ \E s \in Sockets : \E filter \in interest[s], eof, oob \in BOOLEAN :
       IF tree[s] = None THEN EndWait(Said("Sys"))
       ELSE \E events \in WithError(KqueueEvents(filter, eof, oob, tree[s].events)) :
              Event(s, events, udata[s][filter])

\* Of the sockets that select returns, the first of the tree or the array is
\* reported; bits are the sets it is in.
WindowsEvents(bits, asks) ==
     (IF "read" \in bits THEN asks \cap {"in"} ELSE {})
  \cup (IF "write" \notin bits THEN {}
        ELSE IF "connect" \in asks THEN {"connect"} ELSE asks \cap {"out"})
  \cup (IF "except" \notin bits THEN {}
        ELSE IF "connect" \in asks THEN {"connect"} ELSE asks \cap {"oob"})

LwipEvents(bits, asks) ==
     (IF "read" \in bits THEN asks \cap {"in"} ELSE {})
  \cup (IF "write" \notin bits THEN {}
        ELSE IF "connect" \in asks THEN {"connect"} ELSE asks \cap {"out"})
  \cup (IF "except" \in bits THEN {"err"} ELSE {})

MqxEvents(bits, asks, failed) ==
     (IF "read" \in bits THEN asks \cap {"in"} ELSE {})
  \cup (IF "write" \notin bits THEN {}
        ELSE IF "connect" \in asks THEN {"connect"} ELSE asks \cap {"out"})
  \cup (IF failed THEN {"err"} ELSE {})

NoBits == \A f \in Filters : count[f] = 0

\* The first to be reported of the sockets in S, which select returned.
FirstInTree(S) == {s \in S : tree[s] # None /\ \A t \in S : tree[t] # None => s <= t}

FirstSlot(S) ==
  LET hits == {i \in Slots : slots[i] # None /\ slots[i].sock \in S}
  IN IF hits = {} THEN None ELSE slots[FirstOf(hits)]

Selectable(sets) == (SUBSET {s \in open : sets[s] # {}}) \ {{}}

WindowsBeginWait ==
  /\ port = "windows" /\ valid /\ waiting = None /\ ~NoBits
  /\ waiting' = interest /\ disturbed' = FALSE
  /\ UNCHANGED <<port, context, kernel, open, asked, doubtful, reply>>

WindowsEndWait ==
  /\ waiting # None
  /\ \E S \in Selectable(waiting) :
       \/ FirstInTree(S) = {} /\ EndWait(Said("Sys"))
       \/ \E s \in FirstInTree(S) : \E bits \in (SUBSET waiting[s]) \ {{}} :
            \E events \in WithError(WindowsEvents(bits, tree[s].events)) :
              Event(s, events, tree[s].data)

LwipWait ==
  /\ port = "lwip" /\ valid /\ ~NoBits
  /\ \E S \in Selectable(interest) :
       LET entry == FirstSlot(S) IN
       /\ \A s \in S : s <= max_fd
       /\ \E bits \in (SUBSET interest[entry.sock]) \ {{}} :
            Event(entry.sock, LwipEvents(bits, entry.events), entry.data)

\* RTCS returns some errors of a socket from select.
MqxWait ==
  /\ port = "mqx" /\ valid /\ ~NoBits
  /\ \E S \in Selectable(interest) :
       LET entry == FirstSlot(S) IN
       \E bits \in (SUBSET interest[entry.sock]) \ {{}}, failed \in BOOLEAN :
         Event(entry.sock, MqxEvents(bits, entry.events, failed), entry.data)

Unwatched == IF port \in SelectPorts THEN NoBits ELSE Size = 0

WaitNoSockets ==
  valid /\ waiting = None /\ Unwatched /\ EndWait(Said("NoSockets"))

WaitInVain ==
  /\ valid /\ ~Unwatched /\ (port = "windows" => waiting # None)
  /\ \E result \in {"TimedOut", "OsError"} : EndWait(Said(result))

----
Next ==
  \/ ContextInit \/ ContextDeinit
  \/ EpollWait \/ KqueueWait \/ WindowsBeginWait \/ WindowsEndWait \/ LwipWait \/ MqxWait
  \/ WaitNoSockets \/ WaitInVain
  \/ \E s \in Sockets :
       \/ Close(s) \/ Reopen(s)
       \/ EpollRemove(s) \/ KqueueRemove(s) \/ WindowsRemove(s) \/ LwipRemove(s) \/ MqxRemove(s)
       \/ \E ask \in Asks :
            \/ TreeAddRefused(s, ask) \/ TreeModifyRefused(s, ask)
            \/ EpollAdd(s, ask) \/ EpollRollBack(s, ask) \/ EpollModify(s, ask)
            \/ KqueueAdd(s, ask) \/ KqueueModify(s, ask)
            \/ WindowsAdd(s, ask) \/ WindowsModify(s, ask)
            \/ LwipAdd(s, ask) \/ LwipModify(s, ask)
            \/ MqxAdd(s, ask) \/ MqxModify(s, ask)

Spec == Init /\ [][Next]_vars

----
\* What the application asked for of a socket that is not in doubt is what the
\* context holds, what the system watches and no more, and below max_fd, through
\* any calls that failed or overlapped with a wait.
OsWatchesWhatWasAsked ==
  valid => \A s \in Sockets \ doubtful :
    IF asked[s] = None
    THEN interest[s] = {} /\ tree[s] = None /\ Find(s) = {}
    ELSE /\ interest[s] = FiltersOf(asked[s].events)
         /\ IF port \in TreePorts THEN tree[s] = Entry(s, asked[s])
            ELSE slots[FirstOf(Find(s))] = Entry(s, asked[s])
         /\ port = "macos" => \A f \in interest[s] : udata[s][f] = asked[s].data
         /\ port = "lwip" => s <= max_fd

\* The counts beside the sets, which say whether a set is passed to select, are
\* those of the entries, also when a socket is in two slots.
CountsMatchEntries ==
  valid /\ port \in SelectPorts =>
    \A f \in Filters :
      count[f] = IF port = "windows"
                 THEN Cardinality({s \in Sockets : tree[s] # None /\ f \in FiltersOf(tree[s].events)})
                 ELSE Cardinality({i \in Slots \ Holes : f \in FiltersOf(slots[i].events)})

\* Every variable has its type, and a port keeps to its own structure.
TypeOK ==
  /\ port \in TreePorts \cup SlotPorts /\ valid \in BOOLEAN /\ disturbed \in BOOLEAN
  /\ tree \in [Sockets -> Entries \cup {None}]
  /\ slots \in [Slots -> Entries \cup {None}]
  /\ interest \in [Sockets -> SUBSET Filters]
  /\ udata \in [Sockets -> [Filters -> Data \cup {None}]]
  /\ count \in [Filters -> Int] /\ max_fd \in Int
  /\ waiting \in [Sockets -> SUBSET Filters] \cup {None}
  /\ open \subseteq Sockets /\ doubtful \subseteq Sockets
  /\ asked \in [Sockets -> Asks \cup {None}]
  /\ IF port \in TreePorts THEN slots = NoSlots ELSE tree = NoTree

\* A tree always holds what was asked; so does an array, but for a socket in doubt,
\* which may be in several slots, and then the system watches for no more than these.
TreeHolds(s) == tree[s] = IF asked[s] = None THEN None ELSE Entry(s, asked[s])

SlotsHold(s) ==
  /\ asked[s] # None => Find(s) # {}
  /\ \A f \in interest[s] : \E i \in Find(s) : f \in FiltersOf(slots[i].events)
  /\ s \notin doubtful => \A i \in Find(s) :
       asked[s] # None /\ Find(s) = {i} /\ slots[i] = Entry(s, asked[s])

SystemWatches(s) ==
  IF asked[s] = None THEN interest[s] = {}
  ELSE /\ interest[s] = FiltersOf(asked[s].events)
       /\ port = "macos" => s \in open /\ \A f \in interest[s] : udata[s][f] = asked[s].data
       /\ port = "lwip" => s <= max_fd

InOrder(s) ==
  /\ IF port \in TreePorts THEN TreeHolds(s) ELSE SlotsHold(s)
  /\ s \notin doubtful => SystemWatches(s)

\* Until a socket is removed, what a wait on Windows has copied is still asked for.
WaitsForAsked ==
  waiting # None =>
    /\ valid /\ port = "windows"
    /\ ~disturbed => \A s \in Sockets : waiting[s] # {} => asked[s] # None \/ s \in doubtful

\* What OsWatchesWhatWasAsked and the promises of PollApi rest on, inductive.
PollInv ==
  /\ TypeOK /\ WaitsForAsked /\ CountsMatchEntries
  /\ valid => \A s \in Sockets : InOrder(s)

\* Every filter that kqueue knows was added with user data.
FiltersHaveData ==
  port = "macos" => \A s \in Sockets : \A f \in interest[s] : udata[s][f] \in Data

\* Every port does what socket.dox says of the poll functions.
Api == INSTANCE PollApi WITH
  watched <- asked, capacity <- MaxPoll, waiting <- (waiting # None),
  polls <- IF port = "mqx" THEN Events \ {"oob"} ELSE Events

ImplementsApi == Api!Spec
====
