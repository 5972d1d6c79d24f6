---- MODULE SocketProofs ----
(***************************************************************************)
(* Poll contexts, the control messages of sockets, their options and the   *)
(* calls on them, for every port and any values of their constants.        *)
(*                                                                         *)
(* PollInv is inductive.  A call concerns one socket: OthersStay says that *)
(* the rest are as they were, so each call has only its own socket to put  *)
(* in order (CallOnOne).  The tree or the array has what was asked for,    *)
(* the system watches it, the counts beside the fd_sets are those of the   *)
(* entries, and a wait on Windows has copied nothing else.  From that each *)
(* step of a port is one that PollApi allows.                              *)
(*                                                                         *)
(* ControlInv: the caller's memory begins with the control messages of the *)
(* datagram that was received last, as far as they fit, and what is left   *)
(* over from earlier ones is behind them.                                  *)
(*                                                                         *)
(* OptionsInv: no two interfaces have one address, so that the detour by   *)
(* the address comes back to the interface; and the system's value of an   *)
(* option is the converted form of what was set.                           *)
(*                                                                         *)
(* CallsInv: what the application asked of a socket is how the system's    *)
(* flags are, and where pd[0] and pd[1] point is what it has seen.         *)
(***************************************************************************)
EXTENDS Traffic, CountingLemmas

----
(***************************************************************************)
(* Poll contexts.                                                          *)
(***************************************************************************)

\* The instances count as we do.
LEMMA SameNumbers ==
  /\ \A S : Poll!IsFiniteSet(S) <=> IsFiniteSet(S)
  /\ \A S : Poll!Cardinality(S) = Cardinality(S)
  /\ \A S : Poll!Api!IsFiniteSet(S) <=> IsFiniteSet(S)
  /\ \A S : Poll!Api!Cardinality(S) = Cardinality(S)
BY DEF Poll!IsFiniteSet, Poll!Cardinality, IsFiniteSet, Cardinality,
   Poll!Api!IsFiniteSet, Poll!Api!Cardinality

\* A bounded set of numbers has a greatest element.
LEMMA HasGreatest ==
  ASSUME NEW m \in Nat, NEW T \in SUBSET (0 .. m), T # {}
  PROVE  \E x \in T : \A y \in T : x >= y
<1> DEFINE D == {m - x : x \in T}
<1>1. \A x \in T : x \in Nat /\ m - x \in Nat
  OBVIOUS
<1>2. D \in SUBSET Nat /\ D # {}
  BY <1>1
<1>3. PICK d \in D : \A e \in D : d <= e
  <2> HIDE DEF D
  <2> QED
    BY <1>2, HasLeast
<1>4. PICK x \in T : d = m - x
  BY <1>3
<1>5. \A y \in T : m - x <= m - y
  BY <1>3, <1>4
<1> QED
  BY <1>1, <1>4, <1>5

\* The first of some slots is one of them.
LEMMA FirstIsOne ==
  ASSUME MaxPoll \in Nat, NEW T \in SUBSET Poll!Slots, T # {}
  PROVE  Poll!FirstOf(T) \in T
<1>1. T \in SUBSET Nat
  BY DEF Poll!Slots
<1>2. \E i \in T : \A j \in T : i <= j
  BY <1>1, HasLeast
<1> QED
  BY <1>2 DEF Poll!FirstOf

LEMMA FirstOfOne ==
  ASSUME NEW i \in Poll!Slots, MaxPoll \in Nat
  PROVE  Poll!FirstOf({i}) = i
BY FirstIsOne

\* Every set of events that a call names becomes some filters, but on MQX.
LEMMA SomeFilters ==
  ASSUME Poll!PollAssumption, NEW p \in Poll!TreePorts \cup Poll!SlotPorts, NEW events \in EventSets
  PROVE  /\ Poll!FiltersOn(p, events) \subseteq Poll!Filters
         /\ p # "mqx" => Poll!FiltersOn(p, events) # {}
         /\ p = "mqx" /\ events \cap (Poll!Events \ {"oob"}) # {} => Poll!FiltersOn(p, events) # {}
<1>1. \E e \in Poll!Events : e \in events
  BY DEF Poll!PollAssumption
<1>2. CASE p \in {"linux", "macos"}
  BY <1>1, <1>2 DEF Poll!FiltersOn, Poll!EpollFilters, Poll!Readable, Poll!Writable,
     Poll!Filters, Poll!Events
<1>3. CASE p = "windows"
  BY <1>1, <1>3 DEF Poll!FiltersOn, Poll!WindowsFilters, Poll!Readable, Poll!Writable,
     Poll!Filters, Poll!Events
<1>4. CASE p = "lwip"
  BY <1>1, <1>4 DEF Poll!FiltersOn, Poll!LwipFilters, Poll!Readable, Poll!Writable,
     Poll!Filters, Poll!Events
<1>5. CASE p = "mqx"
  BY <1>1, <1>5 DEF Poll!FiltersOn, Poll!MqxFilters, Poll!Readable, Poll!Writable,
     Poll!Filters, Poll!Events
<1> QED
  BY <1>2, <1>3, <1>4, <1>5 DEF Poll!TreePorts, Poll!SlotPorts

----
\* A step that changes what is kept of s, and in the array only slots that are
\* free or of s, leaves the other sockets in order.
OnlyOf(s, entry) == entry = None \/ entry.sock = s

Concerns(s) ==
  /\ poll_port' = poll_port
  /\ \A t \in Sockets \ {s} :
       /\ tree'[t] = tree[t] /\ interest'[t] = interest[t] /\ udata'[t] = udata[t]
       /\ asked'[t] = asked[t]
       /\ t \in doubtful => t \in doubtful'
       /\ t \in open => t \in open'
       /\ poll_port = "lwip" /\ t <= max_fd /\ asked[t] # None /\ t \notin doubtful => t <= max_fd'
  /\ \A i \in Poll!Slots : slots'[i] = slots[i] \/ (OnlyOf(s, slots[i]) /\ OnlyOf(s, slots'[i]))

LEMMA OthersStay ==
  ASSUME NEW s, Concerns(s), NEW t \in Sockets \ {s}, Poll!InOrder(t)
  PROVE  Poll!InOrder(t)'
<1>1. \A i \in Poll!Slots : (slots'[i] # None /\ slots'[i].sock = t) <=>
                       (slots[i] # None /\ slots[i].sock = t)
  BY DEF Concerns, OnlyOf
<1>2. Poll!Find(t)' = Poll!Find(t)
  BY <1>1 DEF Poll!Find
<1>3. \A i \in Poll!Find(t) : slots'[i] = slots[i]
  BY DEF Concerns, OnlyOf, Poll!Find
<1>4. Poll!SystemWatches(t) /\ t \notin doubtful => Poll!SystemWatches(t)'
  BY DEF Concerns, Poll!SystemWatches, Poll!FiltersOf
<1>5. Poll!TreeHolds(t) => Poll!TreeHolds(t)'
  BY DEF Concerns, Poll!TreeHolds
<1>6. Poll!SlotsHold(t) => Poll!SlotsHold(t)'
  <2> SUFFICES ASSUME Poll!SlotsHold(t) PROVE Poll!SlotsHold(t)'
    OBVIOUS
  <2>1. asked'[t] = asked[t] /\ interest'[t] = interest[t] /\ poll_port' = poll_port
    BY DEF Concerns
  <2>2. \A f \in interest[t] : \E i \in Poll!Find(t) : f \in Poll!FiltersOn(poll_port', slots'[i].events)
    BY <1>3, <2>1 DEF Poll!SlotsHold, Poll!FiltersOf
  <2>3. t \notin doubtful' => \A i \in Poll!Find(t) :
          asked[t] # None /\ Poll!Find(t) = {i} /\ slots'[i] = Poll!Entry(t, asked[t])
    BY <1>3 DEF Concerns, Poll!SlotsHold
  <2> HIDE DEF Poll!Find
  <2> QED
    BY <1>2, <2>1, <2>2, <2>3 DEF Poll!SlotsHold, Poll!FiltersOf, Poll!Entry
<1> QED
  BY <1>4, <1>5, <1>6 DEF Poll!InOrder, Concerns

----
\* The counts beside the fd_sets, by filter.
With(p, f) == {entry \in Poll!Entries : f \in Poll!FiltersOn(p, entry.events)}
Counted(p, in_tree, in_slots, f) ==
  IF p = "windows" THEN Tally(Sockets, in_tree, With(p, f))
  ELSE Tally(Poll!Slots, in_slots, With(p, f))

\* CountsMatchEntries says so in this state, and in the next one.
LEMMA CountsAre ==
  ASSUME Poll!PollAssumption, Poll!TypeOK, valid, poll_port \in Poll!SelectPorts
  PROVE  Poll!CountsMatchEntries <=> \A f \in Poll!Filters : count[f] = Counted(poll_port, tree, slots, f)
<1>1. ASSUME NEW f
      PROVE  Standing(Sockets, tree, With(poll_port, f)) =
               {s \in Sockets : tree[s] # None /\ f \in Poll!FiltersOf(tree[s].events)}
  BY DEF Standing, With, Poll!PollAssumption, Poll!TypeOK, Poll!FiltersOf
<1>2. ASSUME NEW f
      PROVE  Standing(Poll!Slots, slots, With(poll_port, f)) =
               {i \in Poll!Slots \ Poll!Holes : f \in Poll!FiltersOf(slots[i].events)}
  BY DEF Standing, With, Poll!PollAssumption, Poll!TypeOK, Poll!FiltersOf, Poll!Holes
<1> QED
  BY <1>1, <1>2, SameNumbers DEF Poll!CountsMatchEntries, Counted, Tally

LEMMA CountsAreNext ==
  ASSUME Poll!PollAssumption, Poll!TypeOK', \A f \in Poll!Filters : count'[f] = Counted(poll_port', tree', slots',
         f)
  PROVE  Poll!CountsMatchEntries'
<1>1. ASSUME NEW f
      PROVE  Standing(Sockets, tree', With(poll_port', f)) =
               {s \in Sockets : tree'[s] # None /\ f \in Poll!FiltersOf(tree[s].events)'}
  BY DEF Standing, With, Poll!PollAssumption, Poll!TypeOK, Poll!FiltersOf
<1>2. ASSUME NEW f
      PROVE  Standing(Poll!Slots, slots', With(poll_port', f)) =
               {i \in Poll!Slots \ Poll!Holes' : f \in Poll!FiltersOf(slots[i].events)'}
  BY DEF Standing, With, Poll!PollAssumption, Poll!TypeOK, Poll!FiltersOf, Poll!Holes
<1> QED
  BY <1>1, <1>2, SameNumbers DEF Poll!CountsMatchEntries, Counted, Tally

LEMMA SlotsAreFinite == ASSUME MaxPoll \in Nat PROVE IsFiniteSet(Poll!Slots)
BY FS_Interval DEF Poll!Slots

\* The count that follows an entry which is now what was another, or None.
Follows(n, was, now, S) ==
  IF was \in S THEN IF now \in S THEN n ELSE n - 1
  ELSE IF now \in S THEN n + 1 ELSE n

\* The counts stay right when one place of the tree or the array is put to another use
\* and they follow it.
LEMMA CountsFollow ==
  ASSUME Poll!PollAssumption, Poll!TypeOK, Poll!TypeOK', Poll!CountsMatchEntries, valid, poll_port' = poll_port,
         NEW x, NEW was, NEW now,
         \/ /\ poll_port = "windows" /\ x \in Sockets /\ was = tree[x] /\ now = tree'[x]
            /\ OnlyMoves(Sockets, tree, tree', x)
         \/ /\ poll_port \in Poll!SlotPorts /\ x \in Poll!Slots /\ was = slots[x] /\ now = slots'[x]
            /\ OnlyMoves(Poll!Slots, slots, slots', x),
         \A f \in Poll!Filters : count'[f] = Follows(count[f], was, now, With(poll_port, f))
  PROVE  Poll!CountsMatchEntries'
<1>1. poll_port \in Poll!SelectPorts
  BY DEF Poll!SelectPorts, Poll!SlotPorts
<1>2. \A f \in Poll!Filters : count[f] = Counted(poll_port, tree, slots, f)
  BY <1>1, CountsAre
<1>3. \A f \in Poll!Filters : Counted(poll_port, tree', slots', f)
                            = Follows(Counted(poll_port, tree, slots, f), was, now, With(poll_port, f))
  <2>1. IsFiniteSet(Sockets) /\ IsFiniteSet(Poll!Slots)
    BY SlotsAreFinite, SameNumbers DEF Poll!PollAssumption
  <2> QED
    BY <2>1, TallyMoves DEF Counted, Follows, Poll!SlotPorts
<1>4. \A f \in Poll!Filters : count'[f] = Counted(poll_port', tree', slots', f)
  BY <1>2, <1>3
<1> QED
  BY <1>4, CountsAreNext

----
\* What is left to show of a call on s.
Answers(s) ==
  \/ waiting = None \/ disturbed'
  \/ disturbed' = disturbed /\ doubtful \subseteq doubtful' /\ (asked'[s] = None =>
     asked[s] = None)

LEMMA CallOnOne ==
  ASSUME Poll!PollInv, NEW s \in Sockets, Poll!Call, Concerns(s), Answers(s),
         Poll!TypeOK', Poll!CountsMatchEntries', Poll!InOrder(s)'
  PROVE  Poll!PollInv'
<1>1. \A t \in Sockets : Poll!InOrder(t)'
  BY OthersStay DEF Poll!PollInv, Poll!Call
<1>2. Poll!WaitsForAsked'
  BY DEF Poll!PollInv, Poll!WaitsForAsked, Poll!Call, Answers, Concerns
<1> QED
  BY <1>1, <1>2 DEF Poll!PollInv

\* A refused call changes nothing.
LEMMA RefusedCall ==
  ASSUME Poll!PollInv, NEW s \in Sockets, Poll!Call, NEW result, result # "Ok",
         Poll!Refuse(s, result)
  PROVE  Poll!PollInv'
<1>1. UNCHANGED <<poll_port, valid, tree, slots, count, max_fd, interest, udata, waiting, open,
                  asked, doubtful, disturbed>>
  BY DEF Poll!Call, Poll!Refuse, Poll!Asked, Poll!Certain, Poll!context, Poll!kernel,
     Poll!Said
<1>2. Poll!TypeOK' /\ Poll!WaitsForAsked'
  BY <1>1 DEF Poll!PollInv, Poll!TypeOK, Poll!WaitsForAsked
<1>3. Poll!CountsMatchEntries'
  BY <1>1 DEF Poll!PollInv, Poll!CountsMatchEntries, Poll!FiltersOf, Poll!Holes
<1>4. \A t \in Sockets : Poll!InOrder(t) => Poll!InOrder(t)'
  BY <1>1 DEF Poll!InOrder, Poll!TreeHolds, Poll!SlotsHold, Poll!SystemWatches,
     Poll!FiltersOf, Poll!Find
<1> QED
  BY <1>1, <1>2, <1>3, <1>4 DEF Poll!PollInv

LEMMA TreeCallsRefused ==
  ASSUME Poll!PollInv, NEW s \in Sockets, NEW ask \in Poll!Asks,
         Poll!TreeAddRefused(s, ask) \/ Poll!TreeModifyRefused(s, ask) \/ Poll!EpollRollBack(s, ask)
  PROVE  Poll!PollInv'
BY RefusedCall DEF Poll!TreeAddRefused, Poll!TreeModifyRefused, Poll!EpollRollBack

\* What calls name and put into the tree or the array.
LEMMA AsksAreEntries ==
  ASSUME Poll!PollAssumption, NEW s \in Sockets, NEW ask \in Poll!Asks
  PROVE  /\ ask # None /\ Poll!Entry(s, ask) # None /\ Poll!Entry(s, ask) \in Poll!Entries
         /\ Poll!Entry(s, ask).sock = s /\ Poll!Entry(s, ask).events = ask.events
         /\ ask.events \in EventSets /\ ask.data \in Items /\ ask.events \subseteq Poll!Events
BY DEF Poll!PollAssumption, Poll!Asks, Poll!Entries, Poll!Entry

\* The translation of events, port by port.
LEMMA FiltersByPort ==
  ASSUME NEW events
  PROVE  /\ Poll!FiltersOn("linux", events) = Poll!EpollFilters(events)
         /\ Poll!FiltersOn("macos", events) = Poll!EpollFilters(events)
         /\ Poll!FiltersOn("windows", events) = Poll!WindowsFilters(events)
         /\ Poll!FiltersOn("lwip", events) = Poll!LwipFilters(events)
         /\ Poll!FiltersOn("mqx", events) = Poll!MqxFilters(events)
BY DEF Poll!FiltersOn

\* What the tree tells of a socket.
LEMMA TreeTells ==
  ASSUME Poll!PollAssumption, Poll!PollInv, valid, poll_port \in Poll!TreePorts, NEW s \in Sockets
  PROVE  /\ tree[s] = None <=> asked[s] = None
         /\ tree[s] # None => asked[s] \in Poll!Asks /\ tree[s] = Poll!Entry(s, asked[s])
                              /\ tree[s].events = asked[s].events /\ tree[s].data = asked[s].data
         /\ s \notin doubtful =>
              interest[s] = IF tree[s] = None THEN {} ELSE Poll!FiltersOn(poll_port, tree[s].events)
<1>1. Poll!TreeHolds(s) /\ (s \notin doubtful => Poll!SystemWatches(s)) /\ asked[s] \in Poll!Asks \cup {None}
  BY DEF Poll!PollInv, Poll!InOrder, Poll!TypeOK
<1>2. CASE asked[s] = None
  BY <1>1, <1>2 DEF Poll!TreeHolds, Poll!SystemWatches
<1>3. CASE asked[s] # None
  <2>1. tree[s] = Poll!Entry(s, asked[s]) /\ tree[s] # None
    BY <1>1, <1>3, AsksAreEntries DEF Poll!TreeHolds
  <2>2. tree[s].events = asked[s].events /\ tree[s].data = asked[s].data
    BY <2>1 DEF Poll!Entry
  <2> QED
    BY <1>1, <1>3, <2>1, <2>2 DEF Poll!SystemWatches, Poll!FiltersOf
<1> QED
  BY <1>2, <1>3

\* Linux: what epoll_ctl did is in the tree, or nothing was done.
LEMMA EpollKeeps ==
  ASSUME Poll!PollAssumption, Poll!PollInv, NEW s \in Sockets, NEW ask \in Poll!Asks,
         Poll!EpollAdd(s, ask) \/ (Poll!EpollModify(s, ask) /\ ~Poll!Refuse(s, "OsError"))
  PROVE  Poll!PollInv'
<1>1. /\ poll_port = "linux" /\ Poll!Call /\ UNCHANGED <<slots, count, max_fd, udata>>
      /\ tree' = [tree EXCEPT ![s] = Poll!Entry(s, ask)]
      /\ interest' = [interest EXCEPT ![s] = Poll!EpollFilters(ask.events)]
      /\ asked' = [asked EXCEPT ![s] = ask] /\ UNCHANGED <<doubtful, disturbed>>
  BY DEF Poll!EpollAdd, Poll!EpollModify, Poll!Insert, Poll!Asked, Poll!Certain
<1>2. Poll!EpollFilters(ask.events) = Poll!FiltersOn("linux", ask.events)
  BY DEF Poll!FiltersOn
<1>3. Poll!FiltersOn("linux", ask.events) \subseteq Poll!Filters
  BY SomeFilters, AsksAreEntries DEF Poll!TreePorts
<1>4. Poll!TypeOK'
  BY <1>1, <1>2, <1>3, AsksAreEntries DEF Poll!PollInv, Poll!TypeOK, Poll!Call,
     Poll!TreePorts
<1>5. Concerns(s)
  BY <1>1 DEF Poll!PollInv, Poll!TypeOK, Concerns, Poll!Call
<1>6. Poll!CountsMatchEntries'
  BY <1>1 DEF Poll!CountsMatchEntries, Poll!Call, Poll!SelectPorts
<1>7. Poll!InOrder(s)'
  BY <1>1, <1>2, AsksAreEntries DEF Poll!PollInv, Poll!TypeOK, Poll!InOrder, Poll!TreeHolds,
     Poll!SystemWatches,
     Poll!FiltersOf,
     Poll!Call, Poll!TreePorts, Poll!Entry
<1>8. Answers(s)
  BY <1>1, AsksAreEntries DEF Poll!PollInv, Poll!TypeOK, Answers
<1> QED
  BY <1>1, <1>4, <1>5, <1>6, <1>7, <1>8, CallOnOne

LEMMA EpollModifyKeeps ==
  ASSUME Poll!PollAssumption, Poll!PollInv, NEW s \in Sockets, NEW ask \in Poll!Asks, Poll!EpollModify(s, ask)
  PROVE  Poll!PollInv'
BY EpollKeeps, RefusedCall DEF Poll!EpollModify

\* A socket that is forgotten leaves nothing behind, or stays in doubt.
LEMMA EpollRemoveKeeps ==
  ASSUME Poll!PollAssumption, Poll!PollInv, NEW s \in Sockets, Poll!EpollRemove(s)
  PROVE  Poll!PollInv'
<1>1. /\ poll_port = "linux" /\ Poll!Call /\ UNCHANGED <<slots, count, max_fd, udata>>
      /\ tree' = [tree EXCEPT ![s] = None]
      /\ interest' = [interest EXCEPT ![s] = {}]
      /\ asked' = [asked EXCEPT ![s] = None]
      /\ doubtful \ {s} \subseteq doubtful' /\ doubtful' \subseteq doubtful
      /\ disturbed' = (waiting # None)
  BY DEF Poll!EpollRemove, Poll!Forgotten
<1>2. Poll!TypeOK'
  BY <1>1 DEF Poll!PollInv, Poll!TypeOK, Poll!Call, Poll!TreePorts
<1>3. Concerns(s)
  BY <1>1 DEF Poll!PollInv, Poll!TypeOK, Concerns, Poll!Call
<1>4. Poll!CountsMatchEntries'
  BY <1>1 DEF Poll!CountsMatchEntries, Poll!Call, Poll!SelectPorts
<1>5. Poll!InOrder(s)'
  BY <1>1 DEF Poll!PollInv, Poll!TypeOK, Poll!InOrder, Poll!TreeHolds, Poll!SystemWatches,
     Poll!Call, Poll!TreePorts
<1>6. Answers(s)
  BY <1>1 DEF Answers
<1> QED
  BY <1>1, <1>2, <1>3, <1>4, <1>5, <1>6, CallOnOne

----
\* macOS: the list of changes adds the filters of the new events and deletes the
\* rest of the old ones.
ChangesOfKqueue == [filter : Poll!Filters, add : BOOLEAN]
AddOf(f) == [filter |-> f, add |-> TRUE]
DeleteOf(f) == [filter |-> f, add |-> FALSE]
In(q) == {q[i] : i \in 1 .. Len(q)}

LEMMA InConcat ==
  ASSUME NEW S, NEW q \in Seq(S), NEW r \in Seq(S)
  PROVE  In(q \o r) = In(q) \cup In(r)
<1>1. q \o r \in Seq(S) /\ Len(q \o r) = Len(q) + Len(r) /\ Len(q) \in Nat /\ Len(r) \in Nat
  OBVIOUS
<1>2. \A i \in 1 .. Len(q \o r) :
        (q \o r)[i] = IF i <= Len(q) THEN q[i] ELSE r[i - Len(q)]
  OBVIOUS
<1>3. In(q \o r) \subseteq In(q) \cup In(r)
  BY <1>1, <1>2 DEF In
<1>4. ASSUME NEW i \in 1 .. Len(q) PROVE q[i] \in In(q \o r)
  BY <1>1, <1>2 DEF In
<1>5. ASSUME NEW i \in 1 .. Len(r) PROVE r[i] \in In(q \o r)
  <2>1. i + Len(q) \in 1 .. Len(q \o r) /\ (q \o r)[i + Len(q)] = r[i]
    BY <1>1, <1>2
  <2> QED
    BY <2>1 DEF In
<1> QED
  BY <1>3, <1>4, <1>5 DEF In

LEMMA ChangesAre ==
  ASSUME NEW s, NEW old, NEW new
  PROVE  /\ Poll!Changes(s, old, new) \in Seq(ChangesOfKqueue)
         /\ In(Poll!Changes(s, old, new)) =
              {AddOf(f) : f \in Poll!EpollFilters(new)}
                \cup {DeleteOf(f) : f \in Poll!EpollFilters(old) \ Poll!EpollFilters(new)}
<1> DEFINE List(f) == IF f \in Poll!EpollFilters(new) THEN << [filter |-> f, add |-> TRUE] >>
                      ELSE IF f \in Poll!EpollFilters(old) THEN << [filter |-> f, add |-> FALSE] >>
                      ELSE << >>
<1>1. ASSUME NEW f \in Poll!Filters
      PROVE  /\ List(f) \in Seq(ChangesOfKqueue)
             /\ In(List(f)) = IF f \in Poll!EpollFilters(new) THEN {AddOf(f)}
                              ELSE IF f \in Poll!EpollFilters(old) THEN {DeleteOf(f)} ELSE {}
  <2>1. AddOf(f) \in ChangesOfKqueue /\ DeleteOf(f) \in ChangesOfKqueue
    BY DEF ChangesOfKqueue, AddOf, DeleteOf
  <2>2. \A x : In(<<x>>) = {x}
    BY DEF In
  <2>3. In(<< >>) = {}
    BY DEF In
  <2>4. List(f) = IF f \in Poll!EpollFilters(new) THEN <<AddOf(f)>>
                  ELSE IF f \in Poll!EpollFilters(old) THEN <<DeleteOf(f)>> ELSE << >>
    BY DEF AddOf, DeleteOf
  <2> HIDE DEF List
  <2>5. <<AddOf(f)>> \in Seq(ChangesOfKqueue) /\ <<DeleteOf(f)>> \in Seq(ChangesOfKqueue)
        /\ << >> \in Seq(ChangesOfKqueue)
    BY <2>1
  <2> QED
    BY <2>2, <2>3, <2>4, <2>5
<1>2. Poll!Changes(s, old, new) = (List("read") \o List("write")) \o List("except")
  BY DEF Poll!Changes
<1>3. "read" \in Poll!Filters /\ "write" \in Poll!Filters /\ "except" \in Poll!Filters
  BY DEF Poll!Filters
<1>4. \A events : Poll!EpollFilters(events) \subseteq {"read", "write", "except"}
  BY DEF Poll!EpollFilters, Poll!Readable, Poll!Writable
<1> HIDE DEF List
<1>5. List("read") \in Seq(ChangesOfKqueue) /\ List("write") \in Seq(ChangesOfKqueue)
      /\ List("except") \in Seq(ChangesOfKqueue)
  BY <1>1, <1>3
<1>6. List("read") \o List("write") \in Seq(ChangesOfKqueue)
  BY <1>5
<1>7. Poll!Changes(s, old, new) \in Seq(ChangesOfKqueue)
  BY <1>2, <1>5, <1>6
<1>8. In(List("read") \o List("write")) = In(List("read")) \cup In(List("write"))
  BY <1>5, InConcat
<1>9. In(Poll!Changes(s, old, new)) = In(List("read") \o List("write")) \cup In(List("except"))
  <2> DEFINE first == List("read") \o List("write")
             last  == List("except")
  <2>1. first \in Seq(ChangesOfKqueue) /\ last \in Seq(ChangesOfKqueue)
    BY <1>5, <1>6
  <2>2. Poll!Changes(s, old, new) = first \o last
    BY <1>2
  <2> HIDE DEF first, last
  <2>3. In(first \o last) = In(first) \cup In(last)
    BY <2>1, InConcat
  <2>4. In(Poll!Changes(s, old, new)) = In(first) \cup In(last)
    BY <2>2, <2>3
  <2> QED
    BY <2>4 DEF first, last
<1>10. \A x : x \in In(Poll!Changes(s, old, new)) <=>
         \E f \in {"read", "write", "except"} : x \in In(List(f))
  BY <1>8, <1>9
<1>11. \A x : x \in In(Poll!Changes(s, old, new)) <=>
         x \in {AddOf(f) : f \in Poll!EpollFilters(new)}
                \cup {DeleteOf(f) : f \in Poll!EpollFilters(old) \ Poll!EpollFilters(new)}
  BY <1>1, <1>3, <1>4, <1>10
<1> QED
  BY <1>7, <1>11

\* What kevent does with some of the changes, and with all of them.
LEMMA KeventSome ==
  ASSUME Poll!TypeOK, poll_port' = poll_port, NEW s \in Sockets, NEW q \in Seq(ChangesOfKqueue),
         NEW n \in 0 .. Len(q),
         NEW told \in Items \cup {None}, Poll!Kevent(s, q, n, told)
  PROVE  /\ interest' \in [Sockets -> SUBSET Poll!Filters]
         /\ udata' \in [Sockets -> [Poll!Filters -> Items \cup {None}]]
         /\ \A t \in Sockets \ {s} : interest'[t] = interest[t] /\ udata'[t] = udata[t]
<1>1. \A i \in 1 .. n : q[i] \in ChangesOfKqueue
  OBVIOUS
<1>2. \A i \in 1 .. n : q[i].filter \in Poll!Filters
  BY <1>1 DEF ChangesOfKqueue
<1> QED
  BY <1>2 DEF Poll!TypeOK, Poll!Kevent

LEMMA KeventAll ==
  ASSUME Poll!TypeOK, NEW s \in Sockets, NEW old, NEW new, NEW told,
         Poll!Kevent(s, Poll!Changes(s, old, new), Len(Poll!Changes(s, old, new)), told)
  PROVE  /\ interest'[s] = (interest[s] \cup Poll!EpollFilters(new))
                            \ (Poll!EpollFilters(old) \ Poll!EpollFilters(new))
         /\ \A f \in Poll!EpollFilters(new) : udata'[s][f] = told
<1> DEFINE q == Poll!Changes(s, old, new)
           done(add) == {q[i].filter : i \in {j \in 1 .. Len(q) : q[j].add = add}}
<1>1. \A add : done(add) = {c.filter : c \in {d \in In(q) : d.add = add}}
  BY DEF In
<1>2. Poll!EpollFilters(new) \subseteq Poll!Filters
  BY DEF Poll!EpollFilters, Poll!Readable, Poll!Writable, Poll!Filters
<1>3. \A f : AddOf(f).add = TRUE /\ AddOf(f).filter = f
            /\ DeleteOf(f).add = FALSE /\ DeleteOf(f).filter = f
  BY DEF AddOf, DeleteOf
<1> HIDE DEF done, q
<1>7. In(q) = {AddOf(f) : f \in Poll!EpollFilters(new)}
                \cup {DeleteOf(f) : f \in Poll!EpollFilters(old) \ Poll!EpollFilters(new)}
  BY ChangesAre DEF q
<1>4. done(TRUE) = Poll!EpollFilters(new)
  <2>1. done(TRUE) = {c.filter : c \in {d \in In(q) : d.add = TRUE}}
    BY <1>1
  <2>2. {d \in In(q) : d.add = TRUE} = {AddOf(f) : f \in Poll!EpollFilters(new)}
    BY <1>3, <1>7
  <2>3. \A x : x \in done(TRUE) <=> \E f \in Poll!EpollFilters(new) : x = AddOf(f).filter
    BY <2>1, <2>2
  <2>4. \A x : x \in done(TRUE) <=> x \in Poll!EpollFilters(new)
    BY <2>3 DEF AddOf, DeleteOf
  <2> QED
    BY <2>4
<1>5. done(FALSE) = Poll!EpollFilters(old) \ Poll!EpollFilters(new)
  <2>1. done(FALSE) = {c.filter : c \in {d \in In(q) : d.add = FALSE}}
    BY <1>1
  <2>2. {d \in In(q) : d.add = FALSE} = {DeleteOf(f) :
        f \in Poll!EpollFilters(old) \ Poll!EpollFilters(new)}
    BY <1>3, <1>7
  <2>3. \A x : x \in done(FALSE) <=> \E f \in Poll!EpollFilters(old) \ Poll!EpollFilters(new) :
        x = DeleteOf(f).filter
    BY <2>1, <2>2
  <2>4. \A x : x \in done(FALSE) <=> x \in Poll!EpollFilters(old) \ Poll!EpollFilters(new)
    BY <2>3 DEF AddOf, DeleteOf
  <2> QED
    BY <2>4
<1>6. /\ interest' = [interest EXCEPT ![s] = (@ \cup done(TRUE)) \ done(FALSE)]
      /\ udata' = [udata EXCEPT ![s] = [f \in Poll!Filters |-> IF f \in done(TRUE) THEN told
                                                         ELSE IF f \in done(FALSE) THEN None
                                                         ELSE udata[s][f]]]
  BY DEF Poll!Kevent, done, q
<1> QED
  BY <1>2, <1>4, <1>5, <1>6 DEF Poll!TypeOK

\* Only an open socket gets every change that was asked for.
LEMMA AllDoneIsOpen ==
  ASSUME Poll!PollAssumption, NEW s \in Sockets, NEW old, NEW ask \in Poll!Asks,
         Len(Poll!Changes(s, old, ask.events)) \in Poll!Done(s, Poll!Changes(s, old, ask.events))
  PROVE  s \in open
<1> DEFINE q == Poll!Changes(s, old, ask.events)
<1>1. PICK f : f \in Poll!EpollFilters(ask.events)
  <2>1. Poll!FiltersOn("macos", ask.events) # {}
    BY SomeFilters, AsksAreEntries DEF Poll!TreePorts
  <2> QED
    BY <2>1 DEF Poll!FiltersOn
<1>2. q \in Seq(ChangesOfKqueue) /\ AddOf(f) \in In(q)
  BY <1>1, ChangesAre
<1> HIDE DEF q
<1>3. PICK i \in 1 .. Len(q) : q[i] = AddOf(f)
  BY <1>2 DEF In
<1>4. ~Poll!MustFail(s, q[i])
  BY <1>3 DEF Poll!Done, q
<1> QED
  BY <1>4 DEF Poll!MustFail

\* Without old events nothing is deleted, and without new ones nothing added.
LEMMA NoEventsNoFilters == Poll!EpollFilters({}) = {}
BY DEF Poll!EpollFilters, Poll!Readable, Poll!Writable

\* A call whose changes were made in part leaves the tree alone and the socket in doubt.
LEMMA KqueueHalf ==
  ASSUME Poll!PollAssumption, Poll!PollInv, NEW s \in Sockets, NEW old, NEW ask \in Poll!Asks,
         poll_port = "macos", Poll!Call,
         NEW n \in Poll!Done(s, Poll!Changes(s, old, ask.events)),
         Poll!Kevent(s, Poll!Changes(s, old, ask.events), n, ask.data),
         UNCHANGED <<tree, slots, count, max_fd>>, Poll!Asked(s, ask, "OsError"),
         IF n = 0 THEN Poll!Certain ELSE Poll!Doubt(s)
  PROVE  Poll!PollInv'
<1> DEFINE q == Poll!Changes(s, old, ask.events)
<1>1. q \in Seq(ChangesOfKqueue) /\ n \in 0 .. Len(q)
  BY ChangesAre DEF Poll!Done
<1>2. /\ poll_port' = poll_port /\ UNCHANGED <<tree, slots, count, max_fd, asked, disturbed, open,
                                               waiting, valid>>
      /\ doubtful' \in SUBSET Sockets /\ doubtful \subseteq doubtful'
  BY DEF Poll!Call, Poll!Asked, Poll!Certain, Poll!Doubt, Poll!PollInv, Poll!TypeOK
<1>3. /\ interest' \in [Sockets -> SUBSET Poll!Filters]
      /\ udata' \in [Sockets -> [Poll!Filters -> Items \cup {None}]]
      /\ \A t \in Sockets \ {s} : interest'[t] = interest[t] /\ udata'[t] = udata[t]
  BY <1>1, <1>2, AsksAreEntries, KeventSome DEF Poll!PollInv
<1>4. s \in doubtful' \/ /\ interest'[s] = interest[s]
                          /\ \A f \in Poll!Filters : udata'[s][f] = udata[s][f]
  <2>1. CASE n = 0
    <3>1. \A add : {q[i].filter : i \in {j \in 1 .. n : q[j].add = add}} = {}
      BY <2>1
    <3>2. /\ interest' = [interest EXCEPT ![s] = (@ \cup {}) \ {}]
          /\ udata' = [udata EXCEPT ![s] = [f \in Poll!Filters |-> IF f \in {} THEN ask.data
                                                             ELSE IF f \in {} THEN None
                                                             ELSE udata[s][f]]]
      BY <3>1 DEF Poll!Kevent
    <3> QED
      BY <3>2 DEF Poll!PollInv, Poll!TypeOK
  <2>2. CASE n # 0
    BY <2>2 DEF Poll!Doubt
  <2> QED
    BY <2>1, <2>2
<1>5. Poll!TypeOK'
  BY <1>2, <1>3 DEF Poll!PollInv, Poll!TypeOK
<1>6. Concerns(s)
  BY <1>2, <1>3 DEF Concerns
<1>7. Poll!CountsMatchEntries'
  BY <1>2 DEF Poll!CountsMatchEntries, Poll!SelectPorts
<1>8. Poll!InOrder(s)'
  <2>1. Poll!TreeHolds(s)'
    BY <1>2 DEF Poll!PollInv, Poll!InOrder, Poll!TreeHolds, Poll!Call, Poll!TreePorts
  <2>2. s \notin doubtful' => Poll!SystemWatches(s)'
    <3>1. asked[s] # None => Poll!FiltersOf(asked[s].events) \subseteq Poll!Filters
      BY SomeFilters, AsksAreEntries DEF Poll!PollInv, Poll!TypeOK, Poll!FiltersOf
    <3> QED
      BY <1>2, <1>4, <3>1 DEF Poll!PollInv, Poll!InOrder, Poll!SystemWatches,
         Poll!FiltersOf, Poll!Call
  <2> QED
    BY <1>2, <2>1, <2>2 DEF Poll!InOrder, Poll!TreePorts
<1>9. Answers(s)
  BY <1>2 DEF Answers
<1> QED
  BY <1>5, <1>6, <1>7, <1>8, <1>9, CallOnOne

LEMMA KqueueWhole ==
  ASSUME Poll!PollAssumption, Poll!PollInv, NEW s \in Sockets, NEW old, NEW ask \in Poll!Asks,
         poll_port = "macos", Poll!Call,
         s \notin doubtful => interest[s] = Poll!EpollFilters(old),
         Len(Poll!Changes(s, old, ask.events)) \in Poll!Done(s, Poll!Changes(s, old, ask.events)),
         Poll!Kevent(s, Poll!Changes(s, old, ask.events), Len(Poll!Changes(s, old, ask.events)), ask.data),
         UNCHANGED <<slots, count, max_fd>>, Poll!Insert(s, ask), Poll!Asked(s, ask, "Ok"), Poll!Certain
  PROVE  Poll!PollInv'
<1> DEFINE q == Poll!Changes(s, old, ask.events)
<1>1. q \in Seq(ChangesOfKqueue) /\ Len(q) \in 0 .. Len(q)
  BY ChangesAre
<1>2. /\ poll_port' = poll_port /\ UNCHANGED <<slots, count, max_fd, doubtful, disturbed, open, waiting,
                                               valid>>
      /\ tree' = [tree EXCEPT ![s] = Poll!Entry(s, ask)] /\ asked' = [asked EXCEPT ![s] = ask]
  BY DEF Poll!Call, Poll!Asked, Poll!Certain, Poll!Insert
<1>3. /\ interest' \in [Sockets -> SUBSET Poll!Filters]
      /\ udata' \in [Sockets -> [Poll!Filters -> Items \cup {None}]]
      /\ \A t \in Sockets \ {s} : interest'[t] = interest[t] /\ udata'[t] = udata[t]
  BY <1>1, <1>2, AsksAreEntries, KeventSome DEF Poll!PollInv
<1>4. s \notin doubtful => interest'[s] = Poll!EpollFilters(ask.events)
  <2>1. interest'[s] = (interest[s] \cup Poll!EpollFilters(ask.events))
                         \ (Poll!EpollFilters(old) \ Poll!EpollFilters(ask.events))
    BY KeventAll DEF Poll!PollInv
  <2> QED
    BY <2>1
<1>5. \A f \in Poll!EpollFilters(ask.events) : udata'[s][f] = ask.data
  BY KeventAll DEF Poll!PollInv
<1>6. Poll!TypeOK'
  BY <1>2, <1>3, AsksAreEntries DEF Poll!PollInv, Poll!TypeOK, Poll!TreePorts
<1>7. Concerns(s)
  BY <1>2, <1>3 DEF Concerns, Poll!PollInv, Poll!TypeOK
<1>8. Poll!CountsMatchEntries'
  BY <1>2 DEF Poll!CountsMatchEntries, Poll!SelectPorts
<1>9. Poll!InOrder(s)'
  <2>1. Poll!TreeHolds(s)'
    BY <1>2, AsksAreEntries DEF Poll!PollInv, Poll!TypeOK, Poll!TreeHolds, Poll!Entry
  <2>2. Poll!FiltersOn("macos", ask.events) = Poll!EpollFilters(ask.events)
    BY DEF Poll!FiltersOn
  <2>3. s \in open
    BY AllDoneIsOpen
  <2>4. s \notin doubtful' => Poll!SystemWatches(s)'
    BY <1>2, <1>4, <1>5, <2>2, <2>3, AsksAreEntries DEF Poll!PollInv, Poll!TypeOK,
       Poll!SystemWatches,
       Poll!FiltersOf
  <2> QED
    BY <1>2, <2>1, <2>4 DEF Poll!InOrder, Poll!TreePorts
<1>10. Answers(s)
  BY <1>2, AsksAreEntries DEF Poll!PollInv, Poll!TypeOK, Answers
<1> QED
  BY <1>6, <1>7, <1>8, <1>9, <1>10, CallOnOne

LEMMA KqueueAddKeeps ==
  ASSUME Poll!PollAssumption, Poll!PollInv, NEW s \in Sockets, NEW ask \in Poll!Asks, Poll!KqueueAdd(s, ask)
  PROVE  Poll!PollInv'
<1>1. s \notin doubtful => interest[s] = Poll!EpollFilters({})
  BY NoEventsNoFilters, TreeTells DEF Poll!KqueueAdd, Poll!Call, Poll!TreePorts
<1>2. PICK n \in Poll!Done(s, Poll!Changes(s, {}, ask.events)) :
        /\ Poll!Kevent(s, Poll!Changes(s, {}, ask.events), n, ask.data)
        /\ IF n = Len(Poll!Changes(s, {}, ask.events))
           THEN Poll!Insert(s, ask) /\ Poll!Asked(s, ask, "Ok") /\ Poll!Certain
           ELSE UNCHANGED tree /\ Poll!Asked(s, ask,
             "OsError") /\ (IF n = 0 THEN Poll!Certain ELSE Poll!Doubt(s))
  BY DEF Poll!KqueueAdd
<1>3. poll_port = "macos" /\ Poll!Call /\ UNCHANGED <<slots, count, max_fd>>
  BY DEF Poll!KqueueAdd
<1> QED
  BY <1>1, <1>2, <1>3, KqueueWhole, KqueueHalf

LEMMA KqueueModifyKeeps ==
  ASSUME Poll!PollAssumption, Poll!PollInv, NEW s \in Sockets, NEW ask \in Poll!Asks, Poll!KqueueModify(s, ask)
  PROVE  Poll!PollInv'
<1>1. s \notin doubtful => interest[s] = Poll!EpollFilters(tree[s].events)
  BY TreeTells, FiltersByPort DEF Poll!KqueueModify, Poll!Call, Poll!TreePorts
<1>2. PICK n \in Poll!Done(s, Poll!Changes(s, tree[s].events, ask.events)) :
        /\ Poll!Kevent(s, Poll!Changes(s, tree[s].events, ask.events), n, ask.data)
        /\ IF n = Len(Poll!Changes(s, tree[s].events, ask.events))
           THEN Poll!Insert(s, ask) /\ Poll!Asked(s, ask, "Ok") /\ Poll!Certain
           ELSE UNCHANGED tree /\ Poll!Asked(s, ask,
             "OsError") /\ (IF n = 0 THEN Poll!Certain ELSE Poll!Doubt(s))
  BY DEF Poll!KqueueModify
<1>3. poll_port = "macos" /\ Poll!Call /\ UNCHANGED <<slots, count, max_fd>>
  BY DEF Poll!KqueueModify
<1> QED
  BY <1>1, <1>2, <1>3, KqueueWhole, KqueueHalf

\* Of a socket that is in no doubt every filter is there and can be deleted.
LEMMA KqueueRemoveKeeps ==
  ASSUME Poll!PollAssumption, Poll!PollInv, NEW s \in Sockets, Poll!KqueueRemove(s)
  PROVE  Poll!PollInv'
<1> DEFINE q == IF tree[s] = None THEN << >> ELSE Poll!Changes(s, tree[s].events, {})
<1>1. /\ poll_port = "macos" /\ Poll!Call /\ UNCHANGED <<slots, count, max_fd>>
      /\ tree' = [tree EXCEPT ![s] = None] /\ asked' = [asked EXCEPT ![s] = None]
      /\ doubtful \ {s} \subseteq doubtful' /\ doubtful' \subseteq doubtful
      /\ s \in doubtful /\ s \notin doubtful' => interest'[s] = {}
      /\ disturbed' = (waiting # None)
      /\ poll_port' = poll_port /\ UNCHANGED <<open, waiting, valid>>
  BY DEF Poll!KqueueRemove, Poll!Forgotten, Poll!Call
<1>2. PICK n \in Poll!Done(s, q) : Poll!Kevent(s, q, n, None)
  BY DEF Poll!KqueueRemove
<1>3. q \in Seq(ChangesOfKqueue) /\ n \in 0 .. Len(q)
  BY <1>2, ChangesAre DEF Poll!Done
<1>4. /\ interest' \in [Sockets -> SUBSET Poll!Filters]
      /\ udata' \in [Sockets -> [Poll!Filters -> Items \cup {None}]]
      /\ \A t \in Sockets \ {s} : interest'[t] = interest[t] /\ udata'[t] = udata[t]
  BY <1>1, <1>2, <1>3, KeventSome DEF Poll!PollInv
<1>5. s \notin doubtful => interest'[s] = {}
  <2> SUFFICES ASSUME s \notin doubtful PROVE interest'[s] = {}
    OBVIOUS
  <2>1. CASE tree[s] = None
    <3>1. interest[s] = {} /\ n = 0
      BY <1>1, <1>3, <2>1, TreeTells DEF Poll!Call, Poll!TreePorts
    <3>2. \A add : {q[i].filter : i \in {j \in 1 .. n : q[j].add = add}} = {}
      BY <3>1
    <3> QED
      BY <1>2, <3>1, <3>2 DEF Poll!Kevent, Poll!PollInv, Poll!TypeOK
  <2>2. CASE tree[s] # None
    <3>1. interest[s] = Poll!EpollFilters(tree[s].events)
      BY <1>1, <2>2, TreeTells, FiltersByPort DEF Poll!Call, Poll!TreePorts
    <3>2. n = Len(q)
      <4> SUFFICES ASSUME n < Len(q) PROVE FALSE
        BY <1>3
      <4>1. Poll!MayFail(s, q[n + 1]) /\ q[n + 1] \in In(q)
        BY <1>2, <1>3 DEF Poll!Done, In
      <4>2. PICK f \in Poll!EpollFilters(tree[s].events) : q[n + 1] = DeleteOf(f)
        BY <2>2, <4>1, ChangesAre, NoEventsNoFilters
      <4> QED
        BY <3>1, <4>1, <4>2 DEF Poll!MayFail, DeleteOf
    <3> QED
      BY <1>2, <2>2, <3>1, <3>2, KeventAll, NoEventsNoFilters DEF Poll!PollInv
  <2> QED
    BY <2>1, <2>2
<1>6. Poll!TypeOK'
  BY <1>1, <1>4 DEF Poll!PollInv, Poll!TypeOK, Poll!TreePorts
<1>7. Concerns(s)
  BY <1>1, <1>4 DEF Concerns, Poll!PollInv, Poll!TypeOK
<1>8. Poll!CountsMatchEntries'
  BY <1>1 DEF Poll!CountsMatchEntries, Poll!SelectPorts
<1>9. Poll!InOrder(s)'
  BY <1>1, <1>5 DEF Poll!PollInv, Poll!TypeOK, Poll!InOrder, Poll!TreeHolds,
     Poll!SystemWatches, Poll!TreePorts
<1>10. Answers(s)
  BY <1>1 DEF Answers
<1> QED
  BY <1>1, <1>6, <1>7, <1>8, <1>9, <1>10, CallOnOne

----
\* The ports with fd_sets: the counts go with the entries.
LEMMA Counting ==
  ASSUME Poll!PollAssumption, NEW p, NEW f, NEW entry \in Poll!Entries
  PROVE  (entry \in With(p, f) <=> f \in Poll!FiltersOn(p, entry.events)) /\ None \notin With(p, f)
BY DEF With, Poll!PollAssumption

LEMMA CountsOfSets ==
  ASSUME Poll!PollAssumption, Poll!TypeOK, NEW old \in Poll!Entries, NEW new \in Poll!Entries, NEW f \in Poll!Filters
  PROVE  /\ Poll!Raised(count, new.events)[f] = Follows(count[f], None, new, With(poll_port, f))
         /\ Poll!Lowered(count, old.events)[f] = Follows(count[f], old, None, With(poll_port, f))
         /\ Poll!Raised(Poll!Lowered(count, old.events), new.events)[f]
              = Follows(count[f], old, new, With(poll_port, f))
<1>1. count[f] \in Int
  BY DEF Poll!TypeOK
<1>2. old \in With(poll_port, f) <=> f \in Poll!FiltersOf(old.events)
  BY Counting DEF Poll!FiltersOf
<1>3. new \in With(poll_port, f) <=> f \in Poll!FiltersOf(new.events)
  BY Counting DEF Poll!FiltersOf
<1>4. None \notin With(poll_port, f)
  BY Counting
<1> QED
  BY <1>1, <1>2, <1>3, <1>4 DEF Poll!Raised, Poll!Lowered, Follows

LEMMA CountsAreNumbers ==
  ASSUME Poll!TypeOK, NEW old, NEW new
  PROVE  /\ Poll!Raised(count, new) \in [Poll!Filters -> Int] /\ Poll!Lowered(count, old) \in [Poll!Filters -> Int]
         /\ Poll!Raised(Poll!Lowered(count, old), new) \in [Poll!Filters -> Int]
BY DEF Poll!Raised, Poll!Lowered, Poll!TypeOK

LEMMA WindowsAddKeeps ==
  ASSUME Poll!PollAssumption, Poll!PollInv, NEW s \in Sockets, NEW ask \in Poll!Asks, Poll!WindowsAdd(s, ask)
  PROVE  Poll!PollInv'
<1>1. CASE Poll!Size >= MaxPoll /\ Poll!Refuse(s, "NoMem")
  BY <1>1, RefusedCall DEF Poll!WindowsAdd
<1>2. CASE /\ Poll!Insert(s, ask) /\ Poll!set_in_fd_sets(s, ask.events) /\ UNCHANGED <<slots, max_fd>>
           /\ Poll!Asked(s, ask, "Ok") /\ Poll!Certain /\ tree[s] = None
  <2>1. /\ poll_port = "windows" /\ Poll!Call /\ poll_port' = poll_port
        /\ UNCHANGED <<slots, max_fd, udata, open, waiting, valid, doubtful, disturbed>>
        /\ tree' = [tree EXCEPT ![s] = Poll!Entry(s, ask)] /\ asked' = [asked EXCEPT ![s] = ask]
        /\ interest' = [interest EXCEPT ![s] = @ \cup Poll!FiltersOn(poll_port, ask.events)]
        /\ count' = Poll!Raised(count, ask.events)
    BY <1>2 DEF Poll!WindowsAdd, Poll!Insert, Poll!set_in_fd_sets, Poll!Asked, Poll!Certain,
       Poll!Call, Poll!FiltersOf
  <2>2. Poll!FiltersOn(poll_port, ask.events) \subseteq Poll!Filters
    BY <2>1, SomeFilters, AsksAreEntries DEF Poll!TreePorts
  <2>3. Poll!TypeOK'
    BY <2>1, <2>2, AsksAreEntries, CountsAreNumbers DEF Poll!PollInv, Poll!TypeOK,
       Poll!TreePorts
  <2>4. Concerns(s)
    BY <2>1 DEF Concerns, Poll!PollInv, Poll!TypeOK
  <2>5. Poll!CountsMatchEntries'
    <3>1. \A f \in Poll!Filters : count'[f] = Follows(count[f], None, Poll!Entry(s, ask), With(poll_port, f))
      BY <2>1, AsksAreEntries, CountsOfSets DEF Poll!PollInv
    <3>2. tree[s] = None /\ tree'[s] = Poll!Entry(s, ask) /\ OnlyMoves(Sockets, tree, tree', s)
      BY <1>2, <2>1 DEF Poll!PollInv, Poll!TypeOK, OnlyMoves
    <3> QED
      BY <2>1, <2>3, <3>1, <3>2, CountsFollow DEF Poll!PollInv, Poll!Call
  <2>6. Poll!InOrder(s)'
    <3>1. s \notin doubtful => interest'[s] = Poll!FiltersOn(poll_port, ask.events)
      BY <1>2, <2>1, TreeTells DEF Poll!Call, Poll!TreePorts, Poll!PollInv, Poll!TypeOK
    <3>2. Poll!TreeHolds(s)'
      BY <2>1, AsksAreEntries DEF Poll!PollInv, Poll!TypeOK, Poll!TreeHolds, Poll!Entry
    <3>3. s \notin doubtful' => Poll!SystemWatches(s)'
      BY <2>1, <3>1, AsksAreEntries DEF Poll!PollInv, Poll!TypeOK, Poll!SystemWatches,
         Poll!FiltersOf
    <3> QED
      BY <2>1, <3>2, <3>3 DEF Poll!InOrder, Poll!TreePorts
  <2>7. Answers(s)
    BY <2>1, AsksAreEntries DEF Poll!PollInv, Poll!TypeOK, Answers
  <2> QED
    BY <2>1, <2>3, <2>4, <2>5, <2>6, <2>7, CallOnOne
<1> QED
  BY <1>1, <1>2 DEF Poll!WindowsAdd

LEMMA WindowsModifyKeeps ==
  ASSUME Poll!PollAssumption, Poll!PollInv, NEW s \in Sockets, NEW ask \in Poll!Asks, Poll!WindowsModify(s, ask)
  PROVE  Poll!PollInv'
<1>1. /\ poll_port = "windows" /\ Poll!Call /\ poll_port' = poll_port /\ tree[s] # None
      /\ UNCHANGED <<slots, max_fd, udata, open, waiting, valid, doubtful, disturbed>>
      /\ tree' = [tree EXCEPT ![s] = Poll!Entry(s, ask)] /\ asked' = [asked EXCEPT ![s] = ask]
      /\ interest' = [interest EXCEPT ![s] = (@ \ Poll!FiltersOn(poll_port, tree[s].events))
                                              \cup Poll!FiltersOn(poll_port, ask.events)]
      /\ count' = Poll!Raised(Poll!Lowered(count, tree[s].events), ask.events)
  BY DEF Poll!WindowsModify, Poll!Insert, Poll!reset_in_fd_sets, Poll!Asked, Poll!Certain,
     Poll!Call, Poll!FiltersOf
<1>2. Poll!FiltersOn(poll_port, ask.events) \subseteq Poll!Filters
  BY <1>1, SomeFilters, AsksAreEntries DEF Poll!TreePorts
<1>3. Poll!TypeOK'
  BY <1>1, <1>2, AsksAreEntries, CountsAreNumbers DEF Poll!PollInv, Poll!TypeOK,
     Poll!TreePorts
<1>4. Concerns(s)
  BY <1>1 DEF Concerns, Poll!PollInv, Poll!TypeOK
<1>5. Poll!CountsMatchEntries'
  <2>1. tree[s] \in Poll!Entries
    BY <1>1 DEF Poll!PollInv, Poll!TypeOK
  <2>2. \A f \in Poll!Filters : count'[f] = Follows(count[f], tree[s], Poll!Entry(s, ask), With(poll_port, f))
    BY <1>1, <2>1, AsksAreEntries, CountsOfSets DEF Poll!PollInv
  <2>3. tree'[s] = Poll!Entry(s, ask) /\ OnlyMoves(Sockets, tree, tree', s)
    BY <1>1 DEF Poll!PollInv, Poll!TypeOK, OnlyMoves
  <2> QED
    BY <1>1, <1>3, <2>2, <2>3, CountsFollow DEF Poll!PollInv, Poll!Call
<1>6. Poll!InOrder(s)'
  <2>1. s \notin doubtful => interest'[s] = Poll!FiltersOn(poll_port, ask.events)
    <3>1. s \notin doubtful => interest[s] = Poll!FiltersOn(poll_port, tree[s].events)
      BY <1>1, TreeTells DEF Poll!Call, Poll!TreePorts
    <3>2. interest'[s] = (interest[s] \ Poll!FiltersOn(poll_port, tree[s].events)) \cup Poll!FiltersOn(poll_port,
          ask.events)
      BY <1>1 DEF Poll!PollInv, Poll!TypeOK
    <3> QED
      BY <3>1, <3>2
  <2>2. Poll!TreeHolds(s)'
    BY <1>1, AsksAreEntries DEF Poll!PollInv, Poll!TypeOK, Poll!TreeHolds, Poll!Entry
  <2>3. s \notin doubtful' => Poll!SystemWatches(s)'
    BY <1>1, <2>1, AsksAreEntries DEF Poll!PollInv, Poll!TypeOK, Poll!SystemWatches,
       Poll!FiltersOf
  <2> QED
    BY <1>1, <2>2, <2>3 DEF Poll!InOrder, Poll!TreePorts
<1>7. Answers(s)
  BY <1>1, AsksAreEntries DEF Poll!PollInv, Poll!TypeOK, Answers
<1> QED
  BY <1>1, <1>3, <1>4, <1>5, <1>6, <1>7, CallOnOne

LEMMA WindowsRemoveKeeps ==
  ASSUME Poll!PollAssumption, Poll!PollInv, NEW s \in Sockets, Poll!WindowsRemove(s)
  PROVE  Poll!PollInv'
<1>1. /\ poll_port = "windows" /\ Poll!Call /\ poll_port' = poll_port
      /\ UNCHANGED <<slots, max_fd, udata, open, waiting, valid>>
      /\ tree' = [tree EXCEPT ![s] = None] /\ asked' = [asked EXCEPT ![s] = None]
      /\ doubtful \ {s} \subseteq doubtful' /\ doubtful' \subseteq doubtful
      /\ s \in doubtful /\ s \notin doubtful' => interest'[s] = {}
      /\ disturbed' = (waiting # None)
  BY DEF Poll!WindowsRemove, Poll!clear_in_fd_sets, Poll!Forgotten, Poll!Call
<1>2. /\ interest' \in [Sockets -> SUBSET Poll!Filters] /\ count' \in [Poll!Filters -> Int]
      /\ \A t \in Sockets \ {s} : interest'[t] = interest[t]
  <2>1. CASE tree[s] = None
    BY <2>1 DEF Poll!WindowsRemove, Poll!PollInv, Poll!TypeOK
  <2>2. CASE tree[s] # None
    <3>1. /\ interest' = [interest EXCEPT ![s] = @ \ Poll!FiltersOf(tree[s].events)]
          /\ count' = Poll!Lowered(count, tree[s].events)
      BY <2>2 DEF Poll!WindowsRemove, Poll!clear_in_fd_sets
    <3>2. count' \in [Poll!Filters -> Int]
      BY <3>1, CountsAreNumbers DEF Poll!PollInv
    <3> QED
      BY <3>1, <3>2 DEF Poll!PollInv, Poll!TypeOK
  <2> QED
    BY <2>1, <2>2
<1>3. Poll!TypeOK'
  BY <1>1, <1>2 DEF Poll!PollInv, Poll!TypeOK, Poll!TreePorts
<1>4. Concerns(s)
  BY <1>1, <1>2 DEF Concerns, Poll!PollInv, Poll!TypeOK
<1>5. Poll!CountsMatchEntries'
  <2>1. tree'[s] = None /\ OnlyMoves(Sockets, tree, tree', s)
    BY <1>1 DEF Poll!PollInv, Poll!TypeOK, OnlyMoves
  <2>2. \A f \in Poll!Filters : count'[f] = Follows(count[f], tree[s], None, With(poll_port, f))
    <3>1. CASE tree[s] = None
      BY <3>1, Counting DEF Poll!WindowsRemove, Follows, With, Poll!PollAssumption
    <3>2. CASE tree[s] # None
      <4>1. tree[s] \in Poll!Entries /\ count' = Poll!Lowered(count, tree[s].events)
        BY <3>2 DEF Poll!WindowsRemove, Poll!clear_in_fd_sets, Poll!PollInv, Poll!TypeOK
      <4> QED
        BY <4>1, CountsOfSets DEF Poll!PollInv
    <3> QED
      BY <3>1, <3>2
  <2> QED
    BY <1>1, <1>3, <2>1, <2>2, CountsFollow DEF Poll!PollInv, Poll!Call
<1>6. Poll!InOrder(s)'
  <2>1. s \notin doubtful => interest'[s] = {}
    <3>1. s \notin doubtful =>
            interest[s] = IF tree[s] = None THEN {} ELSE Poll!FiltersOn(poll_port, tree[s].events)
      BY <1>1, TreeTells DEF Poll!Call, Poll!TreePorts
    <3>2. interest'[s] = IF tree[s] = None THEN interest[s]
                         ELSE interest[s] \ Poll!FiltersOn(poll_port, tree[s].events)
      BY DEF Poll!WindowsRemove, Poll!clear_in_fd_sets, Poll!PollInv, Poll!TypeOK,
         Poll!FiltersOf
    <3> QED
      BY <3>1, <3>2
  <2> QED
    BY <1>1, <2>1 DEF Poll!PollInv, Poll!TypeOK, Poll!InOrder, Poll!TreeHolds,
       Poll!SystemWatches, Poll!TreePorts
<1>7. Answers(s)
  BY <1>1 DEF Answers
<1> QED
  BY <1>1, <1>3, <1>4, <1>5, <1>6, <1>7, CallOnOne

----
\* The array of slots: what it tells of a socket.
LEMMA SlotsTell ==
  ASSUME Poll!PollAssumption, Poll!PollInv, valid, poll_port \in Poll!SlotPorts, NEW s \in Sockets
  PROVE  /\ Poll!Find(s) \in SUBSET Poll!Slots
         /\ \A i \in Poll!Find(s) : slots[i] \in Poll!Entries /\ slots[i] # None /\ slots[i].sock = s
         /\ asked[s] # None => Poll!Find(s) # {} /\ asked[s] \in Poll!Asks
         /\ \A f \in interest[s] : \E i \in Poll!Find(s) : f \in Poll!FiltersOn(poll_port, slots[i].events)
         /\ s \notin doubtful =>
              /\ Poll!Find(s) = {} <=> asked[s] = None
              /\ \A i \in Poll!Find(s) : Poll!Find(s) = {i} /\ slots[i] = Poll!Entry(s, asked[s])
                                   /\ slots[i].events = asked[s].events
                                   /\ interest[s] = Poll!FiltersOn(poll_port, slots[i].events)
              /\ asked[s] = None => interest[s] = {}
              /\ asked[s] # None /\ poll_port = "lwip" => s <= max_fd
<1>1. Poll!SlotsHold(s) /\ (s \notin doubtful => Poll!SystemWatches(s)) /\ asked[s] \in Poll!Asks \cup {None}
  BY DEF Poll!PollInv, Poll!InOrder, Poll!TypeOK, Poll!SlotPorts, Poll!TreePorts
<1>2. Poll!Find(s) \in SUBSET Poll!Slots
  BY DEF Poll!Find
<1>3. \A i \in Poll!Find(s) : slots[i] \in Poll!Entries /\ slots[i] # None /\ slots[i].sock = s
  BY DEF Poll!Find, Poll!PollInv, Poll!TypeOK
<1>4. \A f \in interest[s] : \E i \in Poll!Find(s) : f \in Poll!FiltersOn(poll_port, slots[i].events)
  BY <1>1 DEF Poll!SlotsHold, Poll!FiltersOf
<1>5. ASSUME s \notin doubtful, NEW i \in Poll!Find(s)
      PROVE  /\ Poll!Find(s) = {i} /\ slots[i] = Poll!Entry(s, asked[s]) /\ asked[s] # None
             /\ slots[i].events = asked[s].events
             /\ interest[s] = Poll!FiltersOn(poll_port, slots[i].events)
  <2>1. Poll!Find(s) = {i} /\ slots[i] = Poll!Entry(s, asked[s]) /\ asked[s] # None
    BY <1>1, <1>5 DEF Poll!SlotsHold
  <2>2. slots[i].events = asked[s].events
    BY <2>1 DEF Poll!Entry
  <2> QED
    BY <1>1, <1>5, <2>1, <2>2 DEF Poll!SystemWatches, Poll!FiltersOf
<1>6. s \notin doubtful => /\ asked[s] = None => interest[s] = {}
                           /\ asked[s] # None /\ poll_port = "lwip" => s <= max_fd
  BY <1>1 DEF Poll!SystemWatches
<1>7. asked[s] # None => Poll!Find(s) # {} /\ asked[s] \in Poll!Asks
  BY <1>1 DEF Poll!SlotsHold
<1> QED
  BY <1>2, <1>3, <1>4, <1>5, <1>6, <1>7

\* Socket s is in order when its slots, taken one by one, are.
LEMMA SlotsInOrder ==
  ASSUME NEW s \in Sockets, poll_port' \in Poll!SlotPorts,
         asked'[s] # None => Poll!Find(s)' # {},
         \A f \in interest'[s] : \E i \in Poll!Find(s)' : f \in Poll!FiltersOn(poll_port', slots'[i].events),
         s \notin doubtful' =>
           /\ \A i \in Poll!Find(s)' : asked'[s] # None /\ Poll!Find(s)' = {i} /\ slots'[i] = Poll!Entry(s,
              asked'[s])
           /\ IF asked'[s] = None THEN interest'[s] = {}
              ELSE interest'[s] = Poll!FiltersOn(poll_port', asked'[s].events)
           /\ asked'[s] # None /\ poll_port' = "lwip" => s <= max_fd'
  PROVE  Poll!InOrder(s)'
<1>1. Poll!SlotsHold(s)'
  BY DEF Poll!SlotsHold, Poll!FiltersOf, Poll!Entry
<1>2. s \notin doubtful' => Poll!SystemWatches(s)'
  BY DEF Poll!SystemWatches, Poll!FiltersOf, Poll!SlotPorts
<1> QED
  BY <1>1, <1>2 DEF Poll!InOrder, Poll!SlotPorts, Poll!TreePorts

\* What happens to one slot: it is put to another use.
LEMMA SlotMoves ==
  ASSUME Poll!PollAssumption, Poll!PollInv, NEW s \in Sockets, NEW i \in Poll!Slots,
         NEW entry \in Poll!Entries \cup {None},
         slots' = [slots EXCEPT ![i] = entry], OnlyOf(s, entry), OnlyOf(s, slots[i])
  PROVE  /\ slots' \in [Poll!Slots -> Poll!Entries \cup {None}]
         /\ OnlyMoves(Poll!Slots, slots, slots', i) /\ slots'[i] = entry
         /\ \A j \in Poll!Slots : slots'[j] = slots[j] \/ (OnlyOf(s, slots[j]) /\ OnlyOf(s,
            slots'[j]))
         /\ Poll!Find(s)' = IF entry = None THEN Poll!Find(s) \ {i} ELSE Poll!Find(s) \cup {i}
         /\ \A j \in Poll!Find(s) \ {i} : slots'[j] = slots[j]
<1>1. /\ slots' \in [Poll!Slots -> Poll!Entries \cup {None}] /\ slots'[i] = entry
      /\ \A j \in Poll!Slots \ {i} : slots'[j] = slots[j]
  BY DEF Poll!PollInv, Poll!TypeOK
<1>2. \A j \in Poll!Slots : j \in Poll!Find(s)' <=> IF j = i THEN entry # None ELSE j \in Poll!Find(s)
  BY <1>1 DEF Poll!Find, OnlyOf
<1>3. Poll!Find(s) \subseteq Poll!Slots /\ Poll!Find(s)' \subseteq Poll!Slots
  BY DEF Poll!Find
<1>4. Poll!Find(s)' = IF entry = None THEN Poll!Find(s) \ {i} ELSE Poll!Find(s) \cup {i}
  BY <1>2, <1>3
<1> QED
  BY <1>1, <1>3, <1>4 DEF OnlyMoves

\* max_fd, where it is, does not fall below a socket that is in order.
MaxFdHolds(s) ==
  /\ max_fd' \in Int
  /\ poll_port = "lwip" =>
       \A t \in Sockets \ {s} : t <= max_fd /\ asked[t] # None /\ t \notin doubtful =>
         t <= max_fd'

\* Adding, modifying and removing by slots, whatever else the port does to max_fd.
LEMMA SlotAddKeeps ==
  ASSUME Poll!PollAssumption, Poll!PollInv, NEW s \in Sockets, NEW ask \in Poll!Asks, poll_port \in Poll!SlotPorts,
         Poll!SlotAdd(s, ask),
         MaxFdHolds(s), Poll!Holes # {} /\ poll_port = "lwip" => s <= max_fd',
         Poll!Holes = {} => UNCHANGED max_fd
  PROVE  Poll!PollInv'
<1>1. CASE Poll!Holes = {}
  BY <1>1, RefusedCall DEF Poll!SlotAdd
<1>2. CASE Poll!Holes # {}
  <2>1. PICK i \in Poll!Holes : i = Poll!FirstOf(Poll!Holes)
    BY <1>2, FirstIsOne DEF Poll!Holes, Poll!PollAssumption
  <2>2. /\ poll_port' = poll_port /\ Poll!Call /\ valid
        /\ UNCHANGED <<tree, udata, open, waiting, valid, disturbed>>
        /\ slots' = [slots EXCEPT ![i] = Poll!Entry(s, ask)] /\ asked' = [asked EXCEPT ![s] = ask]
        /\ interest' = [interest EXCEPT ![s] = @ \cup Poll!FiltersOn(poll_port, ask.events)]
        /\ count' = Poll!Raised(count, ask.events)
        /\ doubtful' = IF Poll!Find(s) = {} THEN doubtful ELSE doubtful \cup {s}
    BY <1>2, <2>1 DEF Poll!SlotAdd, Poll!Put, Poll!set_in_fd_sets, Poll!Asked, Poll!Certain,
       Poll!Doubt, Poll!Call, Poll!FiltersOf
  <2>3. i \in Poll!Slots /\ slots[i] = None /\ OnlyOf(s, slots[i]) /\ OnlyOf(s, Poll!Entry(s, ask))
    BY <2>1, AsksAreEntries DEF Poll!Holes, OnlyOf
  <2>4. /\ slots' \in [Poll!Slots -> Poll!Entries \cup {None}]
        /\ OnlyMoves(Poll!Slots, slots, slots', i) /\ slots'[i] = Poll!Entry(s, ask)
        /\ \A j \in Poll!Slots : slots'[j] = slots[j] \/ (OnlyOf(s, slots[j]) /\ OnlyOf(s,
           slots'[j]))
        /\ Poll!Find(s)' = Poll!Find(s) \cup {i}
        /\ \A j \in Poll!Find(s) \ {i} : slots'[j] = slots[j]
    <3>1. PICK entry \in Poll!Entries : entry = Poll!Entry(s, ask) /\ entry # None
      BY AsksAreEntries
    <3>2. slots' = [slots EXCEPT ![i] = entry] /\ OnlyOf(s, entry)
      BY <2>2, <2>3, <3>1
    <3> QED
      BY <2>3, <3>1, <3>2, SlotMoves
  <2>5. Poll!FiltersOn(poll_port, ask.events) \subseteq Poll!Filters
    BY SomeFilters, AsksAreEntries
  <2>6. Poll!TypeOK'
    <3>1. count' \in [Poll!Filters -> Int]
      BY <2>2, CountsAreNumbers DEF Poll!PollInv
    <3> QED
      BY <2>2, <2>4, <2>5, <3>1, AsksAreEntries DEF Poll!PollInv, Poll!TypeOK,
         Poll!TreePorts, Poll!SlotPorts,
         MaxFdHolds
  <2>7. Concerns(s)
    BY <2>2, <2>4 DEF Concerns, Poll!PollInv, Poll!TypeOK, MaxFdHolds
  <2>8. Poll!CountsMatchEntries'
    <3>1. \A f \in Poll!Filters : count'[f] = Follows(count[f], slots[i], Poll!Entry(s, ask), With(poll_port,
          f))
      BY <2>2, <2>3, AsksAreEntries, CountsOfSets DEF Poll!PollInv
    <3> QED
      BY <2>2, <2>3, <2>4, <2>6, <3>1, CountsFollow DEF Poll!PollInv
  <2>9. Poll!InOrder(s)'
    <3>1. asked'[s] = ask /\ ask # None
      BY <2>2, AsksAreEntries DEF Poll!PollInv, Poll!TypeOK
    <3>2. interest'[s] = interest[s] \cup Poll!FiltersOn(poll_port, ask.events)
      BY <2>2 DEF Poll!PollInv, Poll!TypeOK
    <3>3. \A f \in interest'[s] : \E j \in Poll!Find(s)' : f \in Poll!FiltersOn(poll_port, slots'[j].events)
      <4>1. \A f \in interest[s] : \E j \in Poll!Find(s) : f \in Poll!FiltersOn(poll_port, slots[j].events)
        BY <2>2, SlotsTell
      <4>2. i \notin Poll!Find(s)
        BY <2>3 DEF Poll!Find
      <4> QED
        BY <2>4, <3>2, <4>1, <4>2, AsksAreEntries
    <3>4. s \notin doubtful' => Poll!Find(s) = {} /\ s \notin doubtful /\ interest[s] = {}
      BY <2>2, SlotsTell
    <3> QED
      BY <1>2, <2>2, <2>4, <3>1, <3>2, <3>3, <3>4, SlotsInOrder
  <2>10. Answers(s)
    BY <2>2, AsksAreEntries DEF Poll!PollInv, Poll!TypeOK, Answers
  <2> QED
    BY <2>2, <2>6, <2>7, <2>8, <2>9, <2>10, CallOnOne
<1> QED
  BY <1>1, <1>2

LEMMA SlotModifyKeeps ==
  ASSUME Poll!PollAssumption, Poll!PollInv, NEW s \in Sockets, NEW ask \in Poll!Asks, poll_port \in Poll!SlotPorts,
         Poll!SlotModify(s, ask)
  PROVE  Poll!PollInv'
<1>1. CASE Poll!Find(s) = {}
  BY <1>1, RefusedCall DEF Poll!SlotModify
<1>2. CASE Poll!Find(s) # {}
  <2>1. PICK i \in Poll!Find(s) : i = Poll!FirstOf(Poll!Find(s))
    BY <1>2, FirstIsOne DEF Poll!Find, Poll!PollAssumption
  <2>2. PICK entry \in Poll!Entries :
          entry = Poll!Entry(s, ask) /\ entry # None /\ OnlyOf(s, entry) /\ entry.events = ask.events
    BY AsksAreEntries DEF OnlyOf
  <2>3. /\ poll_port' = poll_port /\ Poll!Call /\ valid
        /\ UNCHANGED <<tree, udata, open, waiting, valid, disturbed, doubtful, max_fd>>
        /\ slots' = [slots EXCEPT ![i] = entry] /\ asked' = [asked EXCEPT ![s] = ask]
        /\ interest' = [interest EXCEPT ![s] = (@ \ Poll!FiltersOn(poll_port, slots[i].events))
                                                \cup Poll!FiltersOn(poll_port, ask.events)]
        /\ count' = Poll!Raised(Poll!Lowered(count, slots[i].events), ask.events)
    BY <1>2, <2>1, <2>2
       DEF Poll!SlotModify, Poll!Put, Poll!reset_in_fd_sets, Poll!Asked, Poll!Certain, Poll!Call, Poll!FiltersOf
  <2>4. i \in Poll!Slots /\ slots[i] \in Poll!Entries /\ OnlyOf(s, slots[i])
    BY <2>1, <2>3, SlotsTell DEF OnlyOf
  <2>5. /\ slots' \in [Poll!Slots -> Poll!Entries \cup {None}]
        /\ OnlyMoves(Poll!Slots, slots, slots', i) /\ slots'[i] = entry
        /\ \A j \in Poll!Slots : slots'[j] = slots[j] \/ (OnlyOf(s, slots[j]) /\ OnlyOf(s,
           slots'[j]))
        /\ Poll!Find(s)' = Poll!Find(s) \cup {i}
        /\ \A j \in Poll!Find(s) \ {i} : slots'[j] = slots[j]
    BY <2>2, <2>3, <2>4, SlotMoves
  <2>6. Poll!FiltersOn(poll_port, ask.events) \subseteq Poll!Filters
    BY SomeFilters, AsksAreEntries
  <2>7. Poll!TypeOK'
    <3>1. count' \in [Poll!Filters -> Int]
      BY <2>3, CountsAreNumbers DEF Poll!PollInv
    <3> QED
      BY <2>3, <2>5, <2>6, <3>1, AsksAreEntries DEF Poll!PollInv, Poll!TypeOK,
         Poll!TreePorts, Poll!SlotPorts
  <2>8. Concerns(s)
    BY <2>3, <2>5 DEF Concerns, Poll!PollInv, Poll!TypeOK
  <2>9. Poll!CountsMatchEntries'
    <3>1. \A f \in Poll!Filters : count'[f] = Follows(count[f], slots[i], entry, With(poll_port, f))
      BY <2>2, <2>3, <2>4, CountsOfSets DEF Poll!PollInv
    <3> QED
      BY <2>3, <2>4, <2>5, <2>7, <3>1, CountsFollow DEF Poll!PollInv
  <2>10. Poll!InOrder(s)'
    <3>1. asked'[s] = ask /\ ask # None
      BY <2>3, AsksAreEntries DEF Poll!PollInv, Poll!TypeOK
    <3>2. interest'[s] = (interest[s] \ Poll!FiltersOn(poll_port, slots[i].events)) \cup Poll!FiltersOn(poll_port,
          ask.events)
      BY <2>3 DEF Poll!PollInv, Poll!TypeOK
    <3>3. \A f \in interest'[s] : \E j \in Poll!Find(s)' : f \in Poll!FiltersOn(poll_port, slots'[j].events)
      <4>1. \A f \in interest[s] : \E j \in Poll!Find(s) : f \in Poll!FiltersOn(poll_port, slots[j].events)
        BY <2>3, SlotsTell
      <4> QED
        BY <2>2, <2>5, <3>2, <4>1
    <3>4. s \notin doubtful => Poll!Find(s) = {i} /\ interest[s] = Poll!FiltersOn(poll_port, slots[i].events)
                             /\ (poll_port = "lwip" => s <= max_fd)
      BY <2>1, <2>3, SlotsTell
    <3>5. Poll!Find(s)' # {} /\ (s \notin doubtful => Poll!Find(s)' = {i})
      BY <2>5, <3>4
    <3>6. s \notin doubtful => interest'[s] = Poll!FiltersOn(poll_port, ask.events)
      BY <3>2, <3>4
    <3>7. s \notin doubtful' => \A j \in Poll!Find(s)' :
            asked'[s] # None /\ Poll!Find(s)' = {j} /\ slots'[j] = Poll!Entry(s, asked'[s])
      BY <2>2, <2>3, <2>5, <3>1, <3>5
    <3> QED
      BY <2>3, <3>1, <3>3, <3>4, <3>5, <3>6, <3>7, SlotsInOrder
  <2>11. Answers(s)
    BY <2>3, AsksAreEntries DEF Poll!PollInv, Poll!TypeOK, Answers
  <2> QED
    BY <2>3, <2>7, <2>8, <2>9, <2>10, <2>11, CallOnOne
<1> QED
  BY <1>1, <1>2

LEMMA SlotRemoveKeeps ==
  ASSUME Poll!PollAssumption, Poll!PollInv, NEW s \in Sockets, poll_port \in Poll!SlotPorts, Poll!SlotRemove(s),
         MaxFdHolds(s)
  PROVE  Poll!PollInv'
<1>1. /\ poll_port' = poll_port /\ Poll!Call /\ valid
      /\ UNCHANGED <<tree, open, waiting, valid>>
      /\ asked' = [asked EXCEPT ![s] = None]
      /\ doubtful \ {s} \subseteq doubtful' /\ doubtful' \subseteq doubtful
      /\ s \in doubtful /\ s \notin doubtful' =>
           interest'[s] = {} /\ \A j \in Poll!Slots : slots'[j] = None \/ slots'[j].sock # s
      /\ disturbed' = (waiting # None)
      /\ udata' = udata
  BY DEF Poll!SlotRemove, Poll!clear_in_fd_sets, Poll!Forgotten, Poll!Call
<1>2. asked'[s] = None
  BY <1>1 DEF Poll!PollInv, Poll!TypeOK
<1>3. s \in doubtful /\ s \notin doubtful' => interest'[s] = {} /\ Poll!Find(s)' = {}
  BY <1>1 DEF Poll!Find
<1>4. Answers(s)
  BY <1>1 DEF Answers
<1>5. CASE Poll!Find(s) = {}
  <2>1. slots' = slots /\ interest' = interest /\ count' = count
    BY <1>5 DEF Poll!SlotRemove
  <2>2. Poll!TypeOK'
    BY <1>1, <2>1 DEF Poll!PollInv, Poll!TypeOK, Poll!TreePorts, Poll!SlotPorts, MaxFdHolds
  <2>3. Concerns(s)
    BY <1>1, <2>1 DEF Concerns, Poll!PollInv, Poll!TypeOK, MaxFdHolds
  <2>4. Poll!CountsMatchEntries'
    BY <1>1, <2>1 DEF Poll!PollInv, Poll!CountsMatchEntries, Poll!FiltersOf, Poll!Holes
  <2>5. Poll!InOrder(s)'
    <3>1. Poll!Find(s)' = {} /\ interest'[s] = {}
      <4>1. Poll!Find(s)' = {}
        BY <1>5, <2>1 DEF Poll!Find
      <4> QED
        BY <1>1, <1>5, <2>1, <4>1, SlotsTell
    <3> QED
      BY <1>1, <1>2, <3>1, SlotsInOrder
  <2> QED
    BY <1>1, <1>4, <2>2, <2>3, <2>4, <2>5, CallOnOne
<1>6. CASE Poll!Find(s) # {}
  <2>1. PICK i \in Poll!Find(s) : i = Poll!FirstOf(Poll!Find(s))
    BY <1>6, FirstIsOne DEF Poll!Find, Poll!PollAssumption
  <2>2. /\ slots' = [slots EXCEPT ![i] = None]
        /\ interest' = [interest EXCEPT ![s] = @ \ Poll!FiltersOn(poll_port, slots[i].events)]
        /\ count' = Poll!Lowered(count, slots[i].events)
    BY <1>6, <2>1 DEF Poll!SlotRemove, Poll!Put, Poll!clear_in_fd_sets, Poll!FiltersOf
  <2>3. i \in Poll!Slots /\ slots[i] \in Poll!Entries /\ OnlyOf(s, slots[i]) /\ OnlyOf(s, None)
    BY <1>1, <2>1, SlotsTell DEF OnlyOf
  <2>4. /\ slots' \in [Poll!Slots -> Poll!Entries \cup {None}]
        /\ OnlyMoves(Poll!Slots, slots, slots', i) /\ slots'[i] = None
        /\ \A j \in Poll!Slots : slots'[j] = slots[j] \/ (OnlyOf(s, slots[j]) /\ OnlyOf(s,
           slots'[j]))
        /\ Poll!Find(s)' = Poll!Find(s) \ {i}
        /\ \A j \in Poll!Find(s) \ {i} : slots'[j] = slots[j]
    BY <2>2, <2>3, SlotMoves
  <2>5. Poll!TypeOK'
    <3>1. count' \in [Poll!Filters -> Int]
      BY <2>2, CountsAreNumbers DEF Poll!PollInv
    <3> QED
      BY <1>1, <2>2, <2>4, <3>1 DEF Poll!PollInv, Poll!TypeOK, Poll!TreePorts,
         Poll!SlotPorts, MaxFdHolds
  <2>6. Concerns(s)
    BY <1>1, <2>2, <2>4 DEF Concerns, Poll!PollInv, Poll!TypeOK, MaxFdHolds
  <2>7. Poll!CountsMatchEntries'
    <3>1. \A f \in Poll!Filters : count'[f] = Follows(count[f], slots[i], None, With(poll_port, f))
      BY <2>2, <2>3, CountsOfSets DEF Poll!PollInv
    <3> QED
      BY <1>1, <2>3, <2>4, <2>5, <3>1, CountsFollow DEF Poll!PollInv
  <2>8. Poll!InOrder(s)'
    <3>1. interest'[s] = interest[s] \ Poll!FiltersOn(poll_port, slots[i].events)
      BY <2>2 DEF Poll!PollInv, Poll!TypeOK
    <3>2. \A f \in interest'[s] : \E j \in Poll!Find(s)' : f \in Poll!FiltersOn(poll_port, slots'[j].events)
      <4>1. \A f \in interest[s] : \E j \in Poll!Find(s) : f \in Poll!FiltersOn(poll_port, slots[j].events)
        BY <1>1, SlotsTell
      <4> QED
        BY <2>4, <3>1, <4>1
    <3>3. s \notin doubtful' => Poll!Find(s)' = {} /\ interest'[s] = {}
      <4>1. s \notin doubtful => Poll!Find(s) = {i} /\ interest[s] = Poll!FiltersOn(poll_port, slots[i].events)
        BY <1>1, <2>1, SlotsTell
      <4> QED
        BY <1>3, <2>4, <3>1, <4>1
    <3> QED
      BY <1>1, <1>2, <3>2, <3>3, SlotsInOrder
  <2> QED
    BY <1>1, <1>4, <2>5, <2>6, <2>7, <2>8, CallOnOne
<1> QED
  BY <1>5, <1>6

\* The loop that lowers max_fd stops at the next socket with a bit in a set.
LEMMA NextMaxFdHolds ==
  ASSUME Poll!PollAssumption, max_fd \in Nat, NEW sets
  PROVE  /\ Poll!NextMaxFd(sets) \in Nat
         /\ \A t \in Sockets : t <= max_fd /\ sets[t] # {} => t <= Poll!NextMaxFd(sets)
<1> DEFINE S == {0} \cup {s \in Sockets : s <= max_fd /\ sets[s] # {}}
<1>1. S \in SUBSET (0 .. max_fd) /\ S # {}
  <2>1. \A t \in Sockets : t <= max_fd => t \in 0 .. max_fd
    BY DEF Poll!PollAssumption
  <2>2. 0 \in 0 .. max_fd
    OBVIOUS
  <2> QED
    BY <2>1, <2>2
<1> HIDE DEF S
<1>2. \E x \in S : \A y \in S : x >= y
  BY <1>1, HasGreatest
<1>3. Poll!NextMaxFd(sets) \in S /\ \A y \in S : Poll!NextMaxFd(sets) >= y
  BY <1>2 DEF Poll!NextMaxFd, Poll!Fx!Max, S
<1> QED
  BY <1>1, <1>3 DEF Poll!PollAssumption, S

LEMMA LwipKeeps ==
  ASSUME Poll!PollAssumption, Poll!PollInv, NEW s \in Sockets,
         \/ \E ask \in Poll!Asks : Poll!LwipAdd(s, ask) \/ Poll!LwipModify(s, ask)
         \/ Poll!LwipRemove(s)
  PROVE  Poll!PollInv'
<1>1. poll_port = "lwip" => poll_port \in Poll!SlotPorts
  BY DEF Poll!SlotPorts
<1>2. ASSUME NEW ask \in Poll!Asks, Poll!LwipAdd(s, ask) PROVE Poll!PollInv'
  <2>1. MaxFdHolds(s) /\ (Poll!Holes # {} => s <= max_fd') /\ (Poll!Holes = {} => UNCHANGED max_fd)
    BY <1>2 DEF Poll!LwipAdd, MaxFdHolds, Poll!PollInv, Poll!TypeOK, Poll!PollAssumption
  <2> QED
    BY <1>1, <1>2, <2>1, SlotAddKeeps DEF Poll!LwipAdd
<1>3. ASSUME NEW ask \in Poll!Asks, Poll!LwipModify(s, ask) PROVE Poll!PollInv'
  BY <1>1, <1>3, SlotModifyKeeps DEF Poll!LwipModify
<1>4. ASSUME Poll!LwipRemove(s) PROVE Poll!PollInv'
  <2>1. CASE Poll!Find(s) # {} /\ s = max_fd
    <3>1. max_fd \in Nat /\ max_fd' = Poll!NextMaxFd(interest')
      BY <1>4, <2>1 DEF Poll!LwipRemove, Poll!PollAssumption
    <3>2. ASSUME NEW t \in Sockets \ {s}, t <= max_fd, asked[t] # None, t \notin doubtful
          PROVE  interest'[t] # {}
      <4>1. interest'[t] = interest[t]
        BY <1>4 DEF Poll!LwipRemove, Poll!SlotRemove, Poll!clear_in_fd_sets, Poll!PollInv,
           Poll!TypeOK
      <4>2. interest[t] = Poll!FiltersOn(poll_port, asked[t].events) /\ asked[t] \in Poll!Asks
        BY <1>4, <3>2 DEF Poll!LwipRemove, Poll!SlotRemove, Poll!Call, Poll!PollInv,
           Poll!InOrder, Poll!SystemWatches,
           Poll!TypeOK, Poll!FiltersOf
      <4> QED
        BY <1>1, <1>4, <4>1, <4>2, SomeFilters, AsksAreEntries DEF Poll!LwipRemove
    <3>3. MaxFdHolds(s)
      BY <3>1, <3>2, NextMaxFdHolds DEF MaxFdHolds
    <3> QED
      BY <1>1, <1>4, <3>3, SlotRemoveKeeps DEF Poll!LwipRemove
  <2>2. CASE ~(Poll!Find(s) # {} /\ s = max_fd)
    <3>1. MaxFdHolds(s)
      BY <1>4, <2>2 DEF Poll!LwipRemove, MaxFdHolds, Poll!PollInv, Poll!TypeOK
    <3> QED
      BY <1>1, <1>4, <3>1, SlotRemoveKeeps DEF Poll!LwipRemove
  <2> QED
    BY <2>1, <2>2
<1> QED
  BY <1>2, <1>3, <1>4

LEMMA MqxKeeps ==
  ASSUME Poll!PollAssumption, Poll!PollInv, NEW s \in Sockets,
         \/ \E ask \in Poll!Asks : Poll!MqxAdd(s, ask) \/ Poll!MqxModify(s, ask)
         \/ Poll!MqxRemove(s)
  PROVE  Poll!PollInv'
<1>1. poll_port = "mqx" => poll_port \in Poll!SlotPorts /\ poll_port # "lwip"
  BY DEF Poll!SlotPorts
<1>2. max_fd' = max_fd /\ poll_port = "mqx" => MaxFdHolds(s)
  BY DEF MaxFdHolds, Poll!PollInv, Poll!TypeOK
<1>3. ASSUME NEW ask \in Poll!Asks, Poll!MqxAdd(s, ask) PROVE Poll!PollInv'
  BY <1>1, <1>2, <1>3, SlotAddKeeps DEF Poll!MqxAdd
<1>4. ASSUME NEW ask \in Poll!Asks, Poll!MqxModify(s, ask) PROVE Poll!PollInv'
  BY <1>1, <1>4, SlotModifyKeeps DEF Poll!MqxModify
<1>5. ASSUME Poll!MqxRemove(s) PROVE Poll!PollInv'
  BY <1>1, <1>2, <1>5, SlotRemoveKeeps DEF Poll!MqxRemove
<1> QED
  BY <1>3, <1>4, <1>5

----
\* Contexts, sockets and waits.  An empty context counts nothing.
LEMMA NothingIsCounted ==
  ASSUME Poll!PollAssumption, NEW p, NEW f
  PROVE  Counted(p, Poll!NoTree, Poll!NoSlots, f) = 0
<1>1. None \notin With(p, f)
  BY DEF With, Poll!PollAssumption
<1>2. /\ \A s \in Sockets : Poll!NoTree[s] \notin With(p, f)
      /\ \A i \in Poll!Slots : Poll!NoSlots[i] \notin With(p, f)
  BY <1>1 DEF Poll!NoTree, Poll!NoSlots
<1> QED
  BY <1>2, SlotsAreFinite, TallyNone, SameNumbers DEF Counted, Poll!PollAssumption

LEMMA PollInitInv ==
  ASSUME Poll!PollAssumption, Poll!Init
  PROVE  Poll!PollInv
<1>1. /\ tree = Poll!NoTree /\ slots = Poll!NoSlots /\ interest = Poll!NoInterest /\ asked = Poll!NoTree
      /\ count = Poll!NoCount /\ udata = [s \in Sockets |-> Poll!NoData]
      /\ waiting = None /\ valid = FALSE /\ disturbed = FALSE /\ doubtful = {} /\ open = Sockets
      /\ max_fd = -1 /\ poll_port \in Poll!TreePorts \cup Poll!SlotPorts
  BY DEF Poll!Init
<1>2. tree \in [Sockets -> Poll!Entries \cup {None}] /\ asked \in [Sockets -> Poll!Asks \cup {None}]
  BY <1>1 DEF Poll!NoTree
<1>3. slots \in [Poll!Slots -> Poll!Entries \cup {None}]
  BY <1>1 DEF Poll!NoSlots
<1>4. interest \in [Sockets -> SUBSET Poll!Filters]
  BY <1>1 DEF Poll!NoInterest
<1>5. Poll!NoData \in [Poll!Filters -> Items \cup {None}]
  BY DEF Poll!NoData
<1>6. udata \in [Sockets -> [Poll!Filters -> Items \cup {None}]]
  BY <1>1, <1>5
<1>7. count \in [Poll!Filters -> Int]
  BY <1>1 DEF Poll!NoCount
<1>8. valid \in BOOLEAN /\ disturbed \in BOOLEAN
  BY DEF Poll!Init
<1>9. open \subseteq Sockets /\ doubtful \subseteq Sockets /\ max_fd \in Int
  BY DEF Poll!Init
<1>10. waiting \in [Sockets -> SUBSET Poll!Filters] \cup {None} /\ poll_port \in Poll!TreePorts \cup Poll!SlotPorts
  BY DEF Poll!Init
<1>11. Poll!TypeOK
  BY <1>1, <1>2, <1>3, <1>4, <1>6, <1>7, <1>8, <1>9, <1>10 DEF Poll!TypeOK
<1> QED
  BY <1>1, <1>11 DEF Poll!PollInv, Poll!WaitsForAsked, Poll!CountsMatchEntries

LEMMA ContextInitKeeps ==
  ASSUME Poll!PollAssumption, Poll!PollInv, Poll!ContextInit
  PROVE  Poll!PollInv'
<1>1. /\ tree' = Poll!NoTree /\ slots' = Poll!NoSlots /\ interest' = Poll!NoInterest /\ count' = Poll!NoCount
      /\ max_fd' = -1 /\ asked' = Poll!NoTree /\ doubtful' = {} /\ valid' = TRUE
      /\ UNCHANGED <<poll_port, udata, waiting, open, disturbed>> /\ waiting = None
  BY DEF Poll!ContextInit, Poll!PollInv, Poll!WaitsForAsked
<1>2. Poll!TypeOK'
  BY <1>1 DEF Poll!PollInv, Poll!TypeOK, Poll!NoTree, Poll!NoSlots, Poll!NoInterest,
     Poll!NoCount
<1>3. Poll!CountsMatchEntries'
  <2>1. \A f \in Poll!Filters : count'[f] = Counted(poll_port', tree', slots', f)
    BY <1>1, NothingIsCounted DEF Poll!NoCount
  <2> QED
    BY <1>2, <2>1, CountsAreNext
<1>4. \A s \in Sockets : Poll!InOrder(s)'
  <2> SUFFICES ASSUME NEW s \in Sockets PROVE Poll!InOrder(s)'
    OBVIOUS
  <2>1. tree'[s] = None /\ asked'[s] = None /\ interest'[s] = {} /\ Poll!Find(s)' = {}
    BY <1>1 DEF Poll!NoTree, Poll!NoSlots, Poll!NoInterest, Poll!Find
  <2> QED
    BY <2>1 DEF Poll!InOrder, Poll!TreeHolds, Poll!SlotsHold, Poll!SystemWatches
<1> QED
  BY <1>1, <1>2, <1>3, <1>4 DEF Poll!PollInv, Poll!WaitsForAsked

LEMMA ContextDeinitKeeps ==
  ASSUME Poll!PollAssumption, Poll!PollInv, Poll!ContextDeinit
  PROVE  Poll!PollInv'
<1>1. Poll!TypeOK'
  BY DEF Poll!ContextDeinit, Poll!PollInv, Poll!TypeOK, Poll!NoTree, Poll!NoInterest,
     Poll!NoData
<1> QED
  BY <1>1 DEF Poll!ContextDeinit, Poll!PollInv, Poll!WaitsForAsked, Poll!CountsMatchEntries

\* A closed socket that was asked for is in doubt from then on.
LEMMA CloseKeeps ==
  ASSUME Poll!PollAssumption, Poll!PollInv, NEW s \in Sockets, Poll!Close(s)
  PROVE  Poll!PollInv'
<1>1. /\ UNCHANGED <<poll_port, valid, tree, slots, count, max_fd, waiting, asked, disturbed>>
      /\ open' = open \ {s}
      /\ interest' = IF poll_port \in Poll!SelectPorts THEN interest ELSE [interest EXCEPT ![s] = {}]
      /\ udata' = [udata EXCEPT ![s] = Poll!NoData]
      /\ doubtful \ {s} \subseteq doubtful' /\ doubtful' \in SUBSET Sockets
      /\ poll_port \in Poll!SelectPorts => doubtful \subseteq doubtful'
      /\ s \notin doubtful' => asked[s] = None
      /\ s \notin doubtful' /\ poll_port \in Poll!SelectPorts => s \notin doubtful
  BY DEF Poll!Close, Poll!context, Poll!Doubt, Poll!PollInv, Poll!TypeOK
<1>2. Poll!TypeOK'
  BY <1>1 DEF Poll!PollInv, Poll!TypeOK, Poll!NoData
<1>3. Poll!WaitsForAsked'
  BY <1>1 DEF Poll!PollInv, Poll!WaitsForAsked, Poll!SelectPorts
<1>4. Poll!CountsMatchEntries'
  BY <1>1 DEF Poll!PollInv, Poll!CountsMatchEntries, Poll!FiltersOf, Poll!Holes
<1>5. ASSUME valid, NEW t \in Sockets PROVE Poll!InOrder(t)'
  <2>1. CASE t # s
    <3>1. Concerns(s)
      BY <1>1 DEF Concerns, Poll!PollInv, Poll!TypeOK
    <3> QED
      BY <1>5, <2>1, <3>1, OthersStay DEF Poll!PollInv
  <2>2. CASE t = s
    <3>1. CASE poll_port \in Poll!TreePorts
      <4>1. Poll!TreeHolds(s)'
        BY <1>1, <1>5, <3>1 DEF Poll!PollInv, Poll!InOrder, Poll!TreeHolds
      <4>2. s \notin doubtful' => Poll!SystemWatches(s)'
        BY <1>1, <1>5 DEF Poll!PollInv, Poll!TypeOK, Poll!InOrder, Poll!SystemWatches
      <4> QED
        BY <1>1, <2>2, <3>1, <4>1, <4>2 DEF Poll!InOrder
    <3>2. CASE poll_port \in Poll!SlotPorts
      <4>1. /\ interest' = interest /\ Poll!Find(s)' = Poll!Find(s) /\ slots' = slots /\ asked' = asked
            /\ poll_port' = poll_port
        BY <1>1, <3>2 DEF Poll!SlotPorts, Poll!SelectPorts, Poll!Find
      <4>2. s \notin doubtful' => s \notin doubtful /\ asked[s] = None
        BY <1>1, <3>2 DEF Poll!SlotPorts, Poll!SelectPorts
      <4> QED
        BY <1>5, <2>2, <3>2, <4>1, <4>2, SlotsTell, SlotsInOrder
    <3> QED
      BY <3>1, <3>2 DEF Poll!PollInv, Poll!TypeOK
  <2> QED
    BY <2>1, <2>2
<1> QED
  BY <1>1, <1>2, <1>3, <1>4, <1>5 DEF Poll!PollInv

\* The rest leaves alone what is kept of the sockets.
LEMMA RestKeeps ==
  ASSUME Poll!PollInv, Poll!WaitsForAsked',
         UNCHANGED <<poll_port, valid, tree, slots, count, max_fd, interest, udata, asked,
                     doubtful>>,
         open \subseteq open', open' \subseteq Sockets, disturbed' \in BOOLEAN,
         waiting' \in [Sockets -> SUBSET Poll!Filters] \cup {None}
  PROVE  Poll!PollInv'
<1>1. Poll!TypeOK'
  BY DEF Poll!PollInv, Poll!TypeOK
<1>2. Poll!CountsMatchEntries'
  BY DEF Poll!PollInv, Poll!CountsMatchEntries, Poll!FiltersOf, Poll!Holes
<1>3. \A t \in Sockets : Poll!InOrder(t) => Poll!InOrder(t)'
  <2> SUFFICES ASSUME NEW t \in Sockets, Poll!InOrder(t) PROVE Poll!InOrder(t)'
    OBVIOUS
  <2>1. Poll!Find(t)' = Poll!Find(t)
    BY DEF Poll!Find
  <2>2. Poll!TreeHolds(t) => Poll!TreeHolds(t)'
    BY DEF Poll!TreeHolds
  <2>3. Poll!SlotsHold(t) => Poll!SlotsHold(t)'
    BY <2>1 DEF Poll!SlotsHold, Poll!FiltersOf
  <2>4. Poll!SystemWatches(t) => Poll!SystemWatches(t)'
    BY DEF Poll!SystemWatches, Poll!FiltersOf
  <2> QED
    BY <2>2, <2>3, <2>4 DEF Poll!InOrder
<1> QED
  BY <1>1, <1>2, <1>3 DEF Poll!PollInv

LEMMA ReopenKeeps ==
  ASSUME Poll!PollInv, NEW s \in Sockets, Poll!Reopen(s)
  PROVE  Poll!PollInv'
<1>1. /\ UNCHANGED <<poll_port, valid, tree, slots, count, max_fd, interest, udata, asked, doubtful,
                     waiting, disturbed>>
      /\ open' = open \cup {s}
  BY DEF Poll!Reopen, Poll!context, Poll!kernel, Poll!history
<1>2. Poll!WaitsForAsked'
  BY <1>1 DEF Poll!PollInv, Poll!WaitsForAsked
<1> QED
  BY <1>1, <1>2, RestKeeps DEF Poll!PollInv, Poll!TypeOK

\* What a wait on Windows copies is what was asked for.
LEMMA BeginWaitKeeps ==
  ASSUME Poll!PollAssumption, Poll!PollInv, Poll!WindowsBeginWait
  PROVE  Poll!PollInv'
<1>1. /\ UNCHANGED <<poll_port, valid, tree, slots, count, max_fd, interest, udata, asked,
                     doubtful, open>>
      /\ waiting' = interest /\ disturbed' = FALSE /\ valid /\ poll_port = "windows"
  BY DEF Poll!WindowsBeginWait, Poll!context, Poll!kernel
<1>2. \A s \in Sockets : interest[s] # {} => asked[s] # None \/ s \in doubtful
  BY <1>1, TreeTells DEF Poll!TreePorts
<1>3. Poll!WaitsForAsked'
  BY <1>1, <1>2 DEF Poll!WaitsForAsked
<1> QED
  BY <1>1, <1>3, RestKeeps DEF Poll!PollInv, Poll!TypeOK

LEMMA EndWaitKeeps ==
  ASSUME Poll!PollInv, NEW said, Poll!EndWait(said)
  PROVE  Poll!PollInv'
<1>1. /\ UNCHANGED <<poll_port, valid, tree, slots, count, max_fd, interest, udata, asked,
                     doubtful, open>>
      /\ waiting' = None /\ disturbed' = FALSE
  BY DEF Poll!EndWait, Poll!context, Poll!kernel
<1>2. Poll!WaitsForAsked'
  BY <1>1 DEF Poll!WaitsForAsked
<1> QED
  BY <1>1, <1>2, RestKeeps DEF Poll!PollInv, Poll!TypeOK

LEMMA WaitsKeep ==
  ASSUME Poll!PollInv,
         \/ Poll!EpollWait \/ Poll!KqueueWait \/ Poll!WindowsEndWait \/ Poll!LwipWait \/ Poll!MqxWait
         \/ Poll!WaitNoSockets \/ Poll!WaitInVain
  PROVE  Poll!PollInv'
<1>1. CASE Poll!EpollWait
  BY <1>1, EndWaitKeeps DEF Poll!EpollWait, Poll!Event
<1>2. CASE Poll!KqueueWait
  BY <1>2, EndWaitKeeps DEF Poll!KqueueWait, Poll!Event
<1>3. CASE Poll!WindowsEndWait
  BY <1>3, EndWaitKeeps DEF Poll!WindowsEndWait, Poll!Event
<1>4. CASE Poll!LwipWait
  BY <1>4, EndWaitKeeps DEF Poll!LwipWait, Poll!Event
<1>5. CASE Poll!MqxWait
  BY <1>5, EndWaitKeeps DEF Poll!MqxWait, Poll!Event
<1>6. CASE Poll!WaitNoSockets
  BY <1>6, EndWaitKeeps DEF Poll!WaitNoSockets
<1>7. CASE Poll!WaitInVain
  BY <1>7, EndWaitKeeps DEF Poll!WaitInVain
<1> QED
  BY <1>1, <1>2, <1>3, <1>4, <1>5, <1>6, <1>7

\* Every step.
LEMMA PollNextInv ==
  ASSUME Poll!PollAssumption, Poll!PollInv, Poll!Next
  PROVE  Poll!PollInv'
<1>1. CASE \E s \in Sockets : Poll!Close(s) \/ Poll!Reopen(s)
  BY <1>1, CloseKeeps, ReopenKeeps
<1>2. CASE \E s \in Sockets :
             Poll!EpollRemove(s) \/ Poll!KqueueRemove(s) \/ Poll!WindowsRemove(s) \/ Poll!LwipRemove(s) \/ Poll!MqxRemove(s)
  BY <1>2, EpollRemoveKeeps, KqueueRemoveKeeps, WindowsRemoveKeeps, LwipKeeps, MqxKeeps
<1>3. CASE \E s \in Sockets, ask \in Poll!Asks :
             \/ Poll!TreeAddRefused(s, ask) \/ Poll!TreeModifyRefused(s, ask)
             \/ Poll!EpollAdd(s, ask) \/ Poll!EpollRollBack(s, ask) \/ Poll!EpollModify(s, ask)
  <2>1. PICK s \in Sockets, ask \in Poll!Asks :
             \/ Poll!TreeAddRefused(s, ask) \/ Poll!TreeModifyRefused(s, ask)
             \/ Poll!EpollAdd(s, ask) \/ Poll!EpollRollBack(s, ask) \/ Poll!EpollModify(s, ask)
    BY <1>3
  <2> QED
    BY <2>1, TreeCallsRefused, EpollKeeps, EpollModifyKeeps
<1>4. CASE \E s \in Sockets, ask \in Poll!Asks :
             \/ Poll!KqueueAdd(s, ask) \/ Poll!KqueueModify(s, ask)
             \/ Poll!WindowsAdd(s, ask) \/ Poll!WindowsModify(s, ask)
             \/ Poll!LwipAdd(s, ask) \/ Poll!LwipModify(s, ask)
             \/ Poll!MqxAdd(s, ask) \/ Poll!MqxModify(s, ask)
  BY <1>4, KqueueAddKeeps, KqueueModifyKeeps, WindowsAddKeeps, WindowsModifyKeeps,
     LwipKeeps, MqxKeeps
<1>5. CASE Poll!ContextInit \/ Poll!ContextDeinit
  BY <1>5, ContextInitKeeps, ContextDeinitKeeps
<1>6. CASE \/ Poll!EpollWait \/ Poll!KqueueWait \/ Poll!WindowsEndWait \/ Poll!LwipWait \/ Poll!MqxWait
           \/ Poll!WaitNoSockets \/ Poll!WaitInVain
  BY <1>6, WaitsKeep
<1>7. CASE Poll!WindowsBeginWait
  BY <1>7, BeginWaitKeeps
<1> QED
  BY <1>1, <1>2, <1>3, <1>4, <1>5, <1>6, <1>7 DEF Poll!Next

\* What a context and its system know of every socket stays in order through all calls
\* of etcpal_poll_*, those that fail half-way and those that overlap with a wait on
\* Windows included, on each of the five ports.
THEOREM PollInvariant == ASSUME Poll!PollAssumption PROVE Poll!Spec => []Poll!PollInv
<1>1. Poll!Init => Poll!PollInv
  BY PollInitInv
<1>2. Poll!PollInv /\ [Poll!Next]_Poll!vars => Poll!PollInv'
  <2>1. ASSUME Poll!PollInv, UNCHANGED Poll!vars PROVE Poll!PollInv'
    <3>1. UNCHANGED <<poll_port, valid, tree, slots, count, max_fd, interest, udata, asked,
                      doubtful, open,
                      waiting, disturbed>>
      BY <2>1 DEF Poll!vars, Poll!context, Poll!kernel, Poll!history
    <3>2. Poll!WaitsForAsked'
      BY <2>1, <3>1 DEF Poll!PollInv, Poll!WaitsForAsked
    <3> QED
      BY <2>1, <3>1, <3>2, RestKeeps DEF Poll!PollInv, Poll!TypeOK
  <2> QED
    BY <2>1, PollNextInv
<1> QED
  BY <1>1, <1>2, PTL DEF Poll!Spec

\* In order, the system watches each socket that is not in doubt for what was asked.
LEMMA WatchedAsAsked ==
  ASSUME Poll!PollAssumption, Poll!PollInv
  PROVE  Poll!OsWatchesWhatWasAsked
<1> SUFFICES ASSUME valid, NEW s \in Sockets \ doubtful
             PROVE  IF asked[s] = None
                    THEN interest[s] = {} /\ tree[s] = None /\ Poll!Find(s) = {}
                    ELSE /\ interest[s] = Poll!FiltersOf(asked[s].events)
                         /\ IF poll_port \in Poll!TreePorts THEN tree[s] = Poll!Entry(s, asked[s])
                            ELSE slots[Poll!FirstOf(Poll!Find(s))] = Poll!Entry(s, asked[s])
                         /\ poll_port = "macos" => \A f \in interest[s] :
                            udata[s][f] = asked[s].data
                         /\ poll_port = "lwip" => s <= max_fd
  BY DEF Poll!OsWatchesWhatWasAsked
<1>1. Poll!SystemWatches(s)
  BY DEF Poll!PollInv, Poll!InOrder
<1>2. CASE poll_port \in Poll!TreePorts
  <2>1. Poll!Find(s) = {}
    BY <1>2 DEF Poll!PollInv, Poll!TypeOK, Poll!Find, Poll!NoSlots
  <2> QED
    BY <1>1, <1>2, <2>1, TreeTells DEF Poll!SystemWatches
<1>3. CASE poll_port \in Poll!SlotPorts
  <2>1. tree[s] = None /\ poll_port \notin Poll!TreePorts
    BY <1>3 DEF Poll!PollInv, Poll!TypeOK, Poll!NoTree, Poll!SlotPorts, Poll!TreePorts
  <2>2. asked[s] # None => slots[Poll!FirstOf(Poll!Find(s))] = Poll!Entry(s, asked[s])
    BY <1>3, SlotsTell, FirstIsOne DEF Poll!PollAssumption
  <2> QED
    BY <1>1, <1>3, <2>1, <2>2, SlotsTell DEF Poll!SystemWatches
<1> QED
  BY <1>2, <1>3 DEF Poll!PollInv, Poll!TypeOK

----
\* The filters of kqueue and their user data.
LEMMA KeventGivesData ==
  ASSUME Poll!TypeOK, Poll!FiltersHaveData, poll_port = "macos", poll_port' = poll_port, NEW s \in Sockets, NEW old,
         NEW new,
         NEW n \in Poll!Done(s, Poll!Changes(s, old, new)), NEW told \in Items \cup {None},
         Poll!Kevent(s, Poll!Changes(s, old, new), n, told),
         told \in Items \/ new = {}
  PROVE  Poll!FiltersHaveData'
<1> DEFINE q == Poll!Changes(s, old, new)
           done(add) == {q[i].filter : i \in {j \in 1 .. n : q[j].add = add}}
<1>1. q \in Seq(ChangesOfKqueue) /\ n \in 0 .. Len(q)
  BY ChangesAre DEF Poll!Done
<1>2. /\ \A t \in Sockets \ {s} : interest'[t] = interest[t] /\ udata'[t] = udata[t]
  BY <1>1, KeventSome
<1>3. /\ interest'[s] = (interest[s] \cup done(TRUE)) \ done(FALSE)
      /\ \A f \in Poll!Filters : udata'[s][f] = IF f \in done(TRUE) THEN told
                                           ELSE IF f \in done(FALSE) THEN None ELSE udata[s][f]
  BY DEF Poll!Kevent, Poll!TypeOK
<1>4. told \notin Items => done(TRUE) = {}
  <2> SUFFICES ASSUME new = {} PROVE done(TRUE) = {}
    OBVIOUS
  <2>1. In(q) = {DeleteOf(f) : f \in Poll!EpollFilters(old)}
    BY ChangesAre, NoEventsNoFilters
  <2>2. \A i \in 1 .. n : q[i] \in In(q)
    BY <1>1 DEF In
  <2> HIDE DEF q
  <2> QED
    BY <2>1, <2>2 DEF DeleteOf
<1>5. done(TRUE) \subseteq Poll!Filters
  <2>1. \A i \in 1 .. n : q[i] \in ChangesOfKqueue
    BY <1>1
  <2> HIDE DEF q
  <2> QED
    BY <2>1 DEF ChangesOfKqueue
<1> HIDE DEF done
<1>6. \A f \in interest'[s] : udata'[s][f] \in Items
  BY <1>3, <1>4, <1>5 DEF Poll!FiltersHaveData, Poll!TypeOK
<1> QED
  BY <1>2, <1>6 DEF Poll!FiltersHaveData

LEMMA KqueueGivesData ==
  ASSUME Poll!PollAssumption, Poll!PollInv, Poll!FiltersHaveData, NEW s \in Sockets,
         Poll!KqueueRemove(s) \/ \E ask \in Poll!Asks : Poll!KqueueAdd(s, ask) \/ Poll!KqueueModify(s, ask)
  PROVE  Poll!FiltersHaveData'
<1>1. ASSUME NEW ask \in Poll!Asks, Poll!KqueueAdd(s, ask) PROVE Poll!FiltersHaveData'
  BY <1>1, KeventGivesData, AsksAreEntries DEF Poll!KqueueAdd, Poll!PollInv, Poll!Call
<1>2. ASSUME NEW ask \in Poll!Asks, Poll!KqueueModify(s, ask) PROVE Poll!FiltersHaveData'
  BY <1>2, KeventGivesData, AsksAreEntries DEF Poll!KqueueModify, Poll!PollInv, Poll!Call
<1>3. CASE Poll!KqueueRemove(s)
  <2>1. CASE tree[s] = None
    <3>1. Poll!Changes(s, {}, {}) = << >>
      BY NoEventsNoFilters DEF Poll!Changes
    <3> QED
      BY <1>3, <2>1, <3>1, KeventGivesData DEF Poll!KqueueRemove, Poll!PollInv, Poll!Call
  <2>2. CASE tree[s] # None
    BY <1>3, <2>2, KeventGivesData DEF Poll!KqueueRemove, Poll!PollInv, Poll!Call
  <2> QED
    BY <2>1, <2>2
<1> QED
  BY <1>1, <1>2, <1>3

LEMMA DataInv ==
  ASSUME Poll!PollAssumption, Poll!PollInv, Poll!FiltersHaveData, [Poll!Next]_Poll!vars
  PROVE  Poll!FiltersHaveData'
<1> SUFFICES ASSUME poll_port' = "macos" PROVE Poll!FiltersHaveData'
  BY DEF Poll!FiltersHaveData
<1>1. CASE UNCHANGED <<poll_port, Poll!kernel>>
  BY <1>1 DEF Poll!FiltersHaveData, Poll!kernel
<1>2. ASSUME NEW s \in Sockets, Poll!Close(s) PROVE Poll!FiltersHaveData'
  BY <1>2 DEF Poll!Close, Poll!FiltersHaveData, Poll!PollInv, Poll!TypeOK, Poll!SelectPorts
<1>3. CASE Poll!ContextInit \/ Poll!ContextDeinit
  BY <1>3 DEF Poll!ContextInit, Poll!ContextDeinit, Poll!NoInterest, Poll!FiltersHaveData,
     Poll!SelectPorts
<1>4. ASSUME NEW said, Poll!EndWait(said) PROVE Poll!FiltersHaveData'
  BY <1>1, <1>4 DEF Poll!EndWait
<1>5. CASE \/ Poll!EpollWait \/ Poll!KqueueWait \/ Poll!WindowsBeginWait \/ Poll!WindowsEndWait \/ Poll!LwipWait \/ Poll!MqxWait
           \/ Poll!WaitNoSockets \/ Poll!WaitInVain
  BY <1>1, <1>4, <1>5 DEF Poll!EpollWait, Poll!KqueueWait, Poll!WindowsBeginWait,
     Poll!WindowsEndWait, Poll!LwipWait,
     Poll!MqxWait,
       Poll!WaitNoSockets, Poll!WaitInVain, Poll!Event
<1>6. ASSUME NEW s \in Sockets, NEW ask \in Poll!Asks,
             Poll!TreeAddRefused(s, ask) \/ Poll!TreeModifyRefused(s, ask)
      PROVE  Poll!FiltersHaveData'
  BY <1>1, <1>6 DEF Poll!TreeAddRefused, Poll!TreeModifyRefused, Poll!Refuse, Poll!Call
<1>7. ASSUME NEW s \in Sockets, Poll!Reopen(s) PROVE Poll!FiltersHaveData'
  BY <1>1, <1>7 DEF Poll!Reopen
<1>8. poll_port # "macos" => poll_port' # poll_port
  OBVIOUS
<1>9. ASSUME NEW s \in Sockets, NEW ask \in Poll!Asks,
             \/ Poll!EpollAdd(s, ask) \/ Poll!EpollRollBack(s, ask) \/ Poll!EpollModify(s, ask)
             \/ Poll!WindowsAdd(s, ask) \/ Poll!WindowsModify(s, ask)
             \/ Poll!LwipAdd(s, ask) \/ Poll!LwipModify(s, ask)
             \/ Poll!MqxAdd(s, ask) \/ Poll!MqxModify(s, ask)
      PROVE  FALSE
  BY <1>8, <1>9 DEF Poll!EpollAdd, Poll!EpollRollBack, Poll!EpollModify, Poll!WindowsAdd,
     Poll!WindowsModify,
       Poll!LwipAdd, Poll!LwipModify, Poll!MqxAdd, Poll!MqxModify, Poll!SlotAdd, Poll!SlotModify, Poll!Call
<1>10. ASSUME NEW s \in Sockets,
              Poll!EpollRemove(s) \/ Poll!WindowsRemove(s) \/ Poll!LwipRemove(s) \/ Poll!MqxRemove(s)
       PROVE  FALSE
  BY <1>8, <1>10 DEF Poll!EpollRemove, Poll!WindowsRemove, Poll!LwipRemove, Poll!MqxRemove,
     Poll!SlotRemove, Poll!Call
<1> QED
  BY <1>1, <1>2, <1>3, <1>5, <1>6, <1>7, <1>9, <1>10, KqueueGivesData DEF Poll!Next,
     Poll!vars

\* Whatever calls came before, the system watches each socket that is not in doubt for what
\* was last asked of it, with its user data, and watches no other.
THEOREM OsAlwaysWatchesWhatWasAsked ==
  ASSUME Poll!PollAssumption PROVE Poll!Spec => []OsWatchesWhatWasAsked
<1>1. Poll!Init => Poll!FiltersHaveData
  BY DEF Poll!Init, Poll!NoInterest, Poll!FiltersHaveData
<1>2. Poll!PollInv /\ Poll!FiltersHaveData /\ [Poll!Next]_Poll!vars => Poll!FiltersHaveData'
  BY DataInv
<1>3. Poll!PollInv /\ Poll!FiltersHaveData => OsWatchesWhatWasAsked
  BY WatchedAsAsked DEF OsWatchesWhatWasAsked
<1> QED
  BY <1>1, <1>2, <1>3, PollInvariant, PTL DEF Poll!Spec

----
\* Every step is one of the promises of PollApi.

\* Calls that succeed, that fail and that remove, as PollApi has them.
LEMMA Accepted ==
  ASSUME NEW s \in Sockets, NEW ask, NEW half, Poll!Call, Poll!Asked(s, ask, "Ok"),
         doubtful' \subseteq IF half THEN doubtful \cup {s} ELSE doubtful
  PROVE  Poll!Api!Accept(s, ask, half)
BY DEF Poll!Call, Poll!Asked, Poll!Said, Poll!Api!Accept, Poll!Api!Call, Poll!Api!Said,
   Poll!Api!frame

LEMMA Refused ==
  ASSUME NEW s \in Sockets, NEW result, NEW half, Poll!Call, reply' = Poll!Said(result),
         UNCHANGED <<asked, disturbed>>,
         doubtful' \subseteq IF half THEN doubtful \cup {s} ELSE doubtful
  PROVE  Poll!Api!Refuse(s, result, half)
BY DEF Poll!Call, Poll!Said, Poll!Api!Refuse, Poll!Api!Call, Poll!Api!Said, Poll!Api!frame

LEMMA RefusedOutright ==
  ASSUME NEW s \in Sockets, NEW result, NEW half \in BOOLEAN, Poll!Call, Poll!Refuse(s, result),
         result # "Ok"
  PROVE  Poll!Api!Refuse(s, result, half)
BY Refused DEF Poll!Refuse, Poll!Asked, Poll!Certain

LEMMA Removed ==
  ASSUME NEW s \in Sockets, Poll!Call, Poll!Forgotten(s)
  PROVE  Poll!Api!Next
<1>1. Poll!Api!Remove(s)
  BY DEF Poll!Call, Poll!Forgotten, Poll!Said, Poll!Api!Remove, Poll!Api!Call,
     Poll!Api!Said, Poll!Api!frame
<1> QED
  BY <1>1 DEF Poll!Api!Next

LEMMA AddIsNext ==
  ASSUME NEW s \in Sockets, NEW ask \in Poll!Asks, Poll!Api!Add(s, ask) \/ Poll!Api!Modify(s, ask)
  PROVE  Poll!Api!Next
BY DEF Poll!Api!Next

\* Adding and modifying on Linux, macOS and Windows.
LEMMA LinuxAsApi ==
  ASSUME Poll!PollAssumption, Poll!PollInv, NEW s \in Sockets, NEW ask \in Poll!Asks,
         Poll!EpollAdd(s, ask) \/ Poll!EpollRollBack(s, ask) \/ Poll!EpollModify(s, ask)
  PROVE  Poll!Api!Next
<1>1. CASE Poll!EpollAdd(s, ask)
  BY <1>1, Accepted, AddIsNext DEF Poll!EpollAdd, Poll!Certain, Poll!Api!Add
<1>2. CASE Poll!EpollRollBack(s, ask)
  BY <1>2, RefusedOutright, AddIsNext DEF Poll!EpollRollBack, Poll!Api!Add
<1>3. CASE Poll!EpollModify(s, ask)
  <2>1. asked[s] # None /\ Poll!Call
    BY <1>3, TreeTells DEF Poll!EpollModify, Poll!Call, Poll!TreePorts
  <2>2. (Poll!Asked(s, ask, "Ok") /\ Poll!Certain) \/ Poll!Refuse(s, "OsError")
    BY <1>3 DEF Poll!EpollModify
  <2>3. Poll!Api!Accept(s, ask, FALSE) \/ Poll!Api!Refuse(s, "OsError", TRUE)
    BY <2>1, <2>2, Accepted, RefusedOutright DEF Poll!Certain
  <2> QED
    BY <2>1, <2>3, AddIsNext DEF Poll!Api!Modify
<1> QED
  BY <1>1, <1>2, <1>3

LEMMA MacAsApi ==
  ASSUME Poll!PollAssumption, Poll!PollInv, NEW s \in Sockets, NEW ask \in Poll!Asks,
         Poll!KqueueAdd(s, ask) \/ Poll!KqueueModify(s, ask)
  PROVE  Poll!Api!Next
<1>1. /\ Poll!Call /\ poll_port \in Poll!TreePorts
      /\ \/ Poll!Asked(s, ask, "Ok") /\ Poll!Certain
         \/ Poll!Asked(s, ask, "OsError") /\ (Poll!Certain \/ Poll!Doubt(s))
      /\ Poll!KqueueModify(s, ask) => tree[s] # None
  BY DEF Poll!KqueueAdd, Poll!KqueueModify, Poll!TreePorts
<1>2. \/ Poll!Api!Accept(s, ask, asked[s] # None) /\ Poll!Api!Accept(s, ask, FALSE)
      \/ Poll!Api!Refuse(s, "OsError", TRUE)
  BY <1>1, Accepted, Refused DEF Poll!Asked, Poll!Certain, Poll!Doubt
<1>3. Poll!KqueueModify(s, ask) => asked[s] # None
  BY <1>1, TreeTells DEF Poll!Call
<1> QED
  BY <1>2, <1>3, AddIsNext DEF Poll!Api!Add, Poll!Api!Modify

\* The tree holds the sockets that the application asked for.
LEMMA TreeIsWatched ==
  ASSUME Poll!PollAssumption, Poll!PollInv, valid, poll_port \in Poll!TreePorts
  PROVE  Poll!Api!Watched = {s \in Sockets : tree[s] # None}
BY TreeTells DEF Poll!Api!Watched

LEMMA TreeRefusalsAsApi ==
  ASSUME Poll!PollAssumption, Poll!PollInv, NEW s \in Sockets, NEW ask \in Poll!Asks,
         Poll!TreeAddRefused(s, ask) \/ Poll!TreeModifyRefused(s, ask)
  PROVE  Poll!Api!Next
<1>1. CASE Poll!TreeAddRefused(s, ask)
  <2>1. /\ Poll!Call /\ poll_port \in Poll!TreePorts
        /\ \/ tree[s] # None /\ Poll!Refuse(s, "Exists")
           \/ Poll!Refuse(s, "OutOfMemory")
    BY <1>1 DEF Poll!TreeAddRefused
  <2>2. \/ asked[s] # None /\ Poll!Api!Refuse(s, "Exists", FALSE)
        \/ Poll!Api!Refuse(s, "OutOfMemory", FALSE)
    BY <2>1, TreeTells, RefusedOutright DEF Poll!Call
  <2> QED
    BY <2>2, AddIsNext DEF Poll!Api!Add
<1>2. CASE Poll!TreeModifyRefused(s, ask)
  <2>1. Poll!Call /\ poll_port \in Poll!TreePorts /\ tree[s] = None /\ Poll!Refuse(s, "NotFound")
    BY <1>2 DEF Poll!TreeModifyRefused
  <2>2. asked[s] = None /\ Poll!Api!Refuse(s, "NotFound", FALSE)
    BY <2>1, TreeTells, RefusedOutright DEF Poll!Call
  <2> QED
    BY <2>2, AddIsNext DEF Poll!Api!Modify
<1> QED
  BY <1>1, <1>2

LEMMA WindowsAsApi ==
  ASSUME Poll!PollAssumption, Poll!PollInv, NEW s \in Sockets, NEW ask \in Poll!Asks,
         Poll!WindowsAdd(s, ask) \/ Poll!WindowsModify(s, ask)
  PROVE  Poll!Api!Next
<1>1. Poll!Call /\ poll_port \in Poll!TreePorts /\ valid
  BY DEF Poll!WindowsAdd, Poll!WindowsModify, Poll!TreePorts, Poll!Call
<1>2. CASE Poll!Refuse(s, "NoMem") /\ Poll!Size >= MaxPoll
  <2>1. Poll!Api!Cardinality(Poll!Api!Watched) >= MaxPoll
    BY <1>1, <1>2, TreeIsWatched, SameNumbers DEF Poll!Size
  <2>2. Poll!Api!Refuse(s, "NoMem", FALSE)
    BY <1>1, <1>2, RefusedOutright
  <2> QED
    BY <2>1, <2>2, AddIsNext DEF Poll!Api!Add
<1>3. CASE Poll!Asked(s, ask, "Ok") /\ Poll!Certain
  <2>1. Poll!Api!Accept(s, ask, asked[s] # None) /\ Poll!Api!Accept(s, ask, FALSE)
    BY <1>1, <1>3, Accepted DEF Poll!Certain
  <2>2. Poll!WindowsModify(s, ask) => asked[s] # None
    BY <1>1, TreeTells DEF Poll!WindowsModify
  <2> QED
    BY <2>1, <2>2, AddIsNext DEF Poll!Api!Add, Poll!Api!Modify
<1> QED
  BY <1>2, <1>3 DEF Poll!WindowsAdd, Poll!WindowsModify

\* When no slot is free and no socket is in doubt, the slots are of as many sockets.
LEMMA FullArray ==
  ASSUME Poll!PollAssumption, Poll!PollInv, valid, poll_port \in Poll!SlotPorts, Poll!Holes = {}, doubtful = {}
  PROVE  Cardinality(Poll!Api!Watched) >= MaxPoll
<1> DEFINE sock == [i \in Poll!Slots |-> slots[i].sock]
<1>1. ASSUME NEW i \in Poll!Slots
      PROVE  slots[i] \in Poll!Entries /\ slots[i] # None /\ i \in Poll!Find(slots[i].sock)
  BY DEF Poll!PollInv, Poll!TypeOK, Poll!Holes, Poll!Find
<1>2. ASSUME NEW i \in Poll!Slots PROVE slots[i].sock \in Sockets
  BY <1>1 DEF Poll!Entries
<1>3. ASSUME NEW i \in Poll!Slots PROVE Poll!Find(slots[i].sock) = {i} /\ asked[slots[i].sock] # None
  BY <1>1, <1>2, SlotsTell
<1>4. sock \in [Poll!Slots -> Poll!Api!Watched]
  BY <1>2, <1>3 DEF Poll!Api!Watched
<1>5. \A i, j \in Poll!Slots : sock[i] = sock[j] => i = j
  BY <1>1, <1>3
<1>6. Poll!Api!Watched \subseteq Sockets /\ IsFiniteSet(Sockets)
  BY SameNumbers DEF Poll!Api!Watched, Poll!PollAssumption
<1>7. IsFiniteSet(Poll!Api!Watched) /\ Cardinality(Poll!Api!Watched) \in Nat
  BY <1>6, FS_Subset, FS_CardinalityType
<1>8. IsFiniteSet(Poll!Slots) /\ Cardinality(Poll!Slots) = MaxPoll
  BY SlotsAreFinite, FS_Interval DEF Poll!Slots, Poll!PollAssumption
<1> HIDE DEF sock
<1>9. ~ Cardinality(Poll!Api!Watched) < Cardinality(Poll!Slots)
  BY <1>4, <1>5, <1>7, <1>8, FS_PigeonHole
<1> QED
  BY <1>7, <1>8, <1>9 DEF Poll!PollAssumption

\* Adding and modifying where there is an array.
LEMMA SlotsAsApi ==
  ASSUME Poll!PollAssumption, Poll!PollInv, poll_port \in Poll!SlotPorts, NEW s \in Sockets, NEW ask \in Poll!Asks,
         Poll!SlotAdd(s, ask) \/ Poll!SlotModify(s, ask)
  PROVE  Poll!Api!Next
<1>1. Poll!Call /\ valid
  BY DEF Poll!SlotAdd, Poll!SlotModify, Poll!Call
<1>2. CASE Poll!SlotAdd(s, ask) /\ Poll!Holes = {}
  <2>1. Poll!Api!Refuse(s, "NoMem", FALSE)
    BY <1>1, <1>2, RefusedOutright DEF Poll!SlotAdd
  <2>2. doubtful # {} \/ Poll!Api!Cardinality(Poll!Api!Watched) >= MaxPoll
    BY <1>1, <1>2, FullArray, SameNumbers
  <2> QED
    BY <2>1, <2>2, AddIsNext DEF Poll!Api!Add
<1>3. CASE Poll!SlotAdd(s, ask) /\ Poll!Holes # {}
  <2>1. Poll!Asked(s, ask, "Ok") /\ (IF Poll!Find(s) = {} THEN Poll!Certain ELSE Poll!Doubt(s))
    BY <1>3 DEF Poll!SlotAdd
  <2>2. doubtful' \subseteq IF asked[s] # None THEN doubtful \cup {s} ELSE doubtful
    <3>1. CASE Poll!Find(s) = {}
      BY <2>1, <3>1 DEF Poll!Certain
    <3>2. CASE Poll!Find(s) # {} /\ s \in doubtful
      BY <2>1, <3>2 DEF Poll!Doubt
    <3>3. CASE Poll!Find(s) # {} /\ s \notin doubtful
      BY <1>1, <2>1, <3>3, SlotsTell DEF Poll!Doubt
    <3> QED
      BY <3>1, <3>2, <3>3
  <2>3. Poll!Api!Accept(s, ask, asked[s] # None)
    BY <1>1, <2>1, <2>2, Accepted
  <2> QED
    BY <2>3, AddIsNext DEF Poll!Api!Add
<1>4. CASE Poll!SlotModify(s, ask) /\ Poll!Find(s) = {}
  <2>1. asked[s] = None /\ Poll!Api!Refuse(s, "NotFound", FALSE)
    BY <1>1, <1>4, SlotsTell, RefusedOutright DEF Poll!SlotModify
  <2> QED
    BY <2>1, AddIsNext DEF Poll!Api!Modify
<1>5. CASE Poll!SlotModify(s, ask) /\ Poll!Find(s) # {}
  <2>1. asked[s] # None \/ s \in doubtful
    BY <1>1, <1>5, SlotsTell
  <2>2. Poll!Asked(s, ask, "Ok") /\ Poll!Certain
    BY <1>5 DEF Poll!SlotModify
  <2>3. Poll!Api!Accept(s, ask, FALSE)
    BY <1>1, <2>2, Accepted DEF Poll!Certain
  <2> QED
    BY <2>1, <2>3, AddIsNext DEF Poll!Api!Modify
<1> QED
  BY <1>2, <1>3, <1>4, <1>5

----
\* The ends of a wait.
LEMMA EventTypes ==
  ASSUME Poll!PollAssumption, NEW asks \in EventSets
  PROVE  asks \subseteq Poll!Events
BY DEF Poll!PollAssumption

\* An event of a socket that is not in doubt is one that was asked for.
LEMMA Reported ==
  ASSUME Poll!PollAssumption, Poll!PollInv, valid, NEW s \in Sockets, NEW events, NEW told \in Items,
         Poll!Event(s, events, told), events \subseteq Poll!Events \cup {"err"},
         s \notin doubtful => /\ asked[s] # None /\ told = asked[s].data
                              /\ events \subseteq asked[s].events \cup {"err"}
  PROVE  Poll!Api!Next
<1>1. Poll!Api!Report(s, events, told)
  BY DEF Poll!Event, Poll!EndWait, Poll!Api!Report, Poll!Api!EndWait, Poll!Api!frame,
     Poll!Api!Watched, Poll!context
<1> QED
  BY <1>1 DEF Poll!Api!Next

LEMMA Ended ==
  ASSUME valid, NEW said, Poll!EndWait(said)
  PROVE  Poll!Api!EndWait(said)
BY DEF Poll!EndWait, Poll!Api!EndWait, Poll!Api!frame, Poll!context

LEMMA EpollWaitAsApi ==
  ASSUME Poll!PollAssumption, Poll!PollInv, Poll!EpollWait
  PROVE  Poll!Api!Next
<1>1. PICK s \in Sockets : \E bits \in (SUBSET (interest[s] \cup {"err", "hup"})) \ {{}} :
        /\ interest[s] # {}
        /\ IF tree[s] = None THEN Poll!EndWait(Poll!Said("Sys"))
           ELSE \E events \in Poll!WithError(Poll!EpollEvents(bits, tree[s].events)) :
                  Poll!Event(s, events, tree[s].data)
  BY DEF Poll!EpollWait
<1>2. valid /\ poll_port \in Poll!TreePorts /\ poll_port = "linux"
  BY DEF Poll!EpollWait, Poll!TreePorts
<1>3. CASE tree[s] = None
  <2>1. s \in doubtful
    BY <1>1, <1>2, <1>3, TreeTells
  <2>2. Poll!Api!EndWait(Poll!Said("Sys"))
    BY <1>1, <1>2, <1>3, Ended
  <2> QED
    BY <2>1, <2>2 DEF Poll!Said, Poll!Api!Said, Poll!Api!NoReport, Poll!Api!Next
<1>4. CASE tree[s] # None
  <2>1. PICK bits \in SUBSET (interest[s] \cup {"err", "hup"}) :
          \E events \in Poll!WithError(Poll!EpollEvents(bits, tree[s].events)) : Poll!Event(s, events,
            tree[s].data)
    BY <1>1, <1>4
  <2>2. PICK events \in Poll!WithError(Poll!EpollEvents(bits, tree[s].events)) : Poll!Event(s, events,
             tree[s].data)
    BY <2>1
  <2> DEFINE asks == tree[s].events
  <2>3. /\ asked[s] \in Poll!Asks /\ asked[s] # None
        /\ asks = asked[s].events /\ tree[s].data = asked[s].data
    BY <1>2, <1>4, TreeTells
  <2>4. asks \subseteq Poll!Events /\ tree[s].data \in Items
    BY <2>3, AsksAreEntries
  <2>5. events \subseteq Poll!EpollEvents(bits, asks) \cup {"err"}
    BY <2>2 DEF Poll!WithError
  <2>6. Poll!EpollEvents(bits, asks) \subseteq Poll!Events \cup {"err"}
    BY <2>4 DEF Poll!EpollEvents, Poll!WriteEvents, Poll!Events
  <2>7. s \notin doubtful => Poll!EpollEvents(bits, asks) \subseteq asks \cup {"err"}
    <3> SUFFICES ASSUME s \notin doubtful
                 PROVE  Poll!EpollEvents(bits, asks) \subseteq asks \cup {"err"}
      OBVIOUS
    <3>1. interest[s] = Poll!EpollFilters(asks)
      BY <1>2, <1>4, TreeTells, FiltersByPort
    <3>2. /\ "read" \in bits => "in" \in asks
          /\ "except" \in bits => "oob" \in asks
      BY <3>1 DEF Poll!EpollFilters, Poll!Readable, Poll!Writable
    <3> QED
      BY <3>2 DEF Poll!EpollEvents, Poll!WriteEvents
  <2> HIDE DEF asks
  <2> QED
    BY <1>2, <2>2, <2>3, <2>4, <2>5, <2>6, <2>7, Reported
<1> QED
  BY <1>3, <1>4

LEMMA KqueueWaitAsApi ==
  ASSUME Poll!PollAssumption, Poll!PollInv, Poll!FiltersHaveData, Poll!KqueueWait
  PROVE  Poll!Api!Next
<1>0. PICK s \in Sockets : \E filter \in interest[s], eof, oob \in BOOLEAN :
        IF tree[s] = None THEN Poll!EndWait(Poll!Said("Sys"))
        ELSE \E events \in Poll!WithError(Poll!KqueueEvents(filter, eof, oob, tree[s].events)) :
               Poll!Event(s, events, udata[s][filter])
  BY DEF Poll!KqueueWait
<1>1. PICK filter \in interest[s], eof \in BOOLEAN, oob \in BOOLEAN :
        IF tree[s] = None THEN Poll!EndWait(Poll!Said("Sys"))
        ELSE \E events \in Poll!WithError(Poll!KqueueEvents(filter, eof, oob, tree[s].events)) :
               Poll!Event(s, events, udata[s][filter])
  BY <1>0
<1>2. valid /\ poll_port \in Poll!TreePorts /\ poll_port = "macos"
  BY DEF Poll!KqueueWait, Poll!TreePorts
<1>3. CASE tree[s] = None
  <2>1. s \in doubtful
    BY <1>1, <1>2, <1>3, TreeTells
  <2>2. Poll!Api!EndWait(Poll!Said("Sys"))
    BY <1>1, <1>2, <1>3, Ended
  <2> QED
    BY <2>1, <2>2 DEF Poll!Said, Poll!Api!Said, Poll!Api!NoReport, Poll!Api!Next
<1>4. CASE tree[s] # None
  <2>1. PICK events \in Poll!WithError(Poll!KqueueEvents(filter, eof, oob, tree[s].events)) :
          Poll!Event(s, events, udata[s][filter])
    BY <1>1, <1>4
  <2> DEFINE asks == tree[s].events
             seen == Poll!KqueueEvents(filter, eof, oob, asks)
  <2>2. asked[s] \in Poll!Asks /\ asks = asked[s].events /\ asked[s] # None
    BY <1>2, <1>4, TreeTells
  <2>3. asks \subseteq Poll!Events /\ udata[s][filter] \in Items /\ filter \in Poll!Filters
    BY <1>2, <2>2, AsksAreEntries DEF Poll!FiltersHaveData, Poll!PollInv, Poll!TypeOK
  <2>4. events \subseteq seen \cup {"err"}
    BY <2>1 DEF Poll!WithError
  <2>5. seen \subseteq IF filter = "read" THEN {"in", "err"} \cup (asks \cap {"oob"})
                       ELSE IF filter = "write" THEN {"err"} \cup (asks \cap {"out", "connect"})
                       ELSE {"oob", "err"}
    BY <2>3 DEF Poll!KqueueEvents, Poll!WriteEvents, Poll!Filters
  <2>6. seen \subseteq Poll!Events \cup {"err"}
    BY <2>5 DEF Poll!Events
  <2>7. s \notin doubtful =>
        seen \subseteq asks \cup {"err"} /\ udata[s][filter] = asked[s].data
    <3> SUFFICES ASSUME s \notin doubtful
                 PROVE  seen \subseteq asks \cup {"err"} /\ udata[s][filter] = asked[s].data
      OBVIOUS
    <3>1. interest[s] = Poll!EpollFilters(asks)
      BY <1>2, <1>4, TreeTells, FiltersByPort
    <3>2. /\ filter = "read" => "in" \in asks
          /\ filter \notin {"read", "write"} => "oob" \in asks
      BY <2>3, <3>1 DEF Poll!EpollFilters, Poll!Readable, Poll!Writable, Poll!Filters
    <3>3. Poll!SystemWatches(s)
      BY <1>2 DEF Poll!PollInv, Poll!InOrder
    <3>4. udata[s][filter] = asked[s].data
      BY <1>2, <2>2, <3>3 DEF Poll!SystemWatches
    <3> HIDE DEF seen, asks
    <3> QED
      BY <2>5, <3>2, <3>4
  <2> HIDE DEF asks, seen
  <2> QED
    BY <1>2, <2>1, <2>2, <2>3, <2>4, <2>6, <2>7, Reported
<1> QED
  BY <1>3, <1>4

LEMMA WindowsWaitAsApi ==
  ASSUME Poll!PollAssumption, Poll!PollInv, Poll!WindowsEndWait
  PROVE  Poll!Api!Next
<1>1. valid /\ poll_port \in Poll!TreePorts /\ waiting # None
  BY DEF Poll!WindowsEndWait, Poll!PollInv, Poll!WaitsForAsked, Poll!TreePorts
<1>2. PICK S \in Poll!Selectable(waiting) :
        \/ Poll!FirstInTree(S) = {} /\ Poll!EndWait(Poll!Said("Sys"))
        \/ \E s \in Poll!FirstInTree(S) : \E bits \in (SUBSET waiting[s]) \ {{}} :
             \E events \in Poll!WithError(Poll!WindowsEvents(bits, tree[s].events)) :
               Poll!Event(s, events, tree[s].data)
  BY DEF Poll!WindowsEndWait
<1>3. S # {} /\ S \subseteq Sockets /\ \A s \in S : waiting[s] # {}
  BY DEF Poll!Selectable, Poll!PollInv, Poll!TypeOK
<1>4. CASE Poll!FirstInTree(S) = {} /\ Poll!EndWait(Poll!Said("Sys"))
  <2>1. \A s \in S : tree[s] = None
    <3> DEFINE T == {s \in S : tree[s] # None}
    <3> SUFFICES ASSUME T # {} PROVE FALSE
      OBVIOUS
    <3>1. T \in SUBSET Nat
      BY <1>3 DEF Poll!PollAssumption
    <3>2. PICK s \in T : \A t \in T : s <= t
      BY <3>1, HasLeast
    <3>3. s \in Poll!FirstInTree(S)
      BY <3>2 DEF Poll!FirstInTree
    <3> QED
      BY <1>4, <3>3
  <2>2. PICK s \in S : s \in Sockets /\ tree[s] = None /\ waiting[s] # {}
    BY <1>3, <2>1
  <2>3. asked[s] = None
    BY <1>1, <2>2, TreeTells
  <2>4. disturbed \/ doubtful # {}
    BY <1>1, <2>2, <2>3 DEF Poll!PollInv, Poll!WaitsForAsked
  <2>5. Poll!Api!EndWait(Poll!Said("Sys"))
    BY <1>1, <1>4, Ended
  <2> QED
    BY <2>4, <2>5 DEF Poll!Said, Poll!Api!Said, Poll!Api!NoReport, Poll!Api!Next
<1>5. CASE \E s \in Poll!FirstInTree(S) : \E bits \in (SUBSET waiting[s]) \ {{}} :
             \E events \in Poll!WithError(Poll!WindowsEvents(bits, tree[s].events)) :
               Poll!Event(s, events, tree[s].data)
  <2>1. PICK s \in Poll!FirstInTree(S) : \E bits \in (SUBSET waiting[s]) \ {{}} :
             \E events \in Poll!WithError(Poll!WindowsEvents(bits, tree[s].events)) :
               Poll!Event(s, events, tree[s].data)
    BY <1>5
  <2>2. PICK bits, events : /\ events \in Poll!WithError(Poll!WindowsEvents(bits, tree[s].events))
                            /\ Poll!Event(s, events, tree[s].data)
    BY <2>1
  <2>3. s \in Sockets /\ tree[s] # None
    BY <1>3 DEF Poll!FirstInTree
  <2>4. /\ asked[s] \in Poll!Asks /\ asked[s] # None
        /\ tree[s].events = asked[s].events /\ tree[s].data = asked[s].data
    BY <1>1, <2>3, TreeTells
  <2>5. tree[s].events \subseteq Poll!Events /\ tree[s].data \in Items
    BY <2>3, <2>4, AsksAreEntries
  <2>6. events \subseteq tree[s].events \cup {"err"}
    BY <2>2 DEF Poll!WithError, Poll!WindowsEvents
  <2>7. events \subseteq Poll!Events \cup {"err"}
    BY <2>5, <2>6
  <2> QED
    BY <1>1, <2>2, <2>3, <2>4, <2>5, <2>6, <2>7, Reported
<1> QED
  BY <1>2, <1>4, <1>5

\* What select returns of an array is in a slot.
LEMMA FirstSlotTells ==
  ASSUME Poll!PollAssumption, Poll!PollInv, valid, poll_port \in Poll!SlotPorts, NEW S \in Poll!Selectable(interest)
  PROVE  /\ Poll!FirstSlot(S) \in Poll!Entries
         /\ Poll!FirstSlot(S).sock \in Sockets
         /\ LET s == Poll!FirstSlot(S).sock IN
            s \notin doubtful => /\ asked[s] # None /\ Poll!FirstSlot(S).data = asked[s].data
                                 /\ Poll!FirstSlot(S).events = asked[s].events
<1> DEFINE hits == {i \in Poll!Slots : slots[i] # None /\ slots[i].sock \in S}
<1>1. PICK s \in S : s \in Sockets /\ interest[s] # {}
  BY DEF Poll!Selectable, Poll!PollInv, Poll!TypeOK
<1>2. PICK i \in Poll!Find(s) : i \in Poll!Slots
  BY <1>1, SlotsTell
<1>3. i \in hits
  BY <1>2 DEF Poll!Find
<1>4. Poll!FirstOf(hits) \in hits
  BY <1>3, FirstIsOne DEF Poll!PollAssumption
<1>5. Poll!FirstSlot(S) = slots[Poll!FirstOf(hits)]
  BY <1>3 DEF Poll!FirstSlot
<1>6. PICK entry \in Poll!Entries : entry = slots[Poll!FirstOf(hits)]
  BY <1>4 DEF Poll!PollInv, Poll!TypeOK
<1>7. entry.sock \in Sockets
  BY DEF Poll!Entries
<1>8. Poll!FirstOf(hits) \in Poll!Find(entry.sock)
  BY <1>4, <1>6 DEF Poll!Find
<1>9. entry.sock \notin doubtful =>
        asked[entry.sock] # None /\ entry = Poll!Entry(entry.sock, asked[entry.sock])
  BY <1>6, <1>7, <1>8, SlotsTell
<1>10. entry.sock \notin doubtful =>
         /\ asked[entry.sock] # None /\ entry.data = asked[entry.sock].data
         /\ entry.events = asked[entry.sock].events
  BY <1>9 DEF Poll!Entry
<1> QED
  BY <1>5, <1>6, <1>7, <1>10

LEMMA SlotReported ==
  ASSUME Poll!PollAssumption, Poll!PollInv, valid, poll_port \in Poll!SlotPorts, NEW S \in Poll!Selectable(interest),
         NEW events,
         Poll!Event(Poll!FirstSlot(S).sock, events, Poll!FirstSlot(S).data),
         events \subseteq Poll!FirstSlot(S).events \cup {"err"}
  PROVE  Poll!Api!Next
<1>1. PICK entry \in Poll!Entries : entry = Poll!FirstSlot(S)
  BY FirstSlotTells
<1>2. entry.sock \in Sockets /\ entry.events \in EventSets /\ entry.data \in Items
  BY DEF Poll!Entries
<1>3. events \subseteq Poll!Events \cup {"err"}
  BY <1>1, <1>2, EventTypes
<1>4. entry.sock \notin doubtful =>
        /\ asked[entry.sock] # None /\ entry.data = asked[entry.sock].data
        /\ entry.events = asked[entry.sock].events
  BY <1>1, FirstSlotTells
<1> QED
  BY <1>1, <1>2, <1>3, <1>4, Reported

LEMMA SlotWaitAsApi ==
  ASSUME Poll!PollAssumption, Poll!PollInv, Poll!LwipWait \/ Poll!MqxWait
  PROVE  Poll!Api!Next
<1>1. valid /\ poll_port \in Poll!SlotPorts
  BY DEF Poll!LwipWait, Poll!MqxWait, Poll!SlotPorts
<1>2. \A bits, asks, failed : /\ Poll!LwipEvents(bits, asks) \subseteq asks \cup {"err"}
                              /\ Poll!MqxEvents(bits, asks, failed) \subseteq asks \cup {"err"}
  BY DEF Poll!LwipEvents, Poll!MqxEvents
<1>3. CASE Poll!LwipWait
  <2>1. PICK S \in Poll!Selectable(interest) : \E bits \in SUBSET interest[Poll!FirstSlot(S).sock] :
          Poll!Event(Poll!FirstSlot(S).sock, Poll!LwipEvents(bits, Poll!FirstSlot(S).events), Poll!FirstSlot(S).data)
    BY <1>3 DEF Poll!LwipWait
  <2> QED
    BY <1>1, <1>2, <2>1, SlotReported
<1>4. CASE Poll!MqxWait
  <2>1. PICK S \in Poll!Selectable(interest) : \E bits \in SUBSET interest[Poll!FirstSlot(S).sock],
             failed \in BOOLEAN :
          Poll!Event(Poll!FirstSlot(S).sock, Poll!MqxEvents(bits, Poll!FirstSlot(S).events, failed),
            Poll!FirstSlot(S).data)
    BY <1>4 DEF Poll!MqxWait
  <2> QED
    BY <1>1, <1>2, <2>1, SlotReported
<1> QED
  BY <1>3, <1>4

\* No wait is for nothing while a socket is asked for that the system can wait for.
LEMMA NobodyWatched ==
  ASSUME Poll!PollAssumption, Poll!PollInv, valid, Poll!Unwatched
  PROVE  Poll!Api!Waitable \subseteq doubtful
<1> SUFFICES ASSUME NEW s \in Sockets, asked[s] # None, s \notin doubtful,
                    asked[s].events \cap (IF poll_port = "mqx" THEN Poll!Events \ {"oob"} ELSE Poll!Events) # {}
             PROVE  FALSE
  BY DEF Poll!Api!Waitable, Poll!Api!Watched
<1>1. asked[s] \in Poll!Asks /\ poll_port \in Poll!TreePorts \cup Poll!SlotPorts
  BY DEF Poll!PollInv, Poll!TypeOK
<1>2. asked[s].events \in EventSets
  BY <1>1, AsksAreEntries
<1>3. PICK f \in Poll!Filters : f \in Poll!FiltersOn(poll_port, asked[s].events)
  BY <1>1, <1>2, SomeFilters
<1>4. CASE poll_port \in Poll!SelectPorts
  <2>1. Counted(poll_port, tree, slots, f) = 0
    <3>1. count[f] = Counted(poll_port, tree, slots, f)
      BY <1>4, CountsAre DEF Poll!PollInv
    <3> QED
      BY <1>4, <3>1 DEF Poll!Unwatched, Poll!NoBits
  <2>2. CASE poll_port = "windows"
    <3>1. tree[s] \in Poll!Entries /\ tree[s].events = asked[s].events
      BY <1>1, <2>2, TreeTells, AsksAreEntries DEF Poll!TreePorts
    <3>2. tree[s] \in With(poll_port, f)
      BY <1>3, <3>1 DEF With
    <3>3. Tally(Sockets, tree, With(poll_port, f)) = 0
      BY <2>1, <2>2 DEF Counted
    <3> QED
      BY <3>2, <3>3, TallyNone, SameNumbers DEF Poll!PollAssumption
  <2>3. CASE poll_port \in Poll!SlotPorts
    <3>1. PICK i \in Poll!Find(s) :
               i \in Poll!Slots /\ slots[i] \in Poll!Entries /\ slots[i].events = asked[s].events
      BY <2>3, SlotsTell
    <3>2. slots[i] \in With(poll_port, f)
      BY <1>3, <3>1 DEF With
    <3>3. Tally(Poll!Slots, slots, With(poll_port, f)) = 0
      BY <2>1, <2>3 DEF Counted, Poll!SlotPorts
    <3> QED
      BY <3>1, <3>2, <3>3, TallyNone, SlotsAreFinite DEF Poll!PollAssumption
  <2> QED
    BY <1>4, <2>2, <2>3 DEF Poll!SelectPorts, Poll!SlotPorts
<1>5. CASE poll_port \notin Poll!SelectPorts
  <2>1. poll_port \in Poll!TreePorts /\ Poll!Size = 0
    BY <1>1, <1>5 DEF Poll!Unwatched, Poll!SelectPorts, Poll!TreePorts, Poll!SlotPorts
  <2>2. s \in {t \in Sockets : tree[t] # None}
    BY <2>1, TreeTells
  <2>3. IsFiniteSet({t \in Sockets : tree[t] # None})
    BY FS_Subset, SameNumbers DEF Poll!PollAssumption
  <2> QED
    BY <2>1, <2>2, <2>3, FS_EmptySet, SameNumbers DEF Poll!Size
<1> QED
  BY <1>4, <1>5

LEMMA NoReportAsApi ==
  ASSUME Poll!PollAssumption, Poll!PollInv, Poll!WaitNoSockets \/ Poll!WaitInVain
  PROVE  Poll!Api!Next
<1>1. CASE Poll!WaitNoSockets
  <2>1. Poll!Api!EndWait(Poll!Said("NoSockets")) /\ waiting = None
    BY <1>1, Ended DEF Poll!WaitNoSockets
  <2>2. Poll!Api!Waitable \subseteq doubtful
    BY <1>1, NobodyWatched DEF Poll!WaitNoSockets
  <2> QED
    BY <2>1, <2>2 DEF Poll!Said, Poll!Api!Said, Poll!Api!NoReport, Poll!Api!Next
<1>2. CASE Poll!WaitInVain
  <2>1. Poll!Api!EndWait(Poll!Said("TimedOut")) \/ Poll!Api!EndWait(Poll!Said("OsError"))
    BY <1>2, Ended DEF Poll!WaitInVain
  <2> QED
    BY <2>1 DEF Poll!Said, Poll!Api!Said, Poll!Api!NoReport, Poll!Api!Next
<1> QED
  BY <1>1, <1>2

\* The rest: contexts, removals, sockets that are closed.
LEMMA ContextAsApi ==
  ASSUME Poll!PollInv, Poll!ContextInit \/ Poll!ContextDeinit
  PROVE  Poll!Api!Next
<1>1. waiting = None
  BY DEF Poll!ContextInit, Poll!ContextDeinit, Poll!PollInv, Poll!WaitsForAsked
<1>2. CASE Poll!ContextInit
  <2>1. Poll!Api!Reset(TRUE) /\ reply' = None
    BY <1>1, <1>2 DEF Poll!ContextInit, Poll!NoTree, Poll!Api!Reset, Poll!Api!Nothing,
       Poll!Api!frame
  <2> QED
    BY <2>1 DEF Poll!Api!Next
<1>3. CASE Poll!ContextDeinit
  <2>1. Poll!Api!Reset(FALSE) /\ reply' = None
    BY <1>1, <1>3 DEF Poll!ContextDeinit, Poll!NoTree, Poll!Api!Reset, Poll!Api!Nothing,
       Poll!Api!frame
  <2> QED
    BY <2>1 DEF Poll!Api!Next
<1> QED
  BY <1>2, <1>3

LEMMA RemovalsAsApi ==
  ASSUME NEW s \in Sockets,
         Poll!EpollRemove(s) \/ Poll!KqueueRemove(s) \/ Poll!WindowsRemove(s) \/ Poll!LwipRemove(s) \/ Poll!MqxRemove(s)
  PROVE  Poll!Api!Next
BY Removed DEF Poll!EpollRemove, Poll!KqueueRemove, Poll!WindowsRemove, Poll!LwipRemove,
   Poll!MqxRemove, Poll!SlotRemove

LEMMA CloseAsApi ==
  ASSUME NEW s \in Sockets, Poll!Close(s)
  PROVE  Poll!Api!Next
<1>1. Poll!Api!Close(s)
  BY DEF Poll!Close, Poll!Doubt, Poll!context, Poll!Api!Close, Poll!Api!frame,
     Poll!Api!Watched
<1> QED
  BY <1>1 DEF Poll!Api!Next

LEMMA BeginWaitAsApi ==
  ASSUME Poll!PollAssumption, Poll!PollInv, Poll!WindowsBeginWait
  PROVE  Poll!Api!Next
<1>1. interest # None
  BY DEF Poll!PollInv, Poll!TypeOK, Poll!PollAssumption
<1>2. Poll!Api!BeginWait
  BY <1>1 DEF Poll!WindowsBeginWait, Poll!context, Poll!Api!BeginWait, Poll!Api!frame
<1> QED
  BY <1>2 DEF Poll!Api!Next

LEMMA StutterAsApi ==
  ASSUME UNCHANGED <<poll_port, valid, asked, doubtful, waiting, disturbed, reply>>
  PROVE  UNCHANGED Poll!Api!apiVars
BY DEF Poll!Api!apiVars

LEMMA StepAsApi ==
  ASSUME Poll!PollAssumption, Poll!PollInv, Poll!FiltersHaveData, [Poll!Next]_Poll!vars
  PROVE  [Poll!Api!Next]_Poll!Api!apiVars
<1>1. CASE UNCHANGED Poll!vars
  BY <1>1, StutterAsApi DEF Poll!vars, Poll!context, Poll!history
<1>2. ASSUME NEW s \in Sockets, Poll!Reopen(s) PROVE UNCHANGED Poll!Api!apiVars
  BY <1>2, StutterAsApi DEF Poll!Reopen, Poll!context, Poll!history
<1>3. ASSUME NEW s \in Sockets, NEW ask \in Poll!Asks,
             \/ Poll!LwipAdd(s, ask) \/ Poll!LwipModify(s, ask)
             \/ Poll!MqxAdd(s, ask) \/ Poll!MqxModify(s, ask)
      PROVE  Poll!Api!Next
  BY <1>3, SlotsAsApi DEF Poll!LwipAdd, Poll!LwipModify, Poll!MqxAdd, Poll!MqxModify,
     Poll!SlotPorts
<1>4. ASSUME NEW s \in Sockets, NEW ask \in Poll!Asks,
             \/ Poll!TreeAddRefused(s, ask) \/ Poll!TreeModifyRefused(s, ask)
             \/ Poll!EpollAdd(s, ask) \/ Poll!EpollRollBack(s, ask) \/ Poll!EpollModify(s, ask)
             \/ Poll!KqueueAdd(s, ask) \/ Poll!KqueueModify(s, ask)
             \/ Poll!WindowsAdd(s, ask) \/ Poll!WindowsModify(s, ask)
      PROVE  Poll!Api!Next
  BY <1>4, TreeRefusalsAsApi, LinuxAsApi, MacAsApi, WindowsAsApi
<1>5. ASSUME NEW s \in Sockets,
             \/ Poll!Close(s) \/ Poll!EpollRemove(s) \/ Poll!KqueueRemove(s) \/ Poll!WindowsRemove(s)
             \/ Poll!LwipRemove(s) \/ Poll!MqxRemove(s)
      PROVE  Poll!Api!Next
  BY <1>5, CloseAsApi, RemovalsAsApi
<1>6. CASE \/ Poll!ContextInit \/ Poll!ContextDeinit
           \/ Poll!EpollWait \/ Poll!KqueueWait \/ Poll!WindowsBeginWait \/ Poll!WindowsEndWait \/ Poll!LwipWait \/ Poll!MqxWait
           \/ Poll!WaitNoSockets \/ Poll!WaitInVain
  BY <1>6, ContextAsApi, EpollWaitAsApi, KqueueWaitAsApi, BeginWaitAsApi, WindowsWaitAsApi,
     SlotWaitAsApi, NoReportAsApi
<1> QED
  BY <1>1, <1>2, <1>3, <1>4, <1>5, <1>6 DEF Poll!Next

LEMMA InitAsApi ==
  ASSUME Poll!PollAssumption, Poll!Init
  PROVE  Poll!Api!Init /\ Poll!FiltersHaveData
<1>1. Poll!Api!Init
  BY DEF Poll!Init, Poll!NoTree, Poll!Api!Init, Poll!Api!Nothing, Poll!PollAssumption
<1>2. Poll!FiltersHaveData
  BY DEF Poll!Init, Poll!NoInterest, Poll!FiltersHaveData
<1> QED
  BY <1>1, <1>2

\* Every port of os_socket.c keeps the promises of the etcpal_poll_* functions: a call is
\* refused for the reasons that are documented, an event is one that was asked for with
\* the user data of its socket, and a wait that finds nothing to watch has nothing to.
THEOREM EveryPortImplementsApi ==
  ASSUME Poll!PollAssumption PROVE Poll!Spec => ImplementsApi
<1>1. Poll!Init => Poll!Api!Init /\ Poll!FiltersHaveData
  BY InitAsApi
<1>2. Poll!PollInv /\ Poll!FiltersHaveData /\ [Poll!Next]_Poll!vars => Poll!FiltersHaveData'
  BY DataInv
<1>3. Poll!PollInv /\ Poll!FiltersHaveData /\ [Poll!Next]_Poll!vars => [Poll!Api!Next]_Poll!Api!apiVars
  BY StepAsApi
<1> QED
  BY <1>1, <1>2, <1>3, PollInvariant, PTL DEF Poll!Spec, ImplementsApi, Poll!ImplementsApi, Poll!Api!Spec

----
(***************************************************************************)
(* Control messages.                                                       *)
(***************************************************************************)

\* What the system writes for a datagram, and what its flags say.
LEMMA WrittenHas ==
  ASSUME Message!ControlAssumption, Message!TypeOK, NEW d \in Datagrams, NEW buflen
  PROVE  /\ Message!Written(d.controls) \in [1 .. MaxControl -> Message!Messages \cup {None}]
         /\ \A i \in 1 .. MaxControl :
              IF i <= Message!Smaller(Len(d.controls), controllen)
              THEN Message!Written(d.controls)[i] = [kind |-> d.controls[i], current |-> TRUE]
              ELSE Message!Written(d.controls)[i] = None \/ ~Message!Written(d.controls)[i].current
         /\ Len(d.controls) > controllen => "ctrunc" \in Message!FlagsOf(d, buflen)
         /\ Message!FlagsOf(d, buflen) \subseteq {"trunc", "ctrunc", "peek"}
<1>1. d.controls \in Seq(Message!Kinds) /\ Len(d.controls) \in Nat /\ controllen \in Nat
  BY DEF Message!ControlAssumption, Message!TypeOK
<1>2. ASSUME NEW i \in 1 .. MaxControl
      PROVE  /\ Message!Written(d.controls)[i] \in Message!Messages \cup {None}
             /\ IF i <= Message!Smaller(Len(d.controls), controllen)
                THEN Message!Written(d.controls)[i] = [kind |-> d.controls[i], current |-> TRUE]
                ELSE Message!Written(d.controls)[i] = None \/ ~Message!Written(d.controls)[i].current
  <2>1. CASE i <= Message!Smaller(Len(d.controls), controllen)
    <3>1. i \in 1 .. Len(d.controls)
      BY <1>1, <2>1 DEF Message!Smaller
    <3>2. d.controls[i] \in Message!Kinds
      BY <1>1, <3>1
    <3>3. Message!Written(d.controls)[i] = [kind |-> d.controls[i], current |-> TRUE]
      BY <2>1 DEF Message!Written
    <3> QED
      BY <2>1, <3>2, <3>3 DEF Message!Messages
  <2>2. CASE ~(i <= Message!Smaller(Len(d.controls), controllen))
    <3>1. memory[i] \in Message!Messages \cup {None}
      BY DEF Message!TypeOK
    <3>2. Message!Written(d.controls)[i] =
            IF memory[i] = None THEN None ELSE [memory[i] EXCEPT !.current = FALSE]
      BY <2>2 DEF Message!Written
    <3>3. CASE memory[i] = None
      BY <2>2, <3>2, <3>3
    <3>4. CASE memory[i] \in Message!Messages
      <4>1. /\ [memory[i] EXCEPT !.current = FALSE] \in Message!Messages
            /\ [memory[i] EXCEPT !.current = FALSE].current = FALSE
        BY <3>4 DEF Message!Messages
      <4>2. memory[i] # None
        BY <3>4 DEF Message!ControlAssumption
      <4> QED
        BY <2>2, <3>2, <4>1, <4>2
    <3> QED
      BY <3>1, <3>3, <3>4
  <2> QED
    BY <2>1, <2>2
<1>3. Message!Written(d.controls) = [i \in 1 .. MaxControl |-> Message!Written(d.controls)[i]]
  BY DEF Message!Written
<1>4. Message!Written(d.controls) \in [1 .. MaxControl -> Message!Messages \cup {None}]
  BY <1>2, <1>3
<1>5. /\ Len(d.controls) > controllen => "ctrunc" \in Message!FlagsOf(d, buflen)
      /\ Message!FlagsOf(d, buflen) \subseteq {"trunc", "ctrunc", "peek"}
  BY DEF Message!FlagsOf
<1> QED
  BY <1>2, <1>4, <1>5

\* The first place with zeroes or a usable message.
LEMMA FirstIsLeast ==
  ASSUME Message!ControlAssumption, Message!TypeOK, NEW start \in Nat, start > 0
  PROVE  LET found == Message!FirstCompatible(start) IN
         \/ /\ found.valid = TRUE /\ found.pd \in start .. controllen
            /\ memory[found.pd] # None /\ Message!Compatible(memory[found.pd].kind)
            /\ \A i \in start .. controllen :
                 memory[i] # None /\ Message!Compatible(memory[i].kind) => found.pd <= i
         \/ /\ found = Message!NoMessage
            /\ \A i \in start .. controllen :
                 memory[i] # None /\ Message!Compatible(memory[i].kind) =>
                   \E k \in start .. i : memory[k] = None
<1> DEFINE stops == {i \in start .. controllen : memory[i] = None \/ Message!Compatible(memory[i].kind)}
           i == CHOOSE j \in stops : \A k \in stops : j <= k
<1>1. controllen \in Nat /\ stops \in SUBSET Nat
  BY DEF Message!TypeOK
<1>2. Message!FirstCompatible(start)
        = IF stops = {} \/ memory[i] = None THEN Message!NoMessage ELSE [valid |-> TRUE, pd |-> i]
  BY DEF Message!FirstCompatible
<1>3. CASE stops = {}
  BY <1>2, <1>3
<1>4. CASE stops # {}
  <2>1. \E j \in stops : \A k \in stops : j <= k
    <3> HIDE DEF stops
    <3> QED
      BY <1>1, <1>4, HasLeast
  <2>2. i \in stops /\ \A k \in stops : i <= k
    BY <2>1
  <2>3. /\ i \in start .. controllen
        /\ memory[i] = None \/ Message!Compatible(memory[i].kind)
        /\ \A k \in start .. controllen :
             (memory[k] = None \/ Message!Compatible(memory[k].kind)) => i <= k
    BY <2>2
  <2> HIDE DEF i, stops
  <2>4. CASE memory[i] = None
    BY <1>1, <1>2, <2>2, <2>3, <2>4 DEF stops
  <2>5. CASE memory[i] # None
    <3>1. Message!FirstCompatible(start) = [valid |-> TRUE, pd |-> i]
      BY <1>2, <1>4, <2>5
    <3>2. Message!FirstCompatible(start).valid = TRUE /\ Message!FirstCompatible(start).pd = i
      BY <3>1
    <3>3. i \in start .. controllen /\ Message!Compatible(memory[i].kind)
      BY <2>2, <2>5 DEF stops
    <3> QED
      BY <2>3, <2>5, <3>2, <3>3
  <2> QED
    BY <2>4, <2>5
<1> QED
  BY <1>3, <1>4

LEMMA ControlInit ==
  ASSUME Message!ControlAssumption, Message!Init
  PROVE  Message!ControlInv
<1>1. Message!Zeroes \in [1 .. MaxControl -> Message!Messages \cup {None}]
  BY DEF Message!Zeroes
<1>2. MaxControl \in 0 .. MaxControl /\ ~Message!NoMessage.valid /\ Message!NoMessage.pd = 0
  BY DEF Message!ControlAssumption, Message!NoMessage
<1> QED
  BY <1>1, <1>2 DEF Message!Init, Message!ControlInv, Message!TypeOK

\* A look at the memory keeps the types.
LEMMA FoundHasType ==
  ASSUME Message!ControlAssumption, Message!TypeOK, NEW start \in Nat, start > 0
  PROVE  LET found == Message!FirstCompatible(start) IN
         found.pd \in (IF found.valid THEN 1 .. controllen ELSE {0})
<1> DEFINE found == Message!FirstCompatible(start)
<1>1. controllen \in Nat /\ Message!NoMessage.valid = FALSE /\ Message!NoMessage.pd = 0
  BY DEF Message!TypeOK, Message!NoMessage
<1>2. \/ found.valid = TRUE /\ found.pd \in start .. controllen
      \/ found = Message!NoMessage
  BY FirstIsLeast
<1> HIDE DEF found
<1>3. CASE found.valid = TRUE /\ found.pd \in start .. controllen
  <2>1. found.pd \in 1 .. controllen
    BY <1>1, <1>3
  <2> QED
    BY <1>3, <2>1 DEF found
<1>4. CASE found = Message!NoMessage
  <2>1. found.valid = FALSE /\ found.pd \in {0}
    BY <1>1, <1>4
  <2> QED
    BY <2>1 DEF found
<1> QED
  BY <1>2, <1>3, <1>4

LEMMA ControlStep ==
  ASSUME Message!ControlAssumption, Message!ControlInv, [Message!Next]_Message!vars
  PROVE  Message!ControlInv'
<1> Message!TypeOK
  BY DEF Message!ControlInv
<1>1. Message!NoMessage.valid = FALSE /\ Message!NoMessage.pd = 0
  BY DEF Message!NoMessage
<1>2. CASE Message!Arrive
  BY <1>2 DEF Message!Arrive, Message!ControlInv, Message!TypeOK, Message!MemoryHas
<1>3. CASE Message!Prepare
  <2>1. /\ memory' \in {memory, Message!Zeroes} /\ controllen' \in 0 .. MaxControl
        /\ cmsg' = Message!NoMessage /\ received' = None /\ UNCHANGED <<stack, arrived, flags>>
    BY <1>3 DEF Message!Prepare
  <2>2. memory' \in [1 .. MaxControl -> Message!Messages \cup {None}]
    BY <2>1 DEF Message!TypeOK, Message!Zeroes
  <2> QED
    BY <1>1, <2>1, <2>2 DEF Message!ControlInv, Message!TypeOK
<1>4. ASSUME NEW buflen \in 1 .. 2, NEW peek \in BOOLEAN, Message!RecvMsg(buflen, peek)
      PROVE  Message!ControlInv'
  <2>1. PICK d \in Datagrams :
          /\ arrived = d /\ arrived' \in {d, None}
          /\ memory' = Message!Written(d.controls) /\ flags' = Message!FlagsOf(d, buflen)
          /\ received' = d /\ cmsg' = Message!NoMessage /\ UNCHANGED <<stack, controllen>>
    BY <1>4 DEF Message!RecvMsg, Message!TypeOK
  <2>2. Message!TypeOK'
    BY <1>1, <2>1, WrittenHas DEF Message!TypeOK
  <2>3. /\ \A i \in 1 .. MaxControl :
             IF i <= Message!Smaller(Len(d.controls), controllen)
             THEN memory'[i] = [kind |-> d.controls[i], current |-> TRUE]
             ELSE memory'[i] = None \/ ~memory'[i].current
        /\ Len(d.controls) > controllen => "ctrunc" \in flags'
    BY <2>1, WrittenHas
  <2>4. Message!MemoryHas(received.controls)'
    BY <2>1, <2>3 DEF Message!MemoryHas, Message!Smaller
  <2>5. ~cmsg'.valid
    BY <1>1, <2>1
  <2> QED
    BY <2>2, <2>4, <2>5 DEF Message!ControlInv
<1>5. ASSUME NEW peek \in BOOLEAN, Message!RecvMsgFails(peek)
      PROVE  Message!ControlInv'
  <2>1. /\ flags' \in {flags, {"peek"}, {}} /\ received' = None /\ cmsg' = Message!NoMessage
        /\ UNCHANGED <<stack, arrived, memory, controllen>>
    BY <1>5 DEF Message!RecvMsgFails
  <2> QED
    BY <1>1, <2>1 DEF Message!ControlInv, Message!TypeOK
<1>6. CASE Message!FirstHdr
  <2>1. cmsg' = Message!FirstCompatible(1)
          /\ UNCHANGED <<stack, arrived, memory, controllen, flags, received>>
    BY <1>6 DEF Message!FirstHdr
  <2>2. cmsg'.pd \in (IF cmsg'.valid THEN 1 .. controllen ELSE {0})
    BY <2>1, FoundHasType
  <2>3. received # None
    BY <1>6 DEF Message!FirstHdr
  <2> QED
    BY <2>1, <2>2, <2>3 DEF Message!ControlInv, Message!TypeOK, Message!MemoryHas
<1>7. CASE Message!NxtHdr
  <2>1. /\ cmsg.valid /\ cmsg' = Message!FirstCompatible(cmsg.pd + 1)
        /\ UNCHANGED <<stack, arrived, memory, controllen, flags, received>>
    BY <1>7 DEF Message!NxtHdr
  <2>2. cmsg.pd + 1 \in Nat /\ cmsg.pd + 1 > 0
    BY <2>1 DEF Message!TypeOK
  <2>3. cmsg'.pd \in (IF cmsg'.valid THEN 1 .. controllen ELSE {0})
    BY <2>1, <2>2, FoundHasType
  <2> QED
    BY <2>1, <2>3 DEF Message!ControlInv, Message!TypeOK, Message!MemoryHas
<1>8. CASE UNCHANGED Message!vars
  BY <1>8 DEF Message!vars, Message!ControlInv, Message!TypeOK, Message!MemoryHas
<1> QED
  BY <1>2, <1>3, <1>4, <1>5, <1>6, <1>7, <1>8 DEF Message!Next

\* Where nothing is left over, what a look from start finds is the first usable one from there.
LEMMA LooksAhead ==
  ASSUME Message!ControlAssumption, Message!ControlInv, received # None, Message!NothingLeftOver,
         NEW at \in Nat
  PROVE  LET found == Message!FirstCompatible(at + 1)
             ahead == {i \in Message!Usable : i > at}
         IN IF found.valid THEN found.pd \in ahead /\ \A i \in ahead : found.pd <= i
            ELSE ahead = {}
<1> DEFINE found == Message!FirstCompatible(at + 1)
           ahead == {i \in Message!Usable : i > at}
           n == Len(received.controls)
<1>1. /\ n \in Nat /\ controllen \in Nat /\ MaxControl \in Nat /\ controllen <= MaxControl
      /\ DOMAIN received.controls = 1 .. n
  BY DEF Message!ControlInv, Message!TypeOK, Message!ControlAssumption
<1>2. ASSUME NEW i \in 1 .. controllen
      PROVE  IF i <= n THEN memory[i] # None /\ memory[i].kind = received.controls[i]
             ELSE memory[i] = None
  <2>1. i \in 1 .. MaxControl /\ (i <= Message!Smaller(n, controllen) <=> i <= n)
    BY <1>1 DEF Message!Smaller
  <2>2. /\ memory[i] = None \/ memory[i].current
        /\ IF i <= n THEN memory[i] = [kind |-> received.controls[i], current |-> TRUE]
           ELSE memory[i] = None \/ ~memory[i].current
    BY <2>1 DEF Message!NothingLeftOver, Message!ControlInv, Message!MemoryHas
  <2>3. CASE i <= n
    <3>1. received.controls \in Seq(Message!Kinds)
      BY DEF Message!ControlInv, Message!TypeOK, Message!ControlAssumption
    <3>2. i \in 1 .. n
      BY <2>3
    <3>3. received.controls[i] \in Message!Kinds
      BY <3>1, <3>2
    <3>4. memory[i] = [kind |-> received.controls[i], current |-> TRUE]
      BY <2>2, <2>3
    <3>5. memory[i] \in Message!Messages /\ memory[i].kind = received.controls[i]
      BY <3>3, <3>4 DEF Message!Messages
    <3> QED
      BY <2>3, <3>5 DEF Message!ControlAssumption
  <2>4. CASE ~(i <= n)
    BY <2>2, <2>4
  <2> QED
    BY <2>3, <2>4
<1>3. Message!Usable = {i \in 1 .. n : i <= controllen /\ Message!Compatible(received.controls[i])}
  BY <1>1 DEF Message!Usable
<1>4. \A i \in ahead : /\ i \in (at + 1) .. controllen /\ i <= n /\ i \in 1 .. controllen
                       /\ memory[i] # None /\ Message!Compatible(memory[i].kind)
  BY <1>1, <1>2, <1>3
<1>5. \A i \in (at + 1) .. controllen :
        memory[i] # None /\ Message!Compatible(memory[i].kind) => i \in ahead
  <2> SUFFICES ASSUME NEW i \in (at + 1) .. controllen, memory[i] # None,
                      Message!Compatible(memory[i].kind)
               PROVE  i \in ahead
    OBVIOUS
  <2>1. i \in 1 .. controllen /\ i > at
    BY <1>1
  <2>2. i <= n /\ memory[i].kind = received.controls[i]
    BY <1>2, <2>1
  <2> QED
    BY <1>1, <1>3, <2>1, <2>2
<1>6. at + 1 \in Nat /\ at + 1 > 0 /\ Message!TypeOK
  BY DEF Message!ControlInv
<1> HIDE DEF found, ahead, n
<1>7. CASE /\ found.valid = TRUE /\ found.pd \in (at + 1) .. controllen
           /\ memory[found.pd] # None /\ Message!Compatible(memory[found.pd].kind)
           /\ \A i \in (at + 1) .. controllen :
                memory[i] # None /\ Message!Compatible(memory[i].kind) => found.pd <= i
  <2>1. found.pd \in ahead
    BY <1>5, <1>7
  <2>2. \A i \in ahead : found.pd <= i
    BY <1>4, <1>7
  <2> QED
    BY <1>7, <2>1, <2>2 DEF found, ahead
<1>8. CASE /\ found = Message!NoMessage
           /\ \A i \in (at + 1) .. controllen :
                memory[i] # None /\ Message!Compatible(memory[i].kind) =>
                  \E k \in (at + 1) .. i : memory[k] = None
  <2>1. ahead = {}
    <3> SUFFICES ASSUME NEW i \in ahead PROVE FALSE
      OBVIOUS
    <3>1. i \in (at + 1) .. controllen /\ i <= n /\ memory[i] # None
            /\ Message!Compatible(memory[i].kind)
      BY <1>4
    <3>2. PICK k \in (at + 1) .. i : memory[k] = None
      BY <1>8, <3>1
    <3>3. k \in 1 .. controllen /\ k <= n
      BY <1>1, <3>1
    <3> QED
      BY <1>2, <3>2, <3>3
  <2>2. ~found.valid
    BY <1>8 DEF Message!NoMessage
  <2> QED
    BY <2>1, <2>2 DEF found, ahead
<1>9. Message!FirstCompatible(at + 1) = found
  BY DEF found
<1> QED
  BY <1>6, <1>7, <1>8, <1>9, FirstIsLeast

\* The inductive invariant, for any memory and any datagrams.
THEOREM ControlInvariant == ASSUME Message!ControlAssumption PROVE Message!Spec => []Message!ControlInv
BY ControlInit, ControlStep, PTL DEF Message!Spec

\* etcpal_cmsg_firsthdr and etcpal_cmsg_nxthdr walk over every usable message of the
\* datagram that was received, if its memory has nothing left over, and none is missed
\* but what the flags tell of, for memory of any length.
THEOREM WalkAlwaysFindsEach ==
  ASSUME Message!ControlAssumption PROVE Message!Spec => WalkFindsEach
<1>1. ASSUME Message!ControlInv, Message!ControlInv', [Message!Next]_Message!vars, Message!NothingLeftOver,
             Message!FirstHdr \/ Message!NxtHdr
      PROVE  LET ahead == {i \in Message!Usable : i > cmsg.pd} IN
             IF cmsg'.valid THEN cmsg'.pd \in ahead /\ \A i \in ahead : cmsg'.pd <= i
             ELSE ahead = {}
  <2>1. CASE Message!FirstHdr
    <3>1. received # None /\ cmsg.pd = 0 /\ cmsg' = Message!FirstCompatible(0 + 1)
      BY <1>1, <2>1 DEF Message!FirstHdr, Message!ControlInv, Message!TypeOK
    <3> QED
      BY <1>1, <3>1, LooksAhead
  <2>2. CASE Message!NxtHdr
    <3>1. cmsg.valid /\ cmsg' = Message!FirstCompatible(cmsg.pd + 1)
      BY <2>2 DEF Message!NxtHdr
    <3>2. cmsg.pd \in Nat
      BY <1>1, <3>1 DEF Message!ControlInv, Message!TypeOK
    <3>3. received # None
      BY <1>1, <3>1 DEF Message!ControlInv
    <3> QED
      BY <1>1, <3>1, <3>2, <3>3, LooksAhead
  <2> QED
    BY <1>1, <2>1, <2>2
<1>2. ASSUME Message!ControlInv', received' # None, "ctrunc" \notin flags'
      PROVE  \A i \in DOMAIN received'.controls : memory'[i].kind = received'.controls[i]
  <2>1. received' \in Datagrams /\ controllen' \in 0 .. MaxControl /\ MaxControl \in Nat
    BY <1>2 DEF Message!ControlInv, Message!TypeOK, Message!ControlAssumption
  <2>2. Message!MemoryHas(received.controls)'
    BY <1>2 DEF Message!ControlInv
  <2>3. PICK d \in Datagrams : received' = d
    BY <2>1
  <2>4. d.controls \in Seq(Message!Kinds) /\ Len(d.controls) \in Nat
    BY DEF Message!ControlAssumption
  <2>5. /\ \A i \in 1 .. MaxControl :
             i <= Message!Smaller(Len(d.controls), controllen') =>
               memory'[i] = [kind |-> d.controls[i], current |-> TRUE]
        /\ Len(d.controls) > controllen' => "ctrunc" \in flags'
    BY <2>2, <2>3 DEF Message!MemoryHas
  <2>6. ASSUME NEW i \in DOMAIN d.controls
        PROVE  memory'[i].kind = d.controls[i]
    <3>1. i \in 1 .. MaxControl /\ i <= Message!Smaller(Len(d.controls), controllen')
      BY <1>2, <2>1, <2>4, <2>5 DEF Message!Smaller
    <3>2. memory'[i] = [kind |-> d.controls[i], current |-> TRUE]
      BY <2>5, <3>1
    <3> QED
      BY <3>2
  <2> QED
    BY <2>3, <2>6
<1>3. ASSUME Message!ControlInv, Message!ControlInv', [Message!Next]_Message!vars
      PROVE  [/\ Message!NothingLeftOver /\ (Message!FirstHdr \/ Message!NxtHdr) =>
                   LET ahead == {i \in Message!Usable : i > cmsg.pd} IN
                   IF cmsg'.valid THEN cmsg'.pd \in ahead /\ \A i \in ahead : cmsg'.pd <= i
                   ELSE ahead = {}
              /\ received' # None /\ "ctrunc" \notin flags' =>
                   \A i \in DOMAIN received'.controls :
                     memory'[i].kind = received'.controls[i]]_Message!vars
  BY <1>1, <1>2, <1>3
<1> QED
  BY <1>3, ControlInvariant, PTL DEF Message!Spec, WalkFindsEach, Message!WalkFindsEach

----
(***************************************************************************)
(* Options.                                                                *)
(***************************************************************************)

\* A timeval gives back the milliseconds it was made of, negative ones too.
LEMMA TimevalKeepsMs ==
  ASSUME NEW v \in Int
  PROVE  Options!timeval_to_ms(Options!ms_to_timeval(v)) = v
<1> DEFINE q == Options!Quotient(v, 1000)
           r == Options!Remainder(v, 1000)
<1>1. q \in Int /\ r = v - 1000 * q
  BY DEF Options!Quotient, Options!Remainder
<1>2. r \in Int
  BY <1>1
<1>3. Options!ms_to_timeval(v).sec = q /\ Options!ms_to_timeval(v).usec = r * 1000
  BY DEF Options!ms_to_timeval
<1> HIDE DEF q, r
<1>4. Options!Quotient(r * 1000, 1000) = r
  BY <1>2 DEF Options!Quotient
<1> QED
  BY <1>1, <1>2, <1>3, <1>4 DEF Options!timeval_to_ms

LEMMA HalfOfDouble == ASSUME NEW v \in Int PROVE Options!Quotient(v * 2, 2) = v
BY DEF Options!Quotient

\* The system finds the interface by its address, which is no other's.
LEMMA AddressFinds ==
  ASSUME \A i, j \in Indexes : address[i] = address[j] => i = j \/ address[i] = 0,
         NEW i \in Indexes, address[i] # 0
  PROVE  Options!WithAddress(address[i]) = i
<1> DEFINE a == address[i]
           found == CHOOSE j \in Indexes : address[j] = a
<1>1. found \in Indexes /\ address[found] = a
  OBVIOUS
<1>2. found = i
  BY <1>1
<1>3. Options!WithAddress(a) = found
  BY DEF Options!WithAddress
<1> QED
  BY <1>2, <1>3

LEMMA WithAddressIs ==
  ASSUME NEW a
  PROVE  Options!WithAddress(a) \in Indexes \cup {0, None}
<1>1. CASE a = 0
  BY <1>1 DEF Options!WithAddress
<1>2. CASE a # 0 /\ \E i \in Indexes : address[i] = a
  <2>1. Options!WithAddress(a) = CHOOSE i \in Indexes : address[i] = a
    BY <1>2 DEF Options!WithAddress
  <2> QED
    BY <1>2, <2>1
<1>3. CASE a # 0 /\ ~(\E i \in Indexes : address[i] = a)
  BY <1>3 DEF Options!WithAddress
<1> QED
  BY <1>1, <1>2, <1>3

LEMMA ByAddressIs ==
  ASSUME NEW a
  PROVE  Options!ByAddress(a) \in Indexes \cup {0, None}
BY WithAddressIs DEF Options!ByAddress

LEMMA InterfaceIs ==
  ASSUME Options!OptionsAssumption, Options!TypeOK, NEW family \in Options!Families, NEW i
  PROVE  Options!Interface(family, i) \in Indexes \cup {0, None}
<1>1. Options!ByIndex(i) \in Indexes \cup {0, None}
  BY DEF Options!ByIndex
<1>2. option_port \in {"linux", "macos", "windows", "lwip", "mqx"}
  BY DEF Options!TypeOK, Options!OptionsAssumption
<1>3. CASE option_port \in {"linux", "windows"}
  BY <1>1, <1>3 DEF Options!Interface, Options!linux_interface, Options!windows_interface
<1>4. CASE option_port = "macos"
  BY <1>1, <1>4, ByAddressIs DEF Options!Interface, Options!macos_interface
<1>5. CASE option_port = "lwip"
  BY <1>1, <1>5, ByAddressIs DEF Options!Interface, Options!lwip_interface
<1>6. CASE option_port = "mqx"
  BY <1>1, <1>6, ByAddressIs DEF Options!Interface, Options!mqx_interface
<1> QED
  BY <1>2, <1>3, <1>4, <1>5, <1>6

\* The interface that a port's detour by the address comes back to is the one named.
LEMMA DetourIsBack ==
  ASSUME Options!OptionsAssumption,
         \A i, j \in Indexes : address[i] = address[j] => i = j \/ address[i] = 0,
         NEW i
  PROVE  /\ Options!ByAddress(Options!AddressOfNamed(i)) \in {i, None}
         /\ Options!ByAddress(Options!AddressOfIpcfg(i)) \in {i, None}
         /\ i \in Indexes /\ address[i] # 0 /\ "lwip" \in SocketPorts =>
              Options!ByAddress(Options!AddressOfNetif(i)) \in {i, None}
<1>1. CASE i \in Indexes /\ address[i] # 0
  <2>1. Options!ByAddress(address[i]) \in {i, None}
    BY <1>1, AddressFinds DEF Options!ByAddress
  <2>2. i # 0 /\ ("lwip" \in SocketPorts => Options!Byte(i) = i)
    BY <1>1 DEF Options!OptionsAssumption, Options!Byte
  <2>3. Options!AddressOfNamed(i) = address[i]
    BY <1>1 DEF Options!AddressOfNamed
  <2>4. Options!AddressOfIpcfg(i) = address[i]
    BY <1>1, <2>2 DEF Options!AddressOfIpcfg
  <2>5. "lwip" \in SocketPorts => Options!AddressOfNetif(i) = address[i]
    BY <1>1, <2>2 DEF Options!AddressOfNetif
  <2> QED
    BY <2>1, <2>3, <2>4, <2>5
<1>2. CASE ~(i \in Indexes /\ address[i] # 0)
  <2>1. Options!AddressOfNamed(i) = None
    BY <1>2 DEF Options!AddressOfNamed
  <2>2. Options!ByAddress(None) = None
    BY DEF Options!ByAddress
  <2>3. CASE i = 0
    <3>1. Options!AddressOfIpcfg(i) = 0
      BY <2>3 DEF Options!AddressOfIpcfg, Options!OptionsAssumption
    <3>2. Options!WithAddress(0) = 0
      BY DEF Options!WithAddress
    <3>3. Options!ByAddress(0) \in {0, None}
      BY <3>2 DEF Options!ByAddress
    <3> QED
      BY <1>2, <2>1, <2>2, <2>3, <3>1, <3>3
  <2>4. CASE i # 0
    <3>1. Options!AddressOfIpcfg(i) = None
      BY <1>2, <2>4 DEF Options!AddressOfIpcfg
    <3> QED
      BY <1>2, <2>1, <2>2, <3>1
  <2> QED
    BY <2>3, <2>4
<1> QED
  BY <1>1, <1>2

\* Where lwIP's port does not go wrong, each port joins, leaves and sets the interface
\* that has the index.
LEMMA InterfaceIsNamed ==
  ASSUME Options!OptionsAssumption, Options!OptionsInv, NEW family \in Options!Families, NEW i \in IndexArgs,
         option_port = "lwip" /\ family = "v4" =>
           i = 0 \/ (i \in Indexes /\ address[i] # 0)
  PROVE  /\ Options!Interface(family, i) \in {i, None}
         /\ Options!Outgoing(family, i) \in {i, None}
<1>1. Options!ByIndex(i) \in {i, None}
  BY DEF Options!ByIndex
<1>2. option_port \in {"linux", "macos", "windows", "lwip", "mqx"} /\ option_port \in SocketPorts
  BY DEF Options!OptionsInv, Options!TypeOK, Options!OptionsAssumption
<1>3. /\ Options!ByAddress(Options!AddressOfNamed(i)) \in {i, None}
      /\ Options!ByAddress(Options!AddressOfIpcfg(i)) \in {i, None}
      /\ i \in Indexes /\ address[i] # 0 /\ "lwip" \in SocketPorts =>
           Options!ByAddress(Options!AddressOfNetif(i)) \in {i, None}
  BY DetourIsBack DEF Options!OptionsInv
<1>4. CASE option_port \in {"linux", "windows"}
  BY <1>1, <1>3, <1>4 DEF Options!Interface, Options!linux_interface,
     Options!windows_interface,
     Options!Outgoing
<1>5. CASE option_port = "macos"
  BY <1>1, <1>3, <1>5 DEF Options!Interface, Options!macos_interface, Options!Outgoing
<1>6. CASE option_port = "lwip"
  <2>1. CASE i = 0
    <3>1. Options!Byte(0) \notin Indexes
      BY DEF Options!Byte, Options!OptionsAssumption
    <3>2. Options!ByAddress(Options!AddressOfNetif(0)) = None
      BY <3>1 DEF Options!AddressOfNetif, Options!ByAddress
    <3> QED
      BY <1>1, <1>6, <2>1, <3>2 DEF Options!Interface, Options!lwip_interface,
         Options!Outgoing
  <2>2. CASE i # 0
    BY <1>1, <1>2, <1>3, <1>6, <2>2 DEF Options!Interface, Options!lwip_interface,
       Options!Outgoing
  <2> QED
    BY <2>1, <2>2
<1>7. CASE option_port = "mqx"
  BY <1>1, <1>3, <1>7 DEF Options!Interface, Options!mqx_interface, Options!Outgoing
<1> QED
  BY <1>2, <1>4, <1>5, <1>6, <1>7

\* What the system is asked to set is the option named, but where lwIP's port falls through.
LEMMA TargetIs ==
  ASSUME NEW level, NEW name, NEW len,
         ~(option_port = "lwip" /\ name \in {"IP_MULTICAST_TTL", "IP_MULTICAST_LOOP"})
  PROVE  Options!Target(level, name, len) \in {name, None}
<1>1. ~Options!FallsThrough(name, len)
  BY DEF Options!FallsThrough
<1>2. CASE name \in DOMAIN Options!Table(level) /\ len \in Options!Table(level)[name]
  BY <1>1, <1>2 DEF Options!Target
<1>3. CASE ~(name \in DOMAIN Options!Table(level) /\ len \in Options!Table(level)[name])
  BY <1>1, <1>3 DEF Options!Target
<1> QED
  BY <1>2, <1>3

LEMMA NativeIs ==
  ASSUME NEW level, NEW name, NEW v
  PROVE  /\ name = "IP_MULTICAST_IF" => Options!Native(level, name, v) = v
         /\ option_port \in {"linux", "macos", "windows"} /\ name = "SO_SNDBUF" =>
              Options!Native(level, name, v) = v
         /\ option_port = "windows" => Options!Native(level, name, v) = v
         /\ Options!HasTimeval /\ name = "SO_SNDTIMEO" =>
            Options!Native(level, name, v) = Options!ms_to_timeval(v)
<1>1. ASSUME name = "IP_MULTICAST_IF" PROVE Options!Native(level, name, v) = v
  BY <1>1 DEF Options!Native, Options!Timeouts
<1>2. ASSUME option_port \in {"linux", "macos", "windows"}, name = "SO_SNDBUF"
      PROVE  Options!Native(level, name, v) = v
  BY <1>2 DEF Options!Native, Options!Timeouts
<1>3. ASSUME option_port = "windows" PROVE Options!Native(level, name, v) = v
  BY <1>3 DEF Options!Native, Options!HasTimeval
<1>4. ASSUME Options!HasTimeval, name = "SO_SNDTIMEO"
      PROVE  Options!Native(level, name, v) = Options!ms_to_timeval(v)
  <2>1. name \in Options!Timeouts /\ option_port # "windows"
          /\ name \notin {"IP_MULTICAST_TTL", "IP_MULTICAST_LOOP", "IP_TTL"}
    BY <1>4 DEF Options!Timeouts, Options!HasTimeval
  <2> QED
    BY <1>4, <2>1 DEF Options!Native
<1> QED
  BY <1>1, <1>2, <1>3, <1>4

\* getsockopt undoes what setsockopt did to the value.
LEMMA ReadsBack ==
  ASSUME Options!OptionsAssumption, Options!OptionsInv, NEW level, NEW name,
         focus = <<level, name>>, Options!GetValue(level, name)
  PROVE  got' = option_asked
<1>1. /\ option_port \in {"linux", "macos", "windows"} /\ name \in {"SO_SNDBUF", "SO_SNDTIMEO"}
      /\ options[focus] # None /\ got' = Options!Got(level, name)
  BY DEF Options!GetValue
<1>2. level = "SOL_SOCKET"
  BY <1>1 DEF Options!OptionsInv, Options!Options, Options!SocketOpts, Options!IpOpts,
     Options!Ip6Opts,
     Options!GroupFocus
<1>3. option_asked \in Int /\ options[<<level, name>>] = Options!Native(level, name, option_asked)
  <2>1. option_asked \in OptionValues /\ options[<<level, name>>] = Options!Native(level, name, option_asked)
    <3>1. CASE name = "SO_SNDBUF"
      BY <1>1, <1>2, <3>1 DEF Options!OptionsInv, Options!SystemHas
    <3>2. CASE name = "SO_SNDTIMEO"
      BY <1>1, <1>2, <3>2 DEF Options!OptionsInv, Options!SystemHas
    <3> QED
      BY <1>1, <3>1, <3>2
  <2> QED
    BY <2>1 DEF Options!OptionsAssumption
<1>4. CASE name = "SO_SNDTIMEO" /\ Options!HasTimeval
  <2>1. Options!SystemValue(level, name) = Options!ms_to_timeval(option_asked)
    BY <1>3, <1>4, NativeIs DEF Options!SystemValue
  <2>2. Options!Got(level, name) = Options!timeval_to_ms(Options!SystemValue(level, name))
    BY <1>4 DEF Options!Got
  <2> QED
    BY <1>1, <1>3, <2>1, <2>2, TimevalKeepsMs
<1>5. CASE name = "SO_SNDTIMEO" /\ ~Options!HasTimeval
  <2>1. option_port = "windows"
    BY <1>1, <1>5 DEF Options!HasTimeval
  <2>2. Options!SystemValue(level, name) = option_asked
    BY <1>3, <2>1, NativeIs DEF Options!SystemValue
  <2>3. Options!Got(level, name) = Options!SystemValue(level, name)
    BY <1>5, <2>1 DEF Options!Got
  <2> QED
    BY <1>1, <2>2, <2>3
<1>6. CASE name = "SO_SNDBUF" /\ option_port = "linux"
  <2>1. Options!SystemValue(level, name) = option_asked * 2
    BY <1>1, <1>3, <1>6, NativeIs DEF Options!SystemValue
  <2>2. Options!Got(level, name) = Options!Quotient(Options!SystemValue(level, name), 2)
    BY <1>6 DEF Options!Got
  <2> QED
    BY <1>1, <1>3, <2>1, <2>2, HalfOfDouble
<1>7. CASE name = "SO_SNDBUF" /\ option_port # "linux"
  <2>1. Options!SystemValue(level, name) = option_asked
    BY <1>1, <1>3, <1>7, NativeIs DEF Options!SystemValue
  <2>2. Options!Got(level, name) = Options!SystemValue(level, name)
    BY <1>7 DEF Options!Got
  <2> QED
    BY <1>1, <2>1, <2>2
<1> QED
  BY <1>1, <1>4, <1>5, <1>6, <1>7

LEMMA OptionsInit ==
  ASSUME Options!OptionsAssumption, Options!Init
  PROVE  Options!OptionsInv
<1>1. ~(last_set # Options!NoCall) /\ got = None /\ options = [o \in Options!Options |-> None]
  BY DEF Options!Init
<1>2. Options!TypeOK
  BY <1>1 DEF Options!Init, Options!TypeOK
<1>3. \A o \in Options!Options : options[o] = None
  BY <1>1
<1>4. <<"SOL_SOCKET", "SO_SNDBUF">> \in Options!Options
        /\ <<"SOL_SOCKET", "SO_SNDTIMEO">> \in Options!Options
  BY DEF Options!Options, Options!SocketOpts
<1>5. Options!SystemHas("SO_SNDBUF") /\ Options!SystemHas("SO_SNDTIMEO")
  BY <1>3, <1>4 DEF Options!SystemHas
<1>6. /\ \A i, j \in Indexes : address[i] = address[j] => i = j \/ address[i] = 0
      /\ focus \in Options!Options \cup {Options!GroupFocus} /\ DOMAIN options = Options!Options
  BY <1>1 DEF Options!Init
<1> QED
  BY <1>1, <1>2, <1>5, <1>6 DEF Options!OptionsInv, Options!GetsWhatWasSet

LEMMA NativeStays ==
  ASSUME option_port' = option_port, NEW level, NEW name, NEW v
  PROVE  Options!Native(level, name, v)' = Options!Native(level, name, v)
BY DEF Options!Native, Options!HasTimeval

\* A step that leaves the option and what was asked alone, or is of another option or a
\* port that reads nothing, keeps what the system has.
LEMMA SystemKept ==
  ASSUME NEW name, Options!SystemHas(name), option_port' = option_port, focus' = focus,
         \/ focus # <<"SOL_SOCKET", name>>
         \/ option_port \notin {"linux", "macos", "windows"}
         \/ option_asked' = option_asked /\ options' = options
  PROVE  Options!SystemHas(name)'
<1> DEFINE option == <<"SOL_SOCKET", name>>
<1> PICK v : option_asked' = v
  OBVIOUS
<1>1. SUFFICES ASSUME focus' = option, option_port' \in {"linux", "macos", "windows"},
                      options'[option] # None
               PROVE  v \in OptionValues /\ options'[option] = Options!Native("SOL_SOCKET", name, v)'
  BY DEF Options!SystemHas
<1>2. option_asked = v /\ options' = options
  BY <1>1
<1>3. v \in OptionValues /\ options[option] = Options!Native("SOL_SOCKET", name, v)
  BY <1>1, <1>2 DEF Options!SystemHas
<1>4. Options!Native("SOL_SOCKET", name, v)' = Options!Native("SOL_SOCKET", name, v)
  BY NativeStays
<1> QED
  BY <1>2, <1>3, <1>4

\* What every step but a change of address keeps.
LEMMA AddressesKept ==
  ASSUME Options!OptionsInv, UNCHANGED <<option_port, address, focus>>,
         DOMAIN options' = DOMAIN options,
         \A m \in joined' : m.family \in Options!Families /\ m.ifindex \in Indexes \cup {0},
         looped' \in BOOLEAN,
         last_set' # Options!NoCall => last_set'.kind \in {"set", "nothing", "join", "leave"}
  PROVE  /\ Options!TypeOK'
         /\ (\A i, j \in Indexes : address[i] = address[j] => i = j \/ address[i] = 0)'
         /\ focus' \in Options!Options \cup {Options!GroupFocus} /\ DOMAIN options' = Options!Options
BY DEF Options!OptionsInv, Options!TypeOK

LEMMA RefuseKeeps ==
  ASSUME Options!OptionsInv, Options!Refuse
  PROVE  Options!OptionsInv'
<1>1. Options!TypeOK /\ Options!SystemHas("SO_SNDBUF") /\ Options!SystemHas("SO_SNDTIMEO")
  BY DEF Options!OptionsInv
<1>2. /\ last_set' = Options!NoCall /\ got' = None
      /\ UNCHANGED <<option_port, address, focus, options, joined, looped, option_asked>>
  BY DEF Options!Refuse
<1>3. Options!SystemHas("SO_SNDBUF")' /\ Options!SystemHas("SO_SNDTIMEO")'
  BY <1>1, <1>2, SystemKept
<1>4. /\ \A m \in joined' : m.family \in Options!Families /\ m.ifindex \in Indexes \cup {0}
      /\ looped' \in BOOLEAN
  BY <1>1, <1>2 DEF Options!TypeOK
<1>5. Options!GetsWhatWasSet'
  BY <1>2 DEF Options!GetsWhatWasSet
<1> QED
  BY <1>2, <1>3, <1>4, <1>5, AddressesKept DEF Options!OptionsInv

\* What a call that succeeds leaves as it was, with a call for its result.
LEMMA SucceedKeeps ==
  ASSUME Options!OptionsInv, NEW kind \in {"set", "nothing", "join", "leave"}, NEW level, NEW name,
         NEW value, Options!Succeed(Options!Call(kind, level, name, value)),
         DOMAIN options' = DOMAIN options,
         \A m \in joined' : m.family \in Options!Families /\ m.ifindex \in Indexes \cup {0},
         looped' \in BOOLEAN,
         Options!SystemHas("SO_SNDBUF")' /\ Options!SystemHas("SO_SNDTIMEO")'
  PROVE  Options!OptionsInv'
<1>1. /\ last_set' = Options!Call(kind, level, name, value) /\ got' = None
      /\ UNCHANGED <<option_port, address, focus>>
  BY DEF Options!Succeed
<1>2. last_set'.kind = kind
  BY <1>1 DEF Options!Call
<1>3. Options!GetsWhatWasSet'
  BY <1>1 DEF Options!GetsWhatWasSet
<1> QED
  BY <1>1, <1>2, <1>3, AddressesKept DEF Options!OptionsInv

LEMMA SetValueKeeps ==
  ASSUME Options!OptionsAssumption, Options!OptionsInv, NEW v \in OptionValues, NEW len \in Options!Lens,
         Options!SetValue(focus[1], focus[2], v, len)
  PROVE  Options!OptionsInv'
<1> PICK level, name : level = focus[1] /\ name = focus[2]
  OBVIOUS
<1>0. /\ focus = <<level, name>> /\ (level # "groups" => focus \in Options!Options)
      /\ Options!SystemHas("SO_SNDBUF") /\ Options!SystemHas("SO_SNDTIMEO")
  BY DEF Options!OptionsInv, Options!Options, Options!GroupFocus
<1>1. CASE Options!Refuse
  BY <1>1, RefuseKeeps
<1>2. CASE ~Options!Refuse
  <2> PICK target : target = Options!Target(level, name, len)
    OBVIOUS
  <2>1. /\ target # None
        /\ options' = [options EXCEPT ![<<level, target>>] = Options!Native(level, target, v)]
        /\ Options!Succeed(Options!Call("set", level, name, v))
        /\ UNCHANGED <<joined, looped>>
    BY <1>2 DEF Options!SetValue
  <2>2. UNCHANGED <<option_port, focus>> /\ option_asked' = v
    BY <2>1 DEF Options!Succeed, Options!Call
  <2>3. ASSUME NEW n \in {"SO_SNDBUF", "SO_SNDTIMEO"}, Options!SystemHas(n)
        PROVE  Options!SystemHas(n)'
    <3>1. CASE focus # <<"SOL_SOCKET", n>> \/ option_port \notin {"linux", "macos", "windows"}
      BY <2>2, <2>3, <3>1, SystemKept
    <3>2. CASE focus = <<"SOL_SOCKET", n>> /\ option_port \in {"linux", "macos", "windows"}
      <4>1. level = "SOL_SOCKET" /\ name = n
        BY <1>0, <3>2
      <4>2. target = n
        BY <2>1, <3>2, <4>1, TargetIs
      <4>3. focus \in DOMAIN options
        BY <1>0, <4>1 DEF Options!OptionsInv
      <4>4. options'[<<"SOL_SOCKET", n>>] = Options!Native("SOL_SOCKET", n, v)
        BY <2>1, <3>2, <4>1, <4>2, <4>3
      <4>5. Options!Native("SOL_SOCKET", n, v)' = Options!Native("SOL_SOCKET", n, v)
        BY <2>2, NativeStays
      <4> QED
        BY <2>2, <4>4, <4>5 DEF Options!SystemHas
    <3> QED
      BY <3>1, <3>2
  <2>4. Options!SystemHas("SO_SNDBUF")' /\ Options!SystemHas("SO_SNDTIMEO")'
    BY <1>0, <2>3
  <2>5. DOMAIN options' = DOMAIN options
    BY <2>1
  <2>6. /\ \A m \in joined' : m.family \in Options!Families /\ m.ifindex \in Indexes \cup {0}
        /\ looped' \in BOOLEAN
    BY <2>1 DEF Options!OptionsInv, Options!TypeOK
  <2> QED
    BY <2>1, <2>4, <2>5, <2>6, SucceedKeeps
<1> QED
  BY <1>1, <1>2

LEMMA SetNothingKeeps ==
  ASSUME Options!OptionsAssumption, Options!OptionsInv, NEW v \in OptionValues,
         Options!SetNothing(focus[1], focus[2], v)
  PROVE  Options!OptionsInv'
<1> PICK level, name : level = focus[1] /\ name = focus[2]
  OBVIOUS
<1>1. /\ option_port = "mqx" /\ Options!Succeed(Options!Call("nothing", level, name, v))
      /\ UNCHANGED <<options, joined, looped>>
  BY DEF Options!SetNothing
<1>2. UNCHANGED <<option_port, focus>>
  BY <1>1 DEF Options!Succeed
<1>3. Options!SystemHas("SO_SNDBUF")' /\ Options!SystemHas("SO_SNDTIMEO")'
  BY <1>1, <1>2, SystemKept DEF Options!OptionsInv
<1>4. /\ \A m \in joined' : m.family \in Options!Families /\ m.ifindex \in Indexes \cup {0}
      /\ looped' \in BOOLEAN
  BY <1>1 DEF Options!OptionsInv, Options!TypeOK
<1> QED
  BY <1>1, <1>3, <1>4, SucceedKeeps

LEMMA SetInterfaceKeeps ==
  ASSUME Options!OptionsAssumption, Options!OptionsInv, NEW family \in Options!Families, NEW i \in IndexArgs,
         NEW len \in Options!Lens, Options!SetInterface(family, i, len)
  PROVE  Options!OptionsInv'
<1> PICK level : level = Options!LevelOf[family]
  OBVIOUS
<1>1. CASE Options!Refuse
  BY <1>1, RefuseKeeps
<1>2. CASE ~Options!Refuse
  <2> PICK ifindex : ifindex = Options!Outgoing(family, i)
    OBVIOUS
  <2>1. /\ focus = <<level, "IP_MULTICAST_IF">>
        /\ options' = [options EXCEPT ![focus] = ifindex]
        /\ Options!Succeed(Options!Call("set", level, "IP_MULTICAST_IF", i))
        /\ UNCHANGED <<joined, looped>>
    BY <1>2 DEF Options!SetInterface
  <2>2. UNCHANGED <<option_port, focus>>
    BY <2>1 DEF Options!Succeed
  <2>3. Options!SystemHas("SO_SNDBUF")' /\ Options!SystemHas("SO_SNDTIMEO")'
    BY <2>1, <2>2, SystemKept DEF Options!OptionsInv
  <2>4. /\ \A m \in joined' : m.family \in Options!Families /\ m.ifindex \in Indexes \cup {0}
        /\ looped' \in BOOLEAN
    BY <2>1 DEF Options!OptionsInv, Options!TypeOK
  <2> QED
    BY <2>1, <2>3, <2>4, SucceedKeeps
<1> QED
  BY <1>1, <1>2

\* A call of the groups that succeeds.
LEMMA GroupKeeps ==
  ASSUME Options!OptionsAssumption, Options!OptionsInv, NEW family \in Options!Families,
         NEW ifindex \in Indexes \cup {0, None},
         NEW kind \in {"join", "leave"}, NEW level, NEW name, NEW value,
         \/ Options!Joined(family, ifindex, Options!Call(kind, level, name, value))
         \/ Options!Left(family, ifindex, Options!Call(kind, level, name, value))
  PROVE  Options!OptionsInv'
<1>1. /\ focus = Options!GroupFocus /\ ifindex # None
      /\ joined' \in {joined \cup {Options!Member(family, ifindex)},
                     joined \ {Options!Member(family, ifindex)}}
      /\ Options!Loops(family, TRUE) \/ Options!Loops(family, FALSE)
      /\ Options!Succeed(Options!Call(kind, level, name, value)) /\ UNCHANGED options
  BY DEF Options!Joined, Options!Left, Options!JoinAt, Options!LeaveAt
<1>2. Options!Member(family, ifindex).family \in Options!Families
        /\ Options!Member(family, ifindex).ifindex \in Indexes \cup {0}
  BY <1>1 DEF Options!Member
<1>3. \A m \in joined' : m.family \in Options!Families /\ m.ifindex \in Indexes \cup {0}
  BY <1>1, <1>2 DEF Options!OptionsInv, Options!TypeOK
<1>4. looped' \in BOOLEAN
  BY <1>1 DEF Options!OptionsInv, Options!TypeOK, Options!Loops
<1>5. UNCHANGED <<option_port, focus>>
  BY <1>1 DEF Options!Succeed
<1>6. Options!SystemHas("SO_SNDBUF")' /\ Options!SystemHas("SO_SNDTIMEO")'
  BY <1>1, <1>5, SystemKept DEF Options!OptionsInv, Options!GroupFocus
<1> QED
  BY <1>1, <1>3, <1>4, <1>6, SucceedKeeps

LEMMA ChangeAddressKeeps ==
  ASSUME Options!OptionsAssumption, Options!OptionsInv, NEW i \in Indexes, NEW a \in LinkAddresses,
         Options!ChangeAddress(i, a)
  PROVE  Options!OptionsInv'
<1>1. /\ a # 0 => \A j \in Indexes : address[j] # a
      /\ focus[2] \in {"groups", "IP_MULTICAST_IF"}
      /\ address' = [address EXCEPT ![i] = a] /\ last_set' = Options!NoCall
      /\ UNCHANGED <<option_port, focus, options, joined, looped, option_asked, got>>
  BY DEF Options!ChangeAddress
<1>2. Options!SystemHas("SO_SNDBUF")' /\ Options!SystemHas("SO_SNDTIMEO")'
  BY <1>1, SystemKept DEF Options!OptionsInv
<1>3. Options!TypeOK'
  BY <1>1 DEF Options!OptionsInv, Options!TypeOK
<1>4. (\A k, j \in Indexes : address[k] = address[j] => k = j \/ address[k] = 0)'
  BY <1>1 DEF Options!OptionsInv, Options!TypeOK
<1>5. focus' \in Options!Options \cup {Options!GroupFocus} /\ DOMAIN options' = Options!Options
        /\ Options!GetsWhatWasSet'
  BY <1>1 DEF Options!OptionsInv, Options!GetsWhatWasSet
<1> QED
  BY <1>2, <1>3, <1>4, <1>5 DEF Options!OptionsInv

LEMMA GetValueKeeps ==
  ASSUME Options!OptionsAssumption, Options!OptionsInv, Options!GetValue(focus[1], focus[2])
  PROVE  Options!OptionsInv'
<1> PICK level, name : level = focus[1] /\ name = focus[2]
  OBVIOUS
<1>1. focus = <<level, name>>
  BY DEF Options!OptionsInv, Options!Options, Options!GroupFocus
<1>2. /\ last_set' = Options!NoCall
      /\ UNCHANGED <<option_port, address, focus, options, joined, looped, option_asked>>
  BY DEF Options!GetValue
<1>3. got' = option_asked
  BY <1>1, ReadsBack
<1>4. Options!SystemHas("SO_SNDBUF")' /\ Options!SystemHas("SO_SNDTIMEO")'
  BY <1>2, SystemKept DEF Options!OptionsInv
<1>5. /\ \A m \in joined' : m.family \in Options!Families /\ m.ifindex \in Indexes \cup {0}
      /\ looped' \in BOOLEAN
  BY <1>2 DEF Options!OptionsInv, Options!TypeOK
<1>6. Options!GetsWhatWasSet'
  BY <1>2, <1>3 DEF Options!GetsWhatWasSet
<1> QED
  BY <1>2, <1>4, <1>5, <1>6, AddressesKept DEF Options!OptionsInv

LEMMA OptionsStep ==
  ASSUME Options!OptionsAssumption, Options!OptionsInv, [Options!Next]_Options!vars
  PROVE  Options!OptionsInv'
<1>1. CASE \E v \in OptionValues, len \in Options!Lens : Options!SetValue(focus[1], focus[2], v, len)
  BY <1>1, SetValueKeeps
<1>2. CASE \E v \in OptionValues : Options!SetNothing(focus[1], focus[2], v)
  BY <1>2, SetNothingKeeps
<1>3. CASE \E family \in Options!Families, i \in IndexArgs, len \in Options!Lens :
             Options!SetInterface(family, i, len)
  BY <1>3, SetInterfaceKeeps
<1>4. ASSUME NEW family \in Options!Families, NEW i \in IndexArgs, Options!JoinGroup(family, i)
      PROVE  Options!OptionsInv'
  <2>1. Options!Interface(family, i) \in Indexes \cup {0, None}
    BY InterfaceIs DEF Options!OptionsInv
  <2> QED
    BY <1>4, <2>1, GroupKeeps DEF Options!JoinGroup
<1>5. ASSUME NEW family \in Options!Families, NEW i \in IndexArgs, Options!LeaveGroup(family, i)
      PROVE  Options!OptionsInv'
  <2>1. Options!Interface(family, i) \in Indexes \cup {0, None}
    BY InterfaceIs DEF Options!OptionsInv
  <2> QED
    BY <1>5, <2>1, GroupKeeps DEF Options!LeaveGroup
<1>6. ASSUME NEW a \in LinkAddresses, Options!AddMembership(a) \/ Options!DropMembership(a)
      PROVE  Options!OptionsInv'
  <2>1. Options!WithAddress(a) \in Indexes \cup {0, None} /\ "v4" \in Options!Families
    BY WithAddressIs DEF Options!Families
  <2> QED
    BY <1>6, <2>1, GroupKeeps DEF Options!AddMembership, Options!DropMembership
<1>7. CASE Options!GroupRefused
  BY <1>7, RefuseKeeps DEF Options!GroupRefused
<1>8. CASE \E i \in Indexes, a \in LinkAddresses : Options!ChangeAddress(i, a)
  BY <1>8, ChangeAddressKeeps
<1>9. CASE Options!GetValue(focus[1], focus[2])
  BY <1>9, GetValueKeeps
<1>10. CASE UNCHANGED Options!vars
  <2>1. UNCHANGED <<option_port, address, focus, options, joined, looped, last_set, option_asked, got>>
    BY <1>10 DEF Options!vars
  <2>2. Options!SystemHas("SO_SNDBUF")' /\ Options!SystemHas("SO_SNDTIMEO")'
    BY <2>1, SystemKept DEF Options!OptionsInv
  <2> QED
    BY <2>1, <2>2 DEF Options!OptionsInv, Options!TypeOK, Options!GetsWhatWasSet
<1> QED
  BY <1>1, <1>2, <1>3, <1>4, <1>5, <1>6, <1>7, <1>8, <1>9, <1>10 DEF Options!Next

\* The inductive invariant, for any interfaces, addresses and values.
THEOREM OptionsInvariant == ASSUME Options!OptionsAssumption PROVE Options!Spec => []Options!OptionsInv
BY OptionsInit, OptionsStep, PTL DEF Options!Spec

\* What each kind of call was to do, spelled out.
LEMMA DoneNothing ==
  ASSUME NEW call, call.kind \in {"none", "nothing"}, joined' = joined, options' = options
  PROVE  Options!Done(call)
BY DEF Options!Done

LEMMA DoneSet ==
  ASSUME NEW level, NEW name, NEW value, joined' = joined,
         options' = [options EXCEPT ![<<level, name>>] = Options!Native(level, name, value)]
  PROVE  Options!Done(Options!Call("set", level, name, value))
<1> DEFINE call == Options!Call("set", level, name, value)
<1>1. call.kind = "set" /\ call.level = level /\ call.name = name /\ call.value = value
  BY DEF Options!Call
<1> HIDE DEF call
<1>2. Options!Done(call)
  BY <1>1 DEF Options!Done
<1> QED
  BY <1>2 DEF call

LEMMA DoneGroup ==
  ASSUME NEW kind, NEW level, NEW name, NEW value, options' = options,
         \/ kind = "join" /\ joined' = joined \cup {Options!Member(name, value)}
         \/ kind = "leave" /\ joined' = joined \ {Options!Member(name, value)}
  PROVE  Options!Done(Options!Call(kind, level, name, value))
<1> DEFINE call == Options!Call(kind, level, name, value)
<1>1. call.kind = kind /\ call.name = name /\ call.value = value
  BY DEF Options!Call
<1> HIDE DEF call
<1>2. Options!Done(call)
  BY <1>1 DEF Options!Done
<1> QED
  BY <1>2 DEF call

LEMMA RefusesDone == ASSUME Options!Refuse PROVE Options!Done(last_set')
<1>1. last_set' = Options!NoCall /\ joined' = joined /\ options' = options
  BY DEF Options!Refuse
<1>2. Options!NoCall.kind = "none"
  BY DEF Options!NoCall
<1>3. Options!Done(Options!NoCall)
  BY <1>1, <1>2, DoneNothing
<1> QED
  BY <1>1, <1>3

\* What lwIP does not misunderstand.
LEMMA Understood ==
  ASSUME NEW kind, NEW level, NEW name, NEW value, option_port = "lwip",
         ~Options!Misunderstood(Options!Call(kind, level, name, value))
  PROVE  /\ name \notin {"IP_MULTICAST_TTL", "IP_MULTICAST_LOOP"}
         /\ ~(kind = "leave" /\ name = "v6")
         /\ level = "IPPROTO_IP" /\ value \in IndexArgs /\ value # 0 =>
              value \in Indexes /\ address[value] # 0
BY DEF Options!Misunderstood, Options!Call

LEMMA CallIsCall ==
  ASSUME NEW kind \in {"set", "nothing", "join", "leave"}, NEW level, NEW name, NEW value
  PROVE  Options!Call(kind, level, name, value) # Options!NoCall
<1>1. Options!Call(kind, level, name, value).kind = kind /\ Options!NoCall.kind = "none"
  BY DEF Options!Call, Options!NoCall
<1> QED
  BY <1>1

LEMMA LevelIs ==
  ASSUME NEW family \in Options!Families
  PROVE  family = "v4" => Options!LevelOf[family] = "IPPROTO_IP"
BY DEF Options!Families, Options!LevelOf

LEMMA SetValueDone ==
  ASSUME Options!OptionsInv, NEW level, NEW name, NEW v, NEW len,
         Options!SetValue(level, name, v, len),
         last_set' # Options!NoCall => ~Options!Misunderstood(last_set')
  PROVE  Options!Done(last_set')
<1>1. CASE Options!Refuse
  BY <1>1, RefusesDone
<1>2. CASE ~Options!Refuse
  <2> PICK target : target = Options!Target(level, name, len)
    OBVIOUS
  <2>1. /\ target # None
        /\ options' = [options EXCEPT ![<<level, target>>] = Options!Native(level, target, v)]
        /\ last_set' = Options!Call("set", level, name, v) /\ joined' = joined
    BY <1>2 DEF Options!SetValue, Options!Succeed
  <2>2. ~Options!Misunderstood(Options!Call("set", level, name, v))
    BY <2>1, CallIsCall
  <2>3. ~(option_port = "lwip" /\ name \in {"IP_MULTICAST_TTL", "IP_MULTICAST_LOOP"})
    BY <2>2, Understood
  <2>4. target = name
    BY <2>1, <2>3, TargetIs
  <2>5. Options!Done(Options!Call("set", level, name, v))
    BY <2>1, <2>4, DoneSet
  <2> QED
    BY <2>1, <2>5
<1> QED
  BY <1>1, <1>2

\* The condition under which InterfaceIsNamed holds for a call that lwIP understands.
LEMMA NamedIfUnderstood ==
  ASSUME NEW kind, NEW family \in Options!Families, NEW name, NEW i \in IndexArgs,
         ~Options!Misunderstood(Options!Call(kind, Options!LevelOf[family], name, i))
  PROVE  option_port = "lwip" /\ family = "v4" => i = 0 \/ (i \in Indexes /\ address[i] # 0)
<1> SUFFICES ASSUME option_port = "lwip", family = "v4"
             PROVE  i = 0 \/ (i \in Indexes /\ address[i] # 0)
  OBVIOUS
<1> QED
  BY LevelIs, Understood

LEMMA SetInterfaceDone ==
  ASSUME Options!OptionsAssumption, Options!OptionsInv, NEW family \in Options!Families,
         NEW i \in IndexArgs, NEW len,
         Options!SetInterface(family, i, len),
         last_set' # Options!NoCall => ~Options!Misunderstood(last_set')
  PROVE  Options!Done(last_set')
<1>1. CASE Options!Refuse
  BY <1>1, RefusesDone
<1>2. CASE ~Options!Refuse
  <2> PICK level : level = Options!LevelOf[family]
    OBVIOUS
  <2> PICK ifindex : ifindex = Options!Outgoing(family, i)
    OBVIOUS
  <2>1. /\ focus = <<level, "IP_MULTICAST_IF">> /\ ifindex # None
        /\ options' = [options EXCEPT ![focus] = ifindex]
        /\ last_set' = Options!Call("set", level, "IP_MULTICAST_IF", i) /\ joined' = joined
    BY <1>2 DEF Options!SetInterface, Options!Succeed
  <2>2. ~Options!Misunderstood(Options!Call("set", level, "IP_MULTICAST_IF", i))
    BY <2>1, CallIsCall
  <2>3. option_port = "lwip" /\ family = "v4" => i = 0 \/ (i \in Indexes /\ address[i] # 0)
    BY <2>2, NamedIfUnderstood
  <2>4. ifindex = i
    BY <2>1, <2>3, InterfaceIsNamed
  <2>5. Options!Native(level, "IP_MULTICAST_IF", i) = i
    BY NativeIs
  <2>6. Options!Done(Options!Call("set", level, "IP_MULTICAST_IF", i))
    BY <2>1, <2>4, <2>5, DoneSet
  <2> QED
    BY <2>1, <2>6
<1> QED
  BY <1>1, <1>2

LEMMA JoinGroupDone ==
  ASSUME Options!OptionsAssumption, Options!OptionsInv, NEW family \in Options!Families, NEW i \in IndexArgs,
         Options!JoinGroup(family, i), last_set' # Options!NoCall => ~Options!Misunderstood(last_set')
  PROVE  Options!Done(last_set')
<1> PICK level : level = Options!LevelOf[family]
  OBVIOUS
<1> PICK ifindex : ifindex = Options!Interface(family, i)
  OBVIOUS
<1>1. /\ ifindex # None /\ joined' = joined \cup {Options!Member(family, ifindex)} /\ options' = options
      /\ last_set' = Options!Call("join", level, family, i)
  BY DEF Options!JoinGroup, Options!Joined, Options!JoinAt, Options!Succeed
<1>2. ~Options!Misunderstood(Options!Call("join", level, family, i))
  BY <1>1, CallIsCall
<1>3. ifindex = i
  BY <1>1, <1>2, NamedIfUnderstood, InterfaceIsNamed
<1>4. Options!Done(Options!Call("join", level, family, i))
  BY <1>1, <1>3, DoneGroup
<1> QED
  BY <1>1, <1>4

LEMMA LeaveGroupDone ==
  ASSUME Options!OptionsAssumption, Options!OptionsInv, NEW family \in Options!Families, NEW i \in IndexArgs,
         Options!LeaveGroup(family, i), last_set' # Options!NoCall => ~Options!Misunderstood(last_set')
  PROVE  Options!Done(last_set')
<1> PICK level : level = Options!LevelOf[family]
  OBVIOUS
<1> PICK ifindex : ifindex = Options!Interface(family, i)
  OBVIOUS
<1>1. /\ ifindex # None /\ options' = options /\ last_set' = Options!Call("leave", level, family, i)
      /\ ~(option_port = "lwip" /\ family = "v6") =>
         joined' = joined \ {Options!Member(family, ifindex)}
  BY DEF Options!LeaveGroup, Options!Joined, Options!JoinAt, Options!Left, Options!LeaveAt,
     Options!Succeed
<1>2. ~Options!Misunderstood(Options!Call("leave", level, family, i))
  BY <1>1, CallIsCall
<1>3. ~(option_port = "lwip" /\ family = "v6")
  BY <1>2, Understood
<1>4. ifindex = i
  BY <1>1, <1>2, NamedIfUnderstood, InterfaceIsNamed
<1>5. Options!Done(Options!Call("leave", level, family, i))
  BY <1>1, <1>3, <1>4, DoneGroup
<1> QED
  BY <1>1, <1>5

LEMMA StepDone ==
  ASSUME Options!OptionsAssumption, Options!OptionsInv, Options!Next,
         last_set' # Options!NoCall => ~Options!Misunderstood(last_set')
  PROVE  Options!Done(last_set')
<1>1. CASE \E v \in OptionValues, len \in Options!Lens : Options!SetValue(focus[1], focus[2], v, len)
  BY <1>1, SetValueDone
<1>2. ASSUME NEW v \in OptionValues, Options!SetNothing(focus[1], focus[2], v)
      PROVE  Options!Done(last_set')
  <2> PICK level, name : level = focus[1] /\ name = focus[2]
    OBVIOUS
  <2>1. last_set' = Options!Call("nothing", level, name, v) /\ joined' = joined /\ options' = options
    BY <1>2 DEF Options!SetNothing, Options!Succeed
  <2>2. Options!Call("nothing", level, name, v).kind = "nothing"
    BY DEF Options!Call
  <2>3. Options!Done(Options!Call("nothing", level, name, v))
    BY <2>1, <2>2, DoneNothing
  <2> QED
    BY <2>1, <2>3
<1>3. CASE \E family \in Options!Families, i \in IndexArgs, len \in Options!Lens :
             Options!SetInterface(family, i, len)
  BY <1>3, SetInterfaceDone
<1>4. CASE \E family \in Options!Families, i \in IndexArgs :
             Options!JoinGroup(family, i) \/ Options!LeaveGroup(family, i)
  BY <1>4, JoinGroupDone, LeaveGroupDone
<1>5. ASSUME NEW a \in LinkAddresses, Options!AddMembership(a) \/ Options!DropMembership(a)
      PROVE  Options!Done(last_set')
  <2> PICK ifindex : ifindex = Options!WithAddress(a)
    OBVIOUS
  <2>1. \/ /\ last_set' = Options!Call("join", "IPPROTO_IP", "v4", ifindex) /\ options' = options
           /\ joined' = joined \cup {Options!Member("v4", ifindex)}
        \/ /\ last_set' = Options!Call("leave", "IPPROTO_IP", "v4", ifindex) /\ options' = options
           /\ joined' = joined \ {Options!Member("v4", ifindex)}
    BY <1>5 DEF Options!AddMembership, Options!DropMembership, Options!Joined, Options!Left,
       Options!JoinAt,
       Options!LeaveAt, Options!Succeed
  <2> QED
    BY <2>1, DoneGroup
<1>6. CASE Options!GroupRefused
  BY <1>6, RefusesDone DEF Options!GroupRefused
<1>7. CASE \/ \E i \in Indexes, a \in LinkAddresses : Options!ChangeAddress(i, a)
           \/ Options!GetValue(focus[1], focus[2])
  <2>1. last_set' = Options!NoCall /\ joined' = joined /\ options' = options
    BY <1>7 DEF Options!ChangeAddress, Options!GetValue
  <2>2. Options!NoCall.kind = "none"
    BY DEF Options!NoCall
  <2> QED
    BY <2>1, <2>2, DoneNothing
<1> QED
  BY <1>1, <1>2, <1>3, <1>4, <1>5, <1>6, <1>7 DEF Options!Next

\* A call of setsockopt that succeeds does what was asked, on every port, for any
\* interfaces and however their addresses change, but for the calls that lwIP's port
\* misunderstands; getsockopt returns what was set.
THEOREM OptionsAreAlwaysKept ==
  ASSUME Options!OptionsAssumption PROVE Options!Spec => OptionsAreKept
<1>1. Options!OptionsInv => Options!GetsWhatWasSet
  BY DEF Options!OptionsInv
<1>2. ASSUME Options!OptionsInv, [Options!Next]_Options!vars
      PROVE  [(last_set' # Options!NoCall => ~Options!Misunderstood(last_set')) => Options!Done(last_set')]_Options!vars
  BY <1>2, StepDone
<1> QED
  BY <1>1, <1>2, OptionsInvariant, PTL DEF Options!Spec, OptionsAreKept, Options!OptionsAreKept,
     Options!SetsWhatWasNamed

----
(***************************************************************************)
(* The calls of sockets.                                                   *)
(***************************************************************************)
LEMMA ModesAre ==
  ASSUME Calls!CallsAssumption, NEW b \in BOOLEAN
  PROVE  b # None
BY DEF Calls!CallsAssumption

LEMMA AnswersAre ==
  ASSUME Calls!CallsAssumption, NEW s \in CallSockets, NEW b \in BOOLEAN
  PROVE  [id |-> s, blocking |-> b] # None
BY DEF Calls!CallsAssumption

LEMMA ListsAre ==
  ASSUME Calls!CallsAssumption, NEW entries \in Calls!Lists
  PROVE  /\ entries # None /\ entries \in Seq(Calls!Addresses)
         /\ Len(entries) \in 1 .. MaxAddresses
<1>1. PICK n \in 1 .. MaxAddresses : entries \in [1 .. n -> Calls!Addresses]
  BY DEF Calls!Lists
<1>2. entries \in Seq(Calls!Addresses) /\ Len(entries) = n
  BY <1>1
<1> QED
  BY <1>1, <1>2 DEF Calls!CallsAssumption

LEMMA CallsInitInv ==
  ASSUME Calls!CallsAssumption, Calls!Init
  PROVE  Calls!CallsInv
<1>1. /\ DOMAIN opened = {} /\ held = {} /\ answer = None /\ list = None
      /\ inbox = << >> /\ delivery = None /\ addrs = << >> /\ pd = <<0, 0>>
      /\ startups = 0 /\ initialized = FALSE /\ call_port \in CallPorts
  BY DEF Calls!Init, Calls!NULL
<1>2. blocking \in [CallSockets -> BOOLEAN \cup {None}]
  BY DEF Calls!Init
<1>3. inbox \in Seq(Calls!Addresses) /\ Len(inbox) <= MaxWaiting /\ addrs \in Seq(Calls!Addresses)
  BY <1>1 DEF Calls!CallsAssumption
<1>4. pd \in (0 .. MaxAddresses) \X (0 .. MaxAddresses)
  BY <1>1 DEF Calls!CallsAssumption
<1>5. initialized \in BOOLEAN
  BY <1>1
<1>6. Calls!TypeOK
  BY <1>1, <1>2, <1>3, <1>4, <1>5 DEF Calls!TypeOK
<1>7. Calls!WinsockRuns /\ Calls!EverySocketIsHeld /\ Calls!FlagsAsAsked /\ Calls!EntriesSeen
  BY <1>1 DEF Calls!WinsockRuns, Calls!EverySocketIsHeld, Calls!FlagsAsAsked,
     Calls!EntriesSeen
<1> QED
  BY <1>6, <1>7 DEF Calls!CallsInv

----
\* The parts of the invariant, by the variables they are about.
ModuleTypes == call_port \in CallPorts /\ initialized \in BOOLEAN /\ startups \in 0 .. 1 /\ Calls!WinsockRuns

SocketTypes ==
  /\ DOMAIN opened \subseteq CallSockets /\ \A s \in DOMAIN opened : opened[s] \subseteq Calls!Directions
  /\ held \subseteq CallSockets /\ blocking \in [CallSockets -> BOOLEAN \cup {None}]
  /\ answer \in {None} \cup [id : CallSockets, blocking : BOOLEAN]
  /\ Calls!EverySocketIsHeld /\ Calls!FlagsAsAsked

DataTypes ==
  /\ inbox \in Seq(Calls!Addresses) /\ Len(inbox) <= MaxWaiting
  /\ delivery \in {None} \cup [from : Calls!Addresses, peek : BOOLEAN, ok : BOOLEAN]

ListTypes ==
  /\ list \in {None} \cup Calls!Lists /\ pd \in (0 .. MaxAddresses) \X (0 .. MaxAddresses)
  /\ addrs \in Seq(Calls!Addresses)
  /\ Calls!EntriesSeen

LEMMA CallsInvParts ==
  /\ Calls!CallsInv <=> ModuleTypes /\ SocketTypes /\ DataTypes /\ ListTypes
  /\ Calls!CallsInv' <=> ModuleTypes' /\ SocketTypes' /\ DataTypes' /\ ListTypes'
BY DEF Calls!CallsInv, Calls!TypeOK, ModuleTypes, SocketTypes, DataTypes, ListTypes

LEMMA ModuleTypesStay == ModuleTypes /\ UNCHANGED Calls!module_vars => ModuleTypes'
BY DEF ModuleTypes, Calls!WinsockRuns, Calls!module_vars

LEMMA SocketTypesStay == SocketTypes /\ UNCHANGED Calls!socket_vars => SocketTypes'
BY DEF SocketTypes, Calls!EverySocketIsHeld, Calls!FlagsAsAsked, Calls!IsBlocking,
   Calls!socket_vars

LEMMA DataTypesStay == DataTypes /\ UNCHANGED Calls!data_vars => DataTypes'
BY DEF DataTypes, Calls!data_vars

LEMMA ListTypesStay == ListTypes /\ UNCHANGED Calls!list_vars => ListTypes'
BY DEF ListTypes, Calls!EntriesSeen, Calls!list_vars

\* What FlagsAsAsked says of one socket.
LEMMA FlagsOf ==
  ASSUME SocketTypes, NEW s \in held
  PROVE  /\ blocking[s] = TRUE => opened[s] = {}
         /\ blocking[s] = FALSE => opened[s] = Calls!Directions
BY Zenon DEF SocketTypes, Calls!FlagsAsAsked

----
\* A socket that is new does wait, and what is said of the others stays.
LEMMA ReceiveKeeps ==
  ASSUME Calls!CallsAssumption, SocketTypes, NEW s \in CallSockets, Calls!Receive(s)
  PROVE  SocketTypes'
<1>1. /\ opened' = [t \in DOMAIN opened \cup {s} |-> IF t = s THEN {} ELSE opened[t]]
      /\ held' = held \cup {s} /\ blocking' = [blocking EXCEPT ![s] = TRUE] /\ answer' = None
      /\ s \notin DOMAIN opened
  BY DEF Calls!Receive, Calls!Opened
<1>2. DOMAIN opened' = held' /\ held' \subseteq CallSockets
  BY <1>1 DEF SocketTypes, Calls!EverySocketIsHeld
<1>3. \A t \in held' : opened'[t] = IF t = s THEN {} ELSE opened[t]
  BY <1>1, <1>2
<1>4. blocking' \in [CallSockets -> BOOLEAN \cup {None}]
  BY <1>1 DEF SocketTypes
<1>5. \A t \in CallSockets : blocking'[t] = IF t = s THEN TRUE ELSE blocking[t]
  BY <1>1 DEF SocketTypes
<1>6. \A t \in held' : opened'[t] \subseteq Calls!Directions
  BY <1>1, <1>3 DEF SocketTypes, Calls!EverySocketIsHeld
<1>7. ASSUME NEW t \in held'
      PROVE  /\ blocking'[t] = TRUE => opened'[t] = {}
             /\ blocking'[t] = FALSE => opened'[t] = Calls!Directions
  <2>1. CASE t = s
    <3>1. blocking'[t] = TRUE /\ opened'[t] = {}
      BY <1>3, <1>5, <2>1
    <3> QED
      BY <3>1
  <2>2. CASE t # s
    <3>1. t \in held /\ t \in CallSockets
      BY <1>1, <1>2, <2>2
    <3>2. blocking'[t] = blocking[t] /\ opened'[t] = opened[t]
      BY <1>3, <1>5, <2>2, <3>1
    <3> QED
      BY <3>1, <3>2, FlagsOf, Zenon
  <2> QED
    BY <2>1, <2>2
<1>8. Calls!FlagsAsAsked'
  BY <1>1, <1>7 DEF Calls!FlagsAsAsked
<1> QED
  BY <1>1, <1>2, <1>4, <1>6, <1>8 DEF SocketTypes, Calls!EverySocketIsHeld

LEMMA CloseKeepsCalls ==
  ASSUME Calls!CallsAssumption, SocketTypes, NEW s \in CallSockets, Calls!Close(s)
  PROVE  SocketTypes'
<1>1. /\ opened' = [t \in DOMAIN opened \ {s} |-> opened[t]]
      /\ held' = held \ {s} /\ blocking' = [blocking EXCEPT ![s] = None] /\ answer' = None
  BY DEF Calls!Close, Calls!Closed
<1>2. DOMAIN opened' = held' /\ held' \subseteq CallSockets
  BY <1>1 DEF SocketTypes, Calls!EverySocketIsHeld
<1>3. \A t \in held' : opened'[t] = opened[t] /\ t \in held /\ t # s
  BY <1>1, <1>2
<1>4. blocking' \in [CallSockets -> BOOLEAN \cup {None}]
  BY <1>1 DEF SocketTypes
<1>5. \A t \in held' : blocking'[t] = blocking[t]
  BY <1>1, <1>2, <1>3 DEF SocketTypes
<1>6. \A t \in held' : opened'[t] \subseteq Calls!Directions
  BY <1>3 DEF SocketTypes, Calls!EverySocketIsHeld
<1>7. Calls!FlagsAsAsked'
  BY <1>1, <1>3, <1>5 DEF SocketTypes, Calls!FlagsAsAsked
<1> QED
  BY <1>1, <1>2, <1>4, <1>6, <1>7 DEF SocketTypes, Calls!EverySocketIsHeld

\* What setting some directions of a held socket does.
LEMMA DirectionsSet ==
  ASSUME SocketTypes, NEW s \in held, NEW dirs \in SUBSET Calls!Directions, NEW wait \in BOOLEAN,
         opened' = [opened EXCEPT ![s] = IF wait THEN opened[s] \ dirs ELSE opened[s] \cup dirs],
         held' = held
  PROVE  /\ DOMAIN opened' = held'
         /\ \A t \in held \ {s} : opened'[t] = opened[t]
         /\ wait => opened'[s] = opened[s] \ dirs
         /\ ~wait => opened'[s] = opened[s] \cup dirs
         /\ \A t \in held : opened'[t] \subseteq Calls!Directions
<1>1. opened' = [opened EXCEPT ![s] = IF wait THEN opened[s] \ dirs ELSE opened[s] \cup dirs]
      /\ DOMAIN opened = held
  BY DEF SocketTypes, Calls!EverySocketIsHeld
<1>2. DOMAIN opened' = held'
  BY <1>1
<1>3. \A t \in held : opened'[t] = IF t # s THEN opened[t]
                                 ELSE IF wait THEN opened[s] \ dirs ELSE opened[s] \cup dirs
  BY <1>1
<1> QED
  BY <1>1, <1>2, <1>3 DEF SocketTypes

LEMMA SetBlockingKeeps ==
  ASSUME Calls!CallsAssumption, SocketTypes, NEW s \in CallSockets, NEW wait \in BOOLEAN,
         Calls!SetBlocking(s, wait)
  PROVE  SocketTypes'
<1>1. /\ s \in held /\ Calls!SetDirections(s, Calls!Directions, wait) /\ held' = held
      /\ blocking' = [blocking EXCEPT ![s] = wait] /\ answer' = None
  BY DEF Calls!SetBlocking
<1>2. /\ DOMAIN opened' = held' /\ \A t \in held : opened'[t] \subseteq Calls!Directions
      /\ \A t \in held \ {s} : opened'[t] = opened[t]
      /\ wait => opened'[s] = opened[s] \ Calls!Directions
      /\ ~wait => opened'[s] = opened[s] \cup Calls!Directions
  <2>1. Calls!Directions \in SUBSET Calls!Directions
    OBVIOUS
  <2> QED
    BY <1>1, <2>1, DirectionsSet DEF Calls!SetDirections
<1>3. blocking' \in [CallSockets -> BOOLEAN \cup {None}]
  BY <1>1 DEF SocketTypes
<1>4. \A t \in CallSockets : blocking'[t] = IF t = s THEN wait ELSE blocking[t]
  BY <1>1 DEF SocketTypes
<1>5. opened[s] \subseteq Calls!Directions /\ held \subseteq CallSockets
  BY <1>1 DEF SocketTypes, Calls!EverySocketIsHeld
<1>6. ASSUME NEW t \in held
      PROVE  /\ blocking'[t] = TRUE => opened'[t] = {}
             /\ blocking'[t] = FALSE => opened'[t] = Calls!Directions
  <2>1. CASE t = s
    <3>1. blocking'[s] = wait
      BY <1>4
    <3>2. CASE wait = TRUE
      BY <1>1, <1>2, <1>5, <2>1, <3>1, <3>2
    <3>3. CASE wait = FALSE
      BY <1>1, <1>2, <1>5, <2>1, <3>1, <3>3
    <3> QED
      BY <3>2, <3>3
  <2>2. CASE t # s
    <3>1. blocking'[t] = blocking[t] /\ opened'[t] = opened[t]
      BY <1>2, <1>4, <1>5, <2>2
    <3> QED
      BY <3>1, FlagsOf, Zenon
  <2> QED
    BY <2>1, <2>2
<1>7. Calls!FlagsAsAsked'
  BY <1>1, <1>6 DEF Calls!FlagsAsAsked
<1> QED
  BY <1>1, <1>2, <1>3, <1>5, <1>7 DEF SocketTypes, Calls!EverySocketIsHeld

\* On MQX the first direction may be set already when the second is refused.
LEMMA SetBlockingFailsKeeps ==
  ASSUME Calls!CallsAssumption, SocketTypes, NEW s \in CallSockets, NEW wait \in BOOLEAN,
         Calls!SetBlockingFails(s, wait)
  PROVE  SocketTypes'
<1>1. s \in held /\ held' = held /\ answer' = None
  BY DEF Calls!SetBlockingFails
<1>2. CASE UNCHANGED <<opened, blocking>>
  BY <1>1, <1>2 DEF SocketTypes, Calls!EverySocketIsHeld, Calls!FlagsAsAsked
<1>3. CASE /\ Calls!SetDirections(s, {"receive"}, wait)
           /\ blocking' = [blocking EXCEPT ![s] = IF @ = wait THEN wait ELSE None]
  <2>1. {"receive"} \in SUBSET Calls!Directions
    BY DEF Calls!Directions
  <2>2. /\ DOMAIN opened' = held' /\ \A t \in held : opened'[t] \subseteq Calls!Directions
        /\ \A t \in held \ {s} : opened'[t] = opened[t]
        /\ wait => opened'[s] = opened[s] \ {"receive"}
        /\ ~wait => opened'[s] = opened[s] \cup {"receive"}
    BY <1>1, <1>3, <2>1, DirectionsSet DEF Calls!SetDirections
  <2>3. blocking' \in [CallSockets -> BOOLEAN \cup {None}]
    BY <1>3 DEF SocketTypes
  <2>4. \A t \in CallSockets :
          blocking'[t] = IF t # s THEN blocking[t]
                         ELSE IF blocking[s] = wait THEN wait ELSE None
    BY <1>3 DEF SocketTypes
  <2>5. held \subseteq CallSockets
    BY DEF SocketTypes
  <2>6. ASSUME NEW t \in held
        PROVE  /\ blocking'[t] = TRUE => opened'[t] = {}
               /\ blocking'[t] = FALSE => opened'[t] = Calls!Directions
    <3>1. CASE t # s
      <4>1. blocking'[t] = blocking[t] /\ opened'[t] = opened[t]
        BY <2>2, <2>4, <2>5, <3>1
      <4> QED
        BY <4>1, FlagsOf, Zenon
    <3>2. CASE t = s /\ blocking[s] # wait
      <4>1. blocking'[t] = None /\ TRUE # None /\ FALSE # None
        BY <2>4, <3>2, ModesAre
      <4> QED
        BY <4>1
    <3>3. CASE t = s /\ blocking[s] = wait
      <4>1. blocking'[t] = wait
        BY <2>4, <3>3
      <4>2. CASE wait = TRUE
        <5>1. opened[s] = {}
          BY <1>1, <3>3, <4>2, FlagsOf, Zenon
        <5> QED
          BY <1>1, <2>2, <3>3, <4>1, <4>2, <5>1
      <4>3. CASE wait = FALSE
        <5>1. opened[s] = Calls!Directions
          BY <1>1, <3>3, <4>3, FlagsOf, Zenon
        <5>2. opened'[s] = Calls!Directions
          BY <1>1, <2>2, <4>3, <5>1 DEF Calls!Directions
        <5> QED
          BY <3>3, <4>1, <4>3, <5>2
      <4> QED
        BY <4>2, <4>3
    <3> QED
      BY <3>1, <3>2, <3>3
  <2>7. Calls!FlagsAsAsked'
    BY <1>1, <2>6 DEF Calls!FlagsAsAsked
  <2> QED
    BY <1>1, <2>2, <2>3, <2>5, <2>7 DEF SocketTypes, Calls!EverySocketIsHeld
<1> QED
  BY <1>2, <1>3 DEF Calls!SetBlockingFails

LEMMA GetBlockingKeeps ==
  ASSUME Calls!CallsAssumption, SocketTypes, NEW s \in CallSockets, Calls!GetBlocking(s)
  PROVE  SocketTypes'
<1>1. /\ s \in held /\ UNCHANGED <<opened, held, blocking>>
      /\ answer' = [id |-> s, blocking |-> Calls!IsBlocking(s)]
  BY DEF Calls!GetBlocking
<1>2. Calls!IsBlocking(s) \in BOOLEAN /\ Calls!IsBlocking(s)' = Calls!IsBlocking(s)
  BY <1>1 DEF Calls!IsBlocking
<1>3. answer' \in [id : CallSockets, blocking : BOOLEAN]
  BY <1>1, <1>2
<1>4. answer'.id = s /\ answer'.blocking = Calls!IsBlocking(s)
  BY <1>1
<1>5. Calls!FlagsAsAsked'
  BY <1>1, <1>4 DEF SocketTypes, Calls!FlagsAsAsked, Calls!IsBlocking
<1> QED
  BY <1>1, <1>3, <1>5 DEF SocketTypes, Calls!EverySocketIsHeld

----
LEMMA DataStep ==
  ASSUME Calls!CallsAssumption, DataTypes,
         \/ \E a \in Calls!Addresses : Calls!Arrive(a)
         \/ \E peek, want \in BOOLEAN : Calls!RecvFrom(peek, want)
  PROVE  DataTypes'
<1>1. ASSUME NEW a \in Calls!Addresses, Calls!Arrive(a) PROVE DataTypes'
  <2>1. inbox' = Append(inbox, a) /\ Len(inbox) < MaxWaiting /\ delivery' = None
    BY <1>1 DEF Calls!Arrive
  <2>2. inbox \in Seq(Calls!Addresses) /\ Len(inbox) \in Nat
    BY DEF DataTypes
  <2>3. inbox' \in Seq(Calls!Addresses) /\ Len(inbox') = Len(inbox) + 1
    BY <2>1, <2>2
  <2>4. Len(inbox') <= MaxWaiting
    BY <2>1, <2>2, <2>3 DEF Calls!CallsAssumption
  <2> QED
    BY <2>1, <2>3, <2>4 DEF DataTypes
<1>2. ASSUME NEW peek \in BOOLEAN, NEW want \in BOOLEAN, Calls!RecvFrom(peek, want) PROVE DataTypes'
  <2>1. /\ inbox # << >> /\ inbox' = IF peek THEN inbox ELSE Tail(inbox)
        /\ delivery' = [from |-> inbox[1], peek |-> peek,
                        ok |-> want => Calls!Converts(inbox[1])]
    BY <1>2 DEF Calls!RecvFrom
  <2>2. inbox \in Seq(Calls!Addresses) /\ Len(inbox) \in Nat /\ Len(inbox) <= MaxWaiting
    BY DEF DataTypes
  <2>3. Tail(inbox) \in Seq(Calls!Addresses) /\ Len(Tail(inbox)) = Len(inbox) - 1
          /\ inbox[1] \in Calls!Addresses
    BY <2>1, <2>2
  <2>4. inbox' \in Seq(Calls!Addresses) /\ Len(inbox') <= MaxWaiting
    <3>1. MaxWaiting \in Nat
      BY DEF Calls!CallsAssumption
    <3>2. CASE peek
      BY <2>1, <2>2, <3>2
    <3>3. CASE ~peek
      BY <2>1, <2>2, <2>3, <3>1, <3>3
    <3> QED
      BY <3>2, <3>3
  <2>5. (want => Calls!Converts(inbox[1])) \in BOOLEAN
    OBVIOUS
  <2>6. delivery' \in [from : Calls!Addresses, peek : BOOLEAN, ok : BOOLEAN]
    BY <2>1, <2>3, <2>5
  <2> QED
    BY <2>4, <2>6 DEF DataTypes
<1> QED
  BY <1>1, <1>2

----
\* One entry more is seen, if it converts.
LEMMA ListStep ==
  ASSUME Calls!CallsAssumption, ListTypes,
         (\E entries \in Calls!Lists : Calls!GetAddrInfo(entries)) \/ Calls!NextAddr
           \/ Calls!FreeAddrInfo
  PROVE  ListTypes'
<1>1. ASSUME NEW entries \in Calls!Lists, Calls!GetAddrInfo(entries) PROVE ListTypes'
  <2>1. /\ list' = entries /\ pd' = <<1, Calls!nextaddr(entries, 1).next>>
        /\ addrs' = IF Calls!nextaddr(entries, 1).found THEN <<entries[1]>> ELSE << >>
    BY <1>1 DEF Calls!GetAddrInfo
  <2>2. entries # None /\ entries \in Seq(Calls!Addresses) /\ Len(entries) \in 1 .. MaxAddresses
    BY ListsAre
  <2>3. MaxAddresses \in Nat
    BY DEF Calls!CallsAssumption
  <2>4. CASE Calls!Converts(entries[1])
    <3>1. pd' = <<1, Calls!After(entries, 1)>> /\ addrs' = <<entries[1]>>
      BY <2>1, <2>4 DEF Calls!nextaddr
    <3>2. Calls!After(entries, 1) = IF Len(entries) = 1 THEN 0 ELSE 2
      <4>1. PICK n \in 1 .. MaxAddresses : n = Len(entries)
        BY <2>2
      <4> QED
        BY <2>3, <4>1 DEF Calls!After, Calls!NULL
    <3>3. pd' \in (0 .. MaxAddresses) \X (0 .. MaxAddresses)
      BY <2>2, <2>3, <3>1, <3>2
    <3>4. addrs' \in Seq(Calls!Addresses) /\ Len(addrs') = 1 /\ addrs'[1] = entries[1]
      BY <2>2, <2>3, <3>1
    <3> QED
      BY <2>1, <2>2, <2>3, <3>1, <3>2, <3>3, <3>4 DEF ListTypes, Calls!EntriesSeen,
         Calls!NULL
  <2>5. CASE ~Calls!Converts(entries[1])
    <3>1. pd' = <<1, 1>> /\ addrs' = << >>
      BY <2>1, <2>5 DEF Calls!nextaddr
    <3>3. pd' \in (0 .. MaxAddresses) \X (0 .. MaxAddresses)
      BY <2>2, <2>3, <3>1
    <3>4. addrs' \in Seq(Calls!Addresses) /\ Len(addrs') = 0
      BY <3>1
    <3> QED
      BY <2>1, <2>2, <2>3, <3>1, <3>3, <3>4 DEF ListTypes, Calls!EntriesSeen, Calls!NULL
  <2> QED
    BY <2>4, <2>5
<1>2. CASE Calls!NextAddr
  <2>1. /\ list # None /\ list' = list /\ pd[2] # 0
        /\ pd' = <<pd[1], Calls!nextaddr(list, pd[2]).next>>
           /\ addrs' = Calls!Seen(list, pd[2])
    BY <1>2 DEF Calls!NextAddr, Calls!NULL
  <2>2. list \in Calls!Lists /\ list \in Seq(Calls!Addresses)
          /\ Len(list) \in 1 .. MaxAddresses
    BY <2>1, ListsAre DEF ListTypes
  <2>3. MaxAddresses \in Nat /\ addrs \in Seq(Calls!Addresses) /\ Len(addrs) \in Nat
    BY DEF Calls!CallsAssumption, ListTypes
  <2>4. /\ Len(addrs) < Len(list) /\ pd[2] = Len(addrs) + 1
        /\ \A i \in 1 .. Len(addrs) : addrs[i] = list[i]
    BY <2>1, <2>2, <2>3 DEF ListTypes, Calls!EntriesSeen, Calls!NULL
  <2>5. pd[1] \in 0 .. MaxAddresses /\ pd[2] \in 0 .. MaxAddresses /\ pd = <<pd[1], pd[2]>>
    BY DEF ListTypes
  <2>6. CASE Calls!Converts(list[pd[2]])
    <3>1. pd' = <<pd[1], Calls!After(list, pd[2])>> /\ addrs' = Append(addrs, list[pd[2]])
      BY <2>1, <2>6 DEF Calls!nextaddr, Calls!Seen
    <3>2. Calls!After(list, pd[2]) = IF Len(addrs) + 1 = Len(list) THEN 0
            ELSE Len(addrs) + 2
      BY <2>2, <2>3, <2>4 DEF Calls!After, Calls!NULL
    <3>3. Calls!After(list, pd[2]) \in 0 .. MaxAddresses
      BY <2>2, <2>3, <2>4, <3>2
    <3>4. list[pd[2]] \in Calls!Addresses
      BY <2>2, <2>3, <2>4
    <3>5. /\ addrs' \in Seq(Calls!Addresses) /\ Len(addrs') = Len(addrs) + 1
          /\ \A i \in 1 .. Len(addrs') : addrs'[i] = list[i]
      BY <2>3, <2>4, <3>1, <3>4
    <3>6. pd' \in (0 .. MaxAddresses) \X (0 .. MaxAddresses)
            /\ pd'[2] = Calls!After(list, pd[2])
      BY <2>5, <3>1, <3>3
    <3>7. Calls!EntriesSeen'
      BY <2>1, <2>2, <2>3, <2>4, <3>2, <3>5, <3>6 DEF Calls!EntriesSeen, Calls!NULL
    <3> QED
      BY <2>1, <2>2, <3>5, <3>6, <3>7 DEF ListTypes
  <2>7. CASE ~Calls!Converts(list[pd[2]])
    <3>1. pd' = pd /\ addrs' = addrs
      BY <2>1, <2>5, <2>7 DEF Calls!nextaddr, Calls!Seen
    <3> QED
      BY <2>1, <3>1 DEF ListTypes, Calls!EntriesSeen
  <2> QED
    BY <2>6, <2>7
<1>3. CASE Calls!FreeAddrInfo
  <2>1. list' = None /\ addrs' = << >> /\ (pd' = pd \/ pd' = <<0, 0>>)
    BY <1>3 DEF Calls!FreeAddrInfo, Calls!NULL
  <2>2. pd' \in (0 .. MaxAddresses) \X (0 .. MaxAddresses)
    BY <2>1 DEF ListTypes, Calls!CallsAssumption
  <2> QED
    BY <2>1, <2>2 DEF ListTypes, Calls!EntriesSeen
<1> QED
  BY <1>1, <1>2, <1>3

----
LEMMA CallsInvStep ==
  ASSUME Calls!CallsAssumption, Calls!CallsInv, [Calls!Next]_Calls!vars
  PROVE  Calls!CallsInv'
<1> USE CallsInvParts
<1>1. ASSUME UNCHANGED <<call_port, Calls!socket_vars, Calls!data_vars, Calls!list_vars>>,
             Calls!SocketInit \/ Calls!SocketDeinit
      PROVE  Calls!CallsInv'
  <2>1. ModuleTypes'
    <3>1. CASE Calls!SocketInit
      <4>1. ~initialized /\ call_port' = call_port /\ call_port \in CallPorts /\ startups = 0
        BY <3>1 DEF Calls!SocketInit, ModuleTypes, Calls!WinsockRuns
      <4>2. \/ initialized' = TRUE /\ startups' = IF call_port = "windows" THEN 1 ELSE 0
            \/ initialized' = FALSE /\ startups' = 0
        <5>1. CASE call_port # "windows" /\ initialized' = TRUE /\ UNCHANGED startups
          BY <4>1, <5>1
        <5>2. CASE call_port = "windows" /\ initialized' = TRUE /\ startups' = startups + 1
          <6>1. startups' = 1
            BY <4>1, <5>2
          <6> QED
            BY <5>2, <6>1
        <5>3. CASE UNCHANGED <<initialized, startups>>
          BY <4>1, <5>3
        <5> QED
          BY <3>1, <5>1, <5>2, <5>3 DEF Calls!SocketInit
      <4>3. initialized' \in BOOLEAN
        BY <4>2, Zenon
      <4>4. startups' \in 0 .. 1
        BY <4>2
      <4> QED
        BY <4>1, <4>2, <4>3, <4>4, Zenon DEF ModuleTypes, Calls!WinsockRuns
    <3>2. CASE Calls!SocketDeinit
      <4>1. /\ call_port' = call_port /\ call_port \in CallPorts
            /\ startups = IF call_port = "windows" THEN 1 ELSE 0
        BY <3>2 DEF Calls!SocketDeinit, ModuleTypes, Calls!WinsockRuns
      <4>2. initialized' = FALSE /\ startups' = 0
        BY <3>2, <4>1 DEF Calls!SocketDeinit
      <4>3. startups' \in 0 .. 1
        BY <4>2
      <4> QED
        BY <4>1, <4>2, <4>3, Zenon DEF ModuleTypes, Calls!WinsockRuns
    <3> QED
      BY <1>1, <3>1, <3>2
  <2> QED
    BY <1>1, <2>1, SocketTypesStay, DataTypesStay, ListTypesStay
<1>2. ASSUME NEW s \in CallSockets,
             \/ Calls!Receive(s) \/ Calls!Close(s) \/ Calls!GetBlocking(s)
             \/ \E wait \in BOOLEAN : Calls!SetBlocking(s, wait) \/ Calls!SetBlockingFails(s, wait)
      PROVE  Calls!CallsInv'
  <2>1. UNCHANGED <<Calls!module_vars, Calls!data_vars, Calls!list_vars>>
    BY <1>2 DEF Calls!Receive, Calls!Close, Calls!GetBlocking, Calls!SetBlocking,
       Calls!SetBlockingFails
  <2>2. SocketTypes'
    BY <1>2, ReceiveKeeps, CloseKeepsCalls, GetBlockingKeeps, SetBlockingKeeps,
       SetBlockingFailsKeeps
  <2> QED
    BY <2>1, <2>2, ModuleTypesStay, DataTypesStay, ListTypesStay
<1>3. ASSUME \/ \E a \in Calls!Addresses : Calls!Arrive(a)
             \/ \E peek, want \in BOOLEAN : Calls!RecvFrom(peek, want)
      PROVE  Calls!CallsInv'
  <2>1. UNCHANGED <<Calls!module_vars, Calls!socket_vars, Calls!list_vars>>
    BY <1>3 DEF Calls!Arrive, Calls!RecvFrom
  <2> QED
    BY <1>3, <2>1, DataStep, ModuleTypesStay, SocketTypesStay, ListTypesStay
<1>4. ASSUME (\E entries \in Calls!Lists : Calls!GetAddrInfo(entries)) \/ Calls!NextAddr
             \/ Calls!FreeAddrInfo
      PROVE  Calls!CallsInv'
  <2>1. UNCHANGED <<Calls!module_vars, Calls!socket_vars, Calls!data_vars>>
    BY <1>4 DEF Calls!GetAddrInfo, Calls!NextAddr, Calls!FreeAddrInfo
  <2> QED
    BY <1>4, <2>1, ListStep, ModuleTypesStay, SocketTypesStay, DataTypesStay
<1>5. CASE UNCHANGED Calls!vars
  BY <1>5, ModuleTypesStay, SocketTypesStay, DataTypesStay, ListTypesStay DEF Calls!vars
<1>6. CASE Calls!SocketInit \/ Calls!SocketDeinit
  BY <1>1, <1>6 DEF Calls!SocketInit, Calls!SocketDeinit
<1>7. ASSUME NEW s \in CallSockets, NEW a \in Calls!Addresses, NEW want \in BOOLEAN,
             Calls!Accept(s, a, want)
      PROVE  Calls!CallsInv'
  <2>1. Calls!Receive(s) \/ UNCHANGED Calls!vars
    BY <1>7 DEF Calls!Accept
  <2> QED
    BY <1>2, <1>5, <2>1
<1>8. ASSUME NEW s \in CallSockets, Calls!NewSocket(s) PROVE Calls!CallsInv'
  BY <1>2, <1>8 DEF Calls!NewSocket
<1> HIDE CallsInvParts
<1> QED
  BY <1>2, <1>3, <1>4, <1>5, <1>6, <1>7, <1>8 DEF Calls!Next

\* The inductive invariant, for any sockets, datagrams and lists.
THEOREM CallsInvariant == ASSUME Calls!CallsAssumption PROVE Calls!Spec => []Calls!CallsInv
BY CallsInitInv, CallsInvStep, PTL DEF Calls!Spec

\* What the calls hand over is what they were asked for: no socket is left open that
\* the application was not given, getblocking answers what setblocking was asked for,
\* and nextaddr leaves no address out, on every port.
THEOREM CallsAlwaysHandOver ==
  ASSUME Calls!CallsAssumption PROVE Calls!Spec => []HandsOver
<1>1. ASSUME Calls!CallsAssumption, Calls!CallsInv PROVE Calls!HandsOver
  <2>1. Calls!BlockingAsAsked
    <3> SUFFICES ASSUME answer # None, blocking[answer.id] # None
                 PROVE  answer.blocking = blocking[answer.id]
      BY DEF Calls!BlockingAsAsked
    <3>1. answer.id \in held /\ answer.blocking = (opened[answer.id] # Calls!Directions)
      BY <1>1 DEF Calls!CallsInv, Calls!FlagsAsAsked, Calls!IsBlocking
    <3>2. blocking[answer.id] \in BOOLEAN
      BY <1>1, <3>1 DEF Calls!CallsInv, Calls!TypeOK
    <3>3. CASE blocking[answer.id] = TRUE
      <4>1. opened[answer.id] = {} /\ {} # Calls!Directions
        <5>1. opened[answer.id] = {}
          BY <1>1, <3>1, <3>3, Zenon DEF Calls!CallsInv, Calls!FlagsAsAsked
        <5> QED
          BY <5>1 DEF Calls!Directions
      <4> QED
        BY <3>1, <3>3, <4>1
    <3>4. CASE blocking[answer.id] = FALSE
      <4>1. opened[answer.id] = Calls!Directions
        BY <1>1, <3>1, <3>4, Zenon DEF Calls!CallsInv, Calls!FlagsAsAsked
      <4> QED
        BY <3>1, <3>4, <4>1
    <3> QED
      BY <3>2, <3>3, <3>4
  <2>2. Calls!AddressesInOrder
    <3> SUFFICES ASSUME list # None
                 PROVE  /\ addrs = SubSeq(list, 1, Len(addrs))
                        /\ pd[2] = IF addrs = list THEN Calls!NULL ELSE Len(addrs) + 1
      BY DEF Calls!AddressesInOrder
    <3>1. /\ addrs \in Seq(Calls!Addresses) /\ list \in Seq(Calls!Addresses)
          /\ Len(addrs) \in Nat /\ Len(list) \in Nat
      BY <1>1, ListsAre DEF Calls!CallsInv, Calls!TypeOK
    <3>2. /\ Len(addrs) <= Len(list) /\ \A i \in 1 .. Len(addrs) : addrs[i] = list[i]
          /\ pd[2] = IF Len(addrs) = Len(list) THEN Calls!NULL ELSE Len(addrs) + 1
      BY <1>1 DEF Calls!CallsInv, Calls!EntriesSeen
    <3>3. addrs = SubSeq(list, 1, Len(addrs))
      BY <3>1, <3>2
    <3>4. addrs = list <=> Len(addrs) = Len(list)
      BY <3>1, <3>2
    <3> QED
      BY <3>2, <3>3, <3>4
  <2> QED
    BY <1>1, <2>1, <2>2 DEF Calls!CallsInv, Calls!HandsOver
<1> QED
  BY <1>1, CallsInvariant, PTL DEF HandsOver
====
