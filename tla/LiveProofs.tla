---- MODULE LiveProofs ----
(***************************************************************************)
(* Handles and threads, for any limit of the handles, any Thread objects   *)
(* and every port.                                                         *)
(*                                                                         *)
(* The two halves of the handle manager's invariant hand over at the       *)
(* wrap-around: what is behind last_handle before it is what the scan has  *)
(* to look at after it.                                                    *)
(*                                                                         *)
(* ThreadInv: who still uses what Start has allocated, and who is to free  *)
(* it.                                                                     *)
(***************************************************************************)
EXTENDS Live, TLAPS

----
(***************************************************************************)
(* The handle manager.                                                     *)
(***************************************************************************)
LEMMA LimitIsNat ==
  ASSUME HandleAssumption, TypeOK
  PROVE  max_handle \in Nat /\ Handles = 0 .. max_handle
BY SMT DEF HandleAssumption, TypeOK, max_handle, Handles

LEMMA FollowingIsHandle ==
  ASSUME HandleAssumption, TypeOK, NEW h \in {-1} \cup Handles
  PROVE  /\ Following(h) \in Handles
         /\ Following(h) = IF h = max_handle THEN 0 ELSE h + 1
BY LimitIsNat, SMT DEF Following

\* A step that leaves the limit alone leaves the handles alone.
LEMMA SameHandles ==
  ASSUME UNCHANGED max_value
  PROVE  max_handle' = max_handle /\ Handles' = Handles
BY DEF max_handle, Handles

LEMMA TryNextTypes ==
  ASSUME HandleAssumption, HandleInv, TryNext
  PROVE  TypeOK' /\ new_handle' \in Handles
<1>1. new_handle' \in Handles
  BY FollowingIsHandle DEF HandleInv, TypeOK, TryNext
<1> QED
  BY <1>1, SameHandles DEF HandleInv, TypeOK, TryNext

\* One turn of the loop looks at one more handle.
LEMMA ScanGrows ==
  ASSUME HandleAssumption, HandleInv, TryNext
  PROVE  /\ new_handle = last_handle => Scanned' = {new_handle'}
         /\ new_handle # last_handle => Scanned' = Scanned \cup {new_handle'}
<1>1. /\ max_handle \in Nat /\ Handles = 0 .. max_handle /\ Handles' = Handles
      /\ last_handle' = last_handle
      /\ new_handle' = IF new_handle = max_handle THEN 0 ELSE new_handle + 1
      /\ last_handle \in {-1} \cup Handles /\ new_handle \in {-1} \cup Handles
  BY LimitIsNat, SameHandles, FollowingIsHandle DEF HandleInv, TypeOK, TryNext
<1>2. ASSUME NEW h \in Handles, new_handle = last_handle
      PROVE  h \in Scanned' <=> h = new_handle'
  BY <1>1, <1>2, SMT DEF Scanned
<1>3. ASSUME NEW h \in Handles, new_handle # last_handle
      PROVE  h \in Scanned' <=> h \in Scanned \/ h = new_handle'
  <2>1. last_handle # -1
    BY <1>3 DEF HandleInv, TryNext
  <2> QED
    BY <1>1, <1>3, <2>1, SMT DEF Scanned
<1>4. Scanned \subseteq Handles /\ Scanned' \subseteq Handles
  BY <1>1 DEF Scanned
<1> QED
  BY <1>2, <1>3, <1>4, TryNextTypes

LEMMA TryNextPreserves ==
  ASSUME HandleAssumption, HandleInv, TryNext
  PROVE  HandleInv'
<1>1. TypeOK' /\ new_handle' \in Handles
  BY TryNextTypes
<1>2. /\ last_handle' = last_handle /\ in_use' = in_use /\ max_value' = max_value
      /\ pc = "loop" /\ Handles' = Handles
  BY SameHandles DEF TryNext
<1>3. new_handle # last_handle =>
        check_value_in_use /\ last_handle # -1 /\ Scanned \subseteq in_use
  BY <1>2 DEF HandleInv
<1>4. Scanned' \ {new_handle'} \subseteq in_use
  BY <1>3, ScanGrows
<1>5. CASE ~check_value_in_use'
  <2>1. ~check_value_in_use /\ ~(new_handle >= max_handle) /\ ~is_used' /\ pc' = "return"
    BY <1>5 DEF TryNext
  <2>2. new_handle = last_handle /\ new_handle' = last_handle + 1 /\ last_handle \in Int
    BY <1>3, <2>1, LimitIsNat, SMT DEF TryNext, Following, HandleInv, TypeOK
  <2>3. \A h \in in_use : h <= last_handle /\ h \in Int
    BY <2>1, LimitIsNat DEF HandleInv, TypeOK
  <2>4. new_handle' \notin in_use
    BY <2>2, <2>3, SMT
  <2> QED
    BY <1>1, <1>2, <1>4, <1>5, <2>1, <2>2, <2>3, <2>4 DEF HandleInv
<1>6. CASE check_value_in_use'
  <2>1. last_handle # -1
    <3>1. CASE check_value_in_use
      BY <3>1 DEF HandleInv
    <3>2. CASE ~check_value_in_use
      <4>1. new_handle >= max_handle
        BY <1>6, <3>2 DEF TryNext
      <4>2. new_handle = last_handle /\ max_handle \in Nat
        BY <1>3, <3>2, LimitIsNat DEF HandleInv
      <4> QED
        BY <4>1, <4>2, SMT
    <3> QED
      BY <3>1, <3>2
  <2>2. is_used' = (new_handle' \in in_use)
    BY <1>6 DEF TryNext
  <2>3. is_used' => Scanned' \subseteq in_use
    BY <1>4, <2>2
  <2> QED
    BY <1>1, <1>2, <1>4, <1>6, <2>1, <2>2, <2>3 DEF HandleInv, TryNext
<1> QED
  BY <1>5, <1>6

LEMMA HandleInvStep ==
  HandleAssumption /\ HandleInv /\ [Next]_vars => HandleInv'
<1> SUFFICES ASSUME HandleAssumption, HandleInv, [Next]_vars PROVE HandleInv'
  OBVIOUS
<1>1. CASE GetNextIntHandle
  <2>1. /\ UNCHANGED <<max_value, last_handle, check_value_in_use, in_use>>
        /\ pc' = "loop" /\ new_handle' = last_handle /\ is_used' = FALSE
        /\ Handles' = Handles
    BY <1>1, SameHandles DEF GetNextIntHandle, manager
  <2>2. TypeOK'
    BY <2>1 DEF HandleInv, TypeOK
  <2>3. last_handle >= last_handle
    BY LimitIsNat, SMT DEF HandleInv, TypeOK
  <2> QED
    BY <2>1, <2>2, <2>3 DEF HandleInv
<1>2. CASE TryNext
  BY <1>2, TryNextPreserves
<1>3. CASE ReturnHandle
  <2>1. /\ max_value' = max_value /\ check_value_in_use' = check_value_in_use
        /\ new_handle' = new_handle /\ last_handle' = new_handle
        /\ ~is_used /\ is_used' = is_used
        /\ pc' = "idle" /\ new_handle \in Handles /\ Handles' = Handles
        /\ in_use' \subseteq in_use \cup {new_handle}
    BY <1>3, SameHandles DEF ReturnHandle, HandleInv
  <2>2. TypeOK'
    BY <2>1 DEF HandleInv, TypeOK
  <2>3. ~check_value_in_use => \A h \in in_use' : h <= new_handle
    <3> SUFFICES ASSUME ~check_value_in_use, NEW h \in in_use' PROVE h <= new_handle
      OBVIOUS
    <3>1. /\ new_handle >= last_handle /\ \A g \in in_use : g <= last_handle
          /\ in_use \subseteq Handles /\ last_handle \in {-1} \cup Handles
      BY DEF HandleInv, TypeOK
    <3>2. max_handle \in Nat /\ Handles = 0 .. max_handle
      BY LimitIsNat DEF HandleInv
    <3>3. h \in in_use \/ h = new_handle
      BY <2>1
    <3> QED
      BY <2>1, <3>1, <3>2, <3>3, SMT
  <2>4. new_handle # -1 /\ new_handle >= new_handle
    BY <2>1, LimitIsNat, SMT DEF HandleInv
  <2> QED
    BY <2>1, <2>2, <2>3, <2>4 DEF HandleInv
<1>4. CASE ReturnNone
  BY <1>4, SameHandles DEF ReturnNone, manager, HandleInv, TypeOK
<1>5. CASE Release
  BY <1>5, SameHandles DEF Release, manager, HandleInv, TypeOK
<1>6. CASE UNCHANGED vars
  BY <1>6, SameHandles DEF vars, manager, HandleInv, TypeOK, Scanned
<1> QED
  BY <1>1, <1>2, <1>3, <1>4, <1>5, <1>6 DEF Next

LEMMA HandleInvInit == HandleAssumption /\ Init => HandleInv
<1> SUFFICES ASSUME HandleAssumption, Init PROVE HandleInv
  OBVIOUS
<1>1. max_value \in -1 .. INT_MAX /\ new_handle >= last_handle
  BY SMT DEF Init
<1>2. TypeOK
  BY <1>1 DEF Init, TypeOK
<1> QED
  BY <1>1, <1>2 DEF Init, HandleInv

\* The inductive invariant, for every limit up to INT_MAX.
THEOREM HandleInvariant ==
  ASSUME HandleAssumption PROVE Spec => []HandleInv
BY HandleInvInit, HandleInvStep, PTL DEF Spec

\* A handle handed out is on no resource, whatever the limit and however
\* handles were released before.
THEOREM HandlesAreUnused ==
  ASSUME HandleAssumption PROVE Spec => []HandleIsUnused
<1>1. HandleInv => HandleIsUnused
  BY DEF HandleInv, HandleIsUnused
<1> QED
  BY <1>1, HandleInvariant, PTL

\* -1 is returned only when every handle is in use: a scan that comes back to
\* where it began has seen them all.
THEOREM HandlesRunOutLast ==
  ASSUME HandleAssumption PROVE Spec => []NoneOnlyWhenFull
<1>1. ASSUME HandleInv, pc = "return", is_used PROVE in_use = Handles
  <2>1. new_handle = last_handle /\ Scanned \subseteq in_use /\ in_use \subseteq Handles
    BY <1>1 DEF HandleInv, TypeOK
  <2>2. Handles \subseteq Scanned
    BY <1>1, <2>1, LimitIsNat, SMT DEF Scanned, HandleInv, TypeOK
  <2> QED
    BY <2>1, <2>2
<1> QED
  BY <1>1, HandleInvariant, PTL DEF NoneOnlyWhenFull

\* The free handle that was least recently handed out comes first.
THEOREM HandlesGoRound ==
  ASSUME HandleAssumption PROVE Spec => []OldestFirst
<1>1. HandleInv => OldestFirst
  BY DEF HandleInv, OldestFirst
<1> QED
  BY <1>1, HandleInvariant, PTL

----
(***************************************************************************)
(* Threads.                                                                *)
(***************************************************************************)
\* What adding one to a count does to a function of counts.
LEMMA CountUp ==
  ASSUME NEW f \in [Ids -> Nat], NEW g, NEW i \in Ids, g = [f EXCEPT ![i] = @ + 1]
  PROVE  /\ g \in [Ids -> Nat] /\ g[i] = f[i] + 1
         /\ \A j \in Ids \ {i} : g[j] = f[j]
OBVIOUS

LEMMA ThreadInitInv ==
  ASSUME Life!ThreadAssumption, Life!Init
  PROVE  Life!ThreadInv
BY DEF Life!ThreadAssumption, Life!Init, Life!ThreadInv, Life!TypeOK, Life!ThreadIsGone,
       Life!OwnersAreAlone, Life!LiveIsOwned, Life!SignalIsDeleted, Life!Signals,
       Life!SignalledLast, Life!Uncancelled, Life!FreedByItsThread, Life!Starting, Life!InUse, Life!Gone

\* Where the signal of one Id alone changes, and it may be left there.
LEMMA OneSignal ==
  ASSUME Life!SignalIsDeleted, Life!TypeOK, NEW i \in Ids, NEW s, sig' = [sig EXCEPT ![i] = s],
         live \subseteq live' \cup {i}, i \in live' \/ s \in {"none", "leaked"},
         Life!Signals \/ s = "none", port' = port,
         \A o \in Objects : thread_pc'[o] = "name" => thread_pc[o] = "name" \/ port = "zephyr"
  PROVE  Life!SignalIsDeleted'
<1>1. sig'[i] = s /\ \A j \in Ids \ {i} : sig'[j] = sig[j]
  BY DEF Life!TypeOK
<1>2. \A j \in Ids \ live' : sig'[j] \in {"none", "leaked"}
  BY <1>1 DEF Life!SignalIsDeleted
<1>3. Life!Signals' <=> Life!Signals
  BY DEF Life!Signals
<1>4. ~Life!Signals' => \A j \in Ids : sig'[j] = "none"
  BY <1>1, <1>3 DEF Life!SignalIsDeleted
<1>5. \A o \in Objects : thread_pc'[o] = "name" => port' = "zephyr"
  BY DEF Life!SignalIsDeleted
<1> QED
  BY <1>2, <1>4, <1>5 DEF Life!SignalIsDeleted

\* Where none changes, and none can be left.
LEMMA SameSignals ==
  ASSUME Life!SignalIsDeleted, sig' = sig, port' = port, live \subseteq live' \/ ~Life!Signals,
         \A o \in Objects : thread_pc'[o] = "name" => thread_pc[o] = "name" \/ port = "zephyr"
  PROVE  Life!SignalIsDeleted'
<1>1. \A j \in Ids \ live' : sig'[j] \in {"none", "leaked"}
  BY DEF Life!SignalIsDeleted
<1>2. Life!Signals' <=> Life!Signals
  BY DEF Life!Signals
<1> QED
  BY <1>1, <1>2 DEF Life!SignalIsDeleted

LEMMA SignalsAreKept ==
  ASSUME Life!ThreadAssumption, Life!ThreadInv, Life!Next
  PROVE  Life!SignalIsDeleted'
<1>0. Life!SignalIsDeleted /\ Life!TypeOK /\ Life!OwnersAreAlone /\ Life!ThreadIsGone
  BY DEF Life!ThreadInv
<1>1. \A o, p \in Objects : \A v : thread_pc' = [thread_pc EXCEPT ![o] = v] /\ thread_pc'[p] = "name"
        => thread_pc[p] = "name" \/ v = "name"
  BY <1>0 DEF Life!TypeOK
<1>2. \A o \in Objects : thread_pc[o] # "idle" => thread_[o] \in Ids /\ thread_[o] \in live
  BY <1>0 DEF Life!OwnersAreAlone, Life!TypeOK
<1>3. ASSUME NEW o \in Objects, Life!Start(o) \/ Life!Named(o) \/ Life!CallJoin(o) \/ Life!JoinTimesOut(o)
      PROVE  Life!SignalIsDeleted'
  <2>1. PICK v \in {"idle", "create", "join", "timed join"} : thread_pc' = [thread_pc EXCEPT ![o] = v]
    BY <1>3 DEF Life!Start, Life!Named, Life!CallJoin, Life!JoinTimesOut, Life!Goto
  <2>2. sig' = sig /\ port' = port /\ live \subseteq live'
    BY <1>3 DEF Life!Start, Life!Named, Life!CallJoin, Life!JoinTimesOut, Life!fixed
  <2> QED
    BY <1>0, <1>1, <2>1, <2>2, SameSignals
<1>4. ASSUME NEW o \in Objects, Life!NameFails(o)
      PROVE  Life!SignalIsDeleted'
  <2>1. thread_pc' = [thread_pc EXCEPT ![o] = "idle"] /\ thread_pc[o] = "name"
        /\ sig' = sig /\ port' = port
    BY <1>4 DEF Life!NameFails, Life!Goto, Life!fixed
  <2>2. ~Life!Signals
    BY <1>0, <2>1 DEF Life!SignalIsDeleted, Life!Signals
  <2> QED
    BY <1>0, <1>1, <2>1, <2>2, SameSignals
<1>5. ASSUME NEW o \in Objects, Life!Create(o)
      PROVE  Life!SignalIsDeleted'
  <2> DEFINE i == thread_[o]
             s == IF Life!Signals THEN "empty" ELSE "none"
             v == IF port = "zephyr" THEN "name" ELSE "idle"
  <2>1. i \in Ids /\ i \in live
    BY <1>2, <1>5 DEF Life!Create, Life!Goto
  <2>2. /\ sig' = [sig EXCEPT ![i] = s] /\ live' = live /\ port' = port
        /\ thread_pc' = [thread_pc EXCEPT ![o] = v]
    BY <1>5 DEF Life!Create, Life!Goto, Life!fixed
  <2>3. \A p \in Objects : thread_pc'[p] = "name" => thread_pc[p] = "name" \/ port = "zephyr"
    BY <1>1, <2>2
  <2> QED
    BY <1>0, <2>1, <2>2, <2>3, OneSignal
<1>6. ASSUME NEW o \in Objects, Life!CreateFails(o)
      PROVE  Life!SignalIsDeleted'
  <2> DEFINE i == thread_[o]
  <2>1. i \in Ids
    BY <1>2, <1>6 DEF Life!CreateFails, Life!Goto
  <2>2. PICK s \in {"none", "leaked"} : sig' = [sig EXCEPT ![i] = s] /\ (s = "none" \/ Life!Signals)
    BY <1>6 DEF Life!CreateFails
  <2>3. /\ live' = live \ {i} /\ port' = port
        /\ thread_pc' = [thread_pc EXCEPT ![o] = "idle"]
    BY <1>6 DEF Life!CreateFails, Life!Goto, Life!ResetThread, Life!fixed
  <2>4. \A p \in Objects : thread_pc'[p] = "name" => thread_pc[p] = "name" \/ port = "zephyr"
    BY <1>1, <2>3
  <2> QED
    BY <1>0, <2>1, <2>2, <2>3, <2>4, OneSignal
<1>7. ASSUME NEW o \in Objects, Life!Joined(o)
      PROVE  Life!SignalIsDeleted'
  <2> DEFINE i == thread_[o]
  <2>1. i \in Ids
    BY <1>2, <1>7 DEF Life!Joined
  <2>2. /\ sig' = [sig EXCEPT ![i] = "none"] /\ live' = live \ {i} /\ port' = port
        /\ thread_pc' = [thread_pc EXCEPT ![o] = "idle"]
    BY <1>7 DEF Life!Joined, Life!ResetThread, Life!fixed
  <2>3. \A p \in Objects : thread_pc'[p] = "name" => thread_pc[p] = "name" \/ port = "zephyr"
    BY <1>1, <2>2
  <2> QED
    BY <1>0, <2>1, <2>2, <2>3, OneSignal
<1>8. ASSUME NEW o \in Objects, Life!Terminate(o)
      PROVE  Life!SignalIsDeleted'
  <2> DEFINE i == thread_[o]
  <2>1. i \in Ids /\ live' = live \ {i} /\ port' = port /\ thread_pc' = thread_pc
        /\ sig' = IF Life!Signals THEN [sig EXCEPT ![i] = "leaked"] ELSE sig
    BY <1>0, <1>8 DEF Life!Terminate, Life!ResetThread, Life!fixed, Life!TypeOK
  <2>2. CASE Life!Signals
    BY <1>0, <2>1, <2>2, OneSignal
  <2>3. CASE ~Life!Signals
    BY <1>0, <2>1, <2>3, SameSignals
  <2> QED
    BY <2>2, <2>3
<1>9. ASSUME NEW o \in Objects, NEW to \in Objects, Life!Move(o, to)
      PROVE  Life!SignalIsDeleted'
  BY <1>0, <1>9, SameSignals DEF Life!Move, Life!fixed
<1>10. ASSUME NEW i \in Ids, Life!Enter(i) \/ Life!Return(i) \/ Life!Cancelled(i)
       PROVE  Life!SignalIsDeleted'
  <2>1. sig' = sig /\ port' = port /\ live' = live /\ thread_pc' = thread_pc
    BY <1>10 DEF Life!Enter, Life!Return, Life!Cancelled, Life!fixed
  <2> QED
    BY <1>0, <2>1, SameSignals
<1>11. ASSUME NEW i \in Ids, Life!Exit(i)
       PROVE  Life!SignalIsDeleted'
  <2>1. /\ task[i] = "done" /\ port' = port /\ live' = live /\ thread_pc' = thread_pc
        /\ sig' = IF Life!Signals THEN [sig EXCEPT ![i] = "full"] ELSE sig
    BY <1>11 DEF Life!Exit, Life!fixed
  <2>2. CASE Life!Signals
    <3>1. i \in live
      BY <1>0, <2>1, <2>2 DEF Life!ThreadIsGone, Life!Gone, Life!Signals
    <3> QED
      BY <1>0, <2>1, <2>2, <3>1, OneSignal
  <2>3. CASE ~Life!Signals
    BY <1>0, <2>1, <2>3, SameSignals
  <2> QED
    BY <2>2, <2>3
<1> QED
  BY <1>3, <1>4, <1>5, <1>6, <1>7, <1>8, <1>9, <1>10, <1>11 DEF Life!Next

LEMMA ThreadNextInv ==
  ASSUME Life!ThreadAssumption, Life!ThreadInv, Life!Next
  PROVE  Life!ThreadInv'
<1> USE DEF Life!ThreadAssumption, Life!ThreadInv, Life!fixed
<1>0. Life!SignalIsDeleted'
  BY SignalsAreKept
<1>1. ASSUME NEW o \in Objects, Life!Start(o)
      PROVE  Life!ThreadInv'
  <2>1. PICK i \in Ids \ live :
          /\ thread_[o] = None /\ task[i] = "none"
          /\ thread_pc' = [thread_pc EXCEPT ![o] = "create"]
          /\ thread_' = [thread_ EXCEPT ![o] = i]
          /\ live' = live \cup {i}
          /\ frees' = [frees EXCEPT ![i] = 0]
          /\ UNCHANGED <<port, faults, task, sig, cancel>>
    BY <1>1 DEF Life!Start, Life!Goto
  <2>2. frees' \in [Ids -> Nat]
    BY <2>1 DEF Life!TypeOK
  <2>3. thread_' \in [Objects -> Ids \cup {None}]
    BY <2>1 DEF Life!TypeOK
  <2>4. Life!TypeOK'
    BY <2>1, <2>2, <2>3 DEF Life!TypeOK
  <2>5. /\ thread_'[o] = i /\ \A p \in Objects \ {o} : thread_'[p] = thread_[p]
        /\ thread_pc'[o] = "create" /\ \A p \in Objects \ {o} : thread_pc'[p] = thread_pc[p]
        /\ frees'[i] = 0 /\ \A j \in Ids \ {i} : frees'[j] = frees[j]
    BY <2>1 DEF Life!TypeOK
  <2>6. \A p \in Objects : thread_[p] # i
    BY <2>1 DEF Life!OwnersAreAlone
  <2>7. Life!OwnersAreAlone'
    BY <2>1, <2>5, <2>6 DEF Life!OwnersAreAlone
  <2>8. Life!LiveIsOwned'
    <3> SUFFICES ASSUME NEW j \in live, j # i PROVE \E p \in Objects : thread_'[p] = j
      BY <2>1, <2>5 DEF Life!LiveIsOwned
    <3>1. PICK p \in Objects : thread_[p] = j
      BY DEF Life!LiveIsOwned
    <3>2. p # o
      BY <2>1, <3>1 DEF Life!TypeOK
    <3> QED
      BY <2>5, <3>1, <3>2
  <2>9. Life!ThreadIsGone' /\ Life!SignalledLast' /\ Life!Uncancelled'
    BY <2>1 DEF Life!ThreadIsGone, Life!SignalledLast, Life!Uncancelled, Life!Gone
  <2>10. Life!FreedByItsThread'
    <3>1. \A j \in Ids : Life!InUse(j)' <=> Life!InUse(j)
      BY <2>1 DEF Life!InUse
    <3>2. Life!Starting(i)' /\ \A j \in Ids : Life!Starting(j) => Life!Starting(j)'
      BY <2>1, <2>5 DEF Life!Starting
    <3>3. \A p \in Objects \ {o} : thread_pc'[p] = "create" => thread_'[p] \in Ids \ {i}
      BY <2>5, <2>6 DEF Life!OwnersAreAlone, Life!TypeOK
    <3> QED
      BY <2>1, <2>5, <3>1, <3>2, <3>3 DEF Life!FreedByItsThread, Life!InUse
  <2> QED
    BY <1>0, <2>4, <2>7, <2>8, <2>9, <2>10
<1>2. ASSUME NEW o \in Objects, Life!Create(o)
      PROVE  Life!ThreadInv'
  <2> DEFINE i == thread_[o]
  <2>1. /\ thread_pc[o] = "create" /\ i \in Ids /\ i \in live /\ task[i] = "none"
        /\ task'[i] = "ready" /\ \A j \in Ids \ {i} : task'[j] = task[j]
        /\ thread_pc'[o] # "create" /\ \A p \in Objects \ {o} : thread_pc'[p] = thread_pc[p]
        /\ sig'[i] # "full" /\ \A j \in Ids \ {i} : sig'[j] = sig[j]
        /\ UNCHANGED <<thread_, live, faults, port, cancel, frees>>
    BY <1>2 DEF Life!Create, Life!Goto, Life!TypeOK, Life!OwnersAreAlone
  <2>2. Life!TypeOK'
    BY <1>2 DEF Life!Create, Life!Goto, Life!TypeOK, Life!OwnersAreAlone
  <2>3. Life!OwnersAreAlone'
    BY <1>2 DEF Life!Create, Life!Goto, Life!TypeOK, Life!OwnersAreAlone
  <2>4. Life!LiveIsOwned' /\ Life!Uncancelled'
    BY <2>1 DEF Life!LiveIsOwned, Life!Uncancelled
  <2>5. Life!ThreadIsGone' /\ Life!SignalledLast'
    BY <2>1 DEF Life!ThreadIsGone, Life!SignalledLast, Life!Gone
  <2>6. Life!FreedByItsThread'
    BY <2>1 DEF Life!FreedByItsThread, Life!InUse, Life!Starting, Life!OwnersAreAlone
  <2> QED
    BY <1>0, <2>2, <2>3, <2>4, <2>5, <2>6
<1>3. ASSUME NEW o \in Objects, Life!CreateFails(o)
      PROVE  Life!ThreadInv'
  <2> DEFINE i == thread_[o]
  <2>1. /\ thread_pc[o] = "create" /\ i \in Ids /\ task[i] = "none"
        /\ thread_'[o] = None /\ \A p \in Objects \ {o} : thread_'[p] = thread_[p]
        /\ thread_pc'[o] = "idle" /\ \A p \in Objects \ {o} : thread_pc'[p] = thread_pc[p]
        /\ sig'[i] # "full" /\ \A j \in Ids \ {i} : sig'[j] = sig[j]
        /\ frees' = [frees EXCEPT ![i] = @ + 1]
        /\ live' = live \ {i} /\ UNCHANGED <<task, faults, port, cancel>>
    BY <1>3 DEF Life!CreateFails, Life!ResetThread, Life!Goto, Life!TypeOK,
       Life!OwnersAreAlone
  <2>2. frees' \in [Ids -> Nat] /\ frees'[i] = frees[i] + 1
        /\ \A j \in Ids \ {i} : frees'[j] = frees[j]
    <3>1. frees \in [Ids -> Nat]
      BY DEF Life!TypeOK
    <3> QED
      BY <2>1, <3>1, CountUp
  <2>3. Life!TypeOK'
    <3>1. thread_' \in [Objects -> Ids \cup {None}]
      BY <1>3 DEF Life!CreateFails, Life!ResetThread, Life!TypeOK
    <3>2. sig' \in [Ids -> {"none", "empty", "full", "leaked"}]
      BY ZenonT(60), <1>3, <2>1 DEF Life!CreateFails, Life!Signals, Life!TypeOK
    <3>3. thread_pc' \in [Objects -> {"idle", "create", "name", "join", "timed join"}]
      BY <1>3 DEF Life!CreateFails, Life!Goto, Life!TypeOK
    <3> QED
      BY <2>1, <2>2, <3>1, <3>2, <3>3 DEF Life!TypeOK
  <2>4. Life!OwnersAreAlone'
    <3>1. \A p \in Objects \ {o} : thread_[p] # i
      BY <2>1 DEF Life!OwnersAreAlone
    <3> QED
      BY <2>1, <3>1 DEF Life!OwnersAreAlone
  <2>5. Life!LiveIsOwned' /\ Life!Uncancelled'
    BY <2>1 DEF Life!LiveIsOwned, Life!Uncancelled, Life!OwnersAreAlone
  <2>6. Life!ThreadIsGone' /\ Life!SignalledLast'
    BY <2>1 DEF Life!ThreadIsGone, Life!SignalledLast, Life!Gone
  <2>7. ~faults => frees[i] = 0
    BY <2>1 DEF Life!FreedByItsThread
  <2>8. Life!FreedByItsThread'
    BY <2>1, <2>2, <2>7 DEF Life!FreedByItsThread, Life!InUse, Life!Starting,
       Life!OwnersAreAlone
  <2> QED
    BY <1>0, <2>3, <2>4, <2>5, <2>6, <2>8
<1>4. ASSUME NEW o \in Objects, Life!Named(o)
      PROVE  Life!ThreadInv'
  <2>1. Life!TypeOK'
    BY <1>4 DEF Life!Named, Life!Goto, Life!TypeOK, Life!OwnersAreAlone
  <2>2. Life!OwnersAreAlone'
    BY <1>4 DEF Life!Named, Life!Goto, Life!TypeOK, Life!OwnersAreAlone
  <2>3. Life!LiveIsOwned'
    BY <1>4 DEF Life!Named, Life!Goto, Life!TypeOK, Life!OwnersAreAlone, Life!LiveIsOwned
  <2>4. Life!ThreadIsGone' /\ Life!SignalledLast'
    BY <1>4 DEF Life!Named, Life!Goto, Life!TypeOK, Life!OwnersAreAlone, Life!ThreadIsGone,
       Life!SignalledLast, Life!Gone, Life!Over
  <2>5. Life!Uncancelled'
    BY <1>4 DEF Life!Named, Life!Goto, Life!TypeOK, Life!Uncancelled
  <2>6. Life!FreedByItsThread'
    <3>1. \A x \in Objects : thread_pc'[x] = "create" <=> thread_pc[x] = "create"
      BY <1>4 DEF Life!Named, Life!Goto, Life!TypeOK
    <3>2. UNCHANGED <<faults, thread_, task, frees>>
      BY <1>4 DEF Life!Named, Life!fixed
    <3> QED
      BY <3>1, <3>2 DEF Life!FreedByItsThread, Life!InUse, Life!Starting
  <2> QED
    BY <1>0, <2>1, <2>2, <2>3, <2>4, <2>5, <2>6
<1>5. ASSUME NEW o \in Objects, Life!NameFails(o)
      PROVE  Life!ThreadInv'
  <2>1. Life!TypeOK'
    <3>1. frees \in [Ids -> Nat]
      BY DEF Life!TypeOK
    <3>2. frees' = [frees EXCEPT ![thread_[o]] = @ + 1]
      BY <1>5 DEF Life!NameFails, Life!Goto, Life!ResetThread
    <3>3. thread_[o] \in Ids
      BY <1>5 DEF Life!NameFails, Life!Goto, Life!ResetThread, Life!TypeOK,
         Life!OwnersAreAlone
    <3>4. frees' \in [Ids -> Nat]
      BY <3>1, <3>2, <3>3
    <3> QED
      BY <1>5, <3>4, <3>3 DEF Life!NameFails, Life!Goto, Life!ResetThread, Life!TypeOK
  <2>2. Life!OwnersAreAlone'
    BY <1>5 DEF Life!NameFails, Life!Goto, Life!ResetThread, Life!TypeOK,
       Life!OwnersAreAlone
  <2>3. Life!LiveIsOwned'
    BY <1>5 DEF Life!NameFails, Life!Goto, Life!ResetThread, Life!TypeOK,
       Life!OwnersAreAlone, Life!LiveIsOwned
  <2>4. Life!ThreadIsGone' /\ Life!SignalledLast'
    BY <1>5 DEF Life!NameFails, Life!Goto, Life!ResetThread, Life!TypeOK,
       Life!OwnersAreAlone, Life!ThreadIsGone, Life!SignalledLast, Life!Gone, Life!Over
  <2>5. Life!Uncancelled'
    BY <1>5 DEF Life!NameFails, Life!Goto, Life!ResetThread, Life!TypeOK, Life!Uncancelled
  <2>6. Life!FreedByItsThread'
    BY <1>5 DEF Life!NameFails, Life!Goto, Life!ResetThread, Life!TypeOK,
       Life!OwnersAreAlone, Life!SignalledLast, Life!Uncancelled, Life!FreedByItsThread,
       Life!InUse, Life!Gone, Life!Starting, Life!Over
  <2> QED
    BY <1>0, <2>1, <2>2, <2>3, <2>4, <2>5, <2>6
<1>6. ASSUME NEW o \in Objects, Life!CallJoin(o)
      PROVE  Life!ThreadInv'
  <2>0. PICK how \in {"join", "timed join"} : Life!Goto(o, "idle", how)
    BY <1>6 DEF Life!CallJoin, Life!Goto
  <2>1. Life!TypeOK'
    BY <1>6, <2>0 DEF Life!CallJoin, Life!Goto, Life!TypeOK
  <2>2. Life!OwnersAreAlone'
    BY <1>6, <2>0 DEF Life!CallJoin, Life!Goto, Life!TypeOK, Life!OwnersAreAlone
  <2>3. Life!LiveIsOwned'
    BY <1>6, <2>0 DEF Life!CallJoin, Life!Goto, Life!TypeOK, Life!OwnersAreAlone,
       Life!LiveIsOwned
  <2>4. Life!ThreadIsGone' /\ Life!SignalledLast'
    BY <1>6, <2>0 DEF Life!CallJoin, Life!Goto, Life!TypeOK, Life!OwnersAreAlone,
       Life!ThreadIsGone, Life!SignalledLast, Life!Gone, Life!Over
  <2>5. Life!Uncancelled'
    BY <1>6, <2>0 DEF Life!CallJoin, Life!Goto, Life!TypeOK, Life!Uncancelled
  <2>6. ASSUME ~faults
        PROVE  /\ \A j \in Ids : frees'[j] \in {0, 1} /\ (Life!InUse(j)' => frees'[j] = 0)
               /\ \A p \in Objects : thread_pc'[p] = "create" => frees'[thread_'[p]] = 0
    BY ZenonT(60), <1>6, <2>6, <2>0 DEF Life!CallJoin, Life!Goto, Life!TypeOK, Life!OwnersAreAlone,
       Life!SignalledLast, Life!FreedByItsThread, Life!InUse, Life!Gone, Life!Over
  <2>7. ASSUME ~faults, NEW j \in Ids, frees'[j] = 0
        PROVE  Life!Starting(j)' \/ Life!InUse(j)'
    BY <1>6, <2>7, <2>0 DEF Life!CallJoin, Life!Goto, Life!TypeOK, Life!OwnersAreAlone,
       Life!SignalledLast, Life!FreedByItsThread, Life!InUse, Life!Starting, Life!Gone,
       Life!Over
  <2>8. Life!FreedByItsThread'
    BY <1>6, <2>6, <2>7 DEF Life!CallJoin, Life!Goto, Life!FreedByItsThread
  <2> QED
    BY <1>0, <2>1, <2>2, <2>3, <2>4, <2>5, <2>6, <2>8
<1>7. ASSUME NEW o \in Objects, Life!Joined(o)
      PROVE  Life!ThreadInv'
  <2>1. Life!TypeOK'
    BY <1>7 DEF Life!Joined, Life!ResetThread, Life!TypeOK, Life!OwnersAreAlone
  <2>2. Life!OwnersAreAlone'
    BY <1>7 DEF Life!Joined, Life!ResetThread, Life!TypeOK, Life!OwnersAreAlone
  <2>3. Life!LiveIsOwned'
    BY <1>7 DEF Life!Joined, Life!ResetThread, Life!TypeOK, Life!OwnersAreAlone,
       Life!LiveIsOwned
  <2>4. Life!ThreadIsGone' /\ Life!SignalledLast'
    BY <1>7 DEF Life!Joined, Life!ResetThread, Life!Signals, Life!TypeOK,
       Life!OwnersAreAlone, Life!ThreadIsGone, Life!SignalledLast, Life!Gone, Life!Over
  <2>5. Life!Uncancelled'
    BY <1>7 DEF Life!Joined, Life!ResetThread, Life!TypeOK, Life!Uncancelled
  <2>6. ASSUME ~faults
        PROVE  /\ \A j \in Ids : frees'[j] \in {0, 1} /\ (Life!InUse(j)' => frees'[j] = 0)
               /\ \A p \in Objects : thread_pc'[p] = "create" => frees'[thread_'[p]] = 0
    BY <1>7, <2>6 DEF Life!Joined, Life!ResetThread, Life!Signals, Life!TypeOK,
       Life!OwnersAreAlone, Life!SignalledLast, Life!FreedByItsThread, Life!InUse,
       Life!Gone, Life!Over
  <2>7. ASSUME ~faults, NEW j \in Ids, frees'[j] = 0
        PROVE  Life!Starting(j)' \/ Life!InUse(j)'
    BY ZenonT(60), <1>7, <2>7 DEF Life!Joined, Life!ResetThread, Life!Signals, Life!TypeOK,
       Life!OwnersAreAlone, Life!SignalledLast, Life!FreedByItsThread, Life!InUse,
       Life!Starting, Life!Gone, Life!Over
  <2>8. Life!FreedByItsThread'
    BY <1>7, <2>6, <2>7 DEF Life!Joined, Life!ResetThread, Life!FreedByItsThread
  <2> QED
    BY <1>0, <2>1, <2>2, <2>3, <2>4, <2>5, <2>6, <2>8
<1>8. ASSUME NEW o \in Objects, Life!JoinTimesOut(o)
      PROVE  Life!ThreadInv'
  <2>1. Life!TypeOK'
    BY <1>8 DEF Life!JoinTimesOut, Life!Goto, Life!TypeOK, Life!OwnersAreAlone
  <2>2. Life!OwnersAreAlone'
    BY <1>8 DEF Life!JoinTimesOut, Life!Goto, Life!TypeOK, Life!OwnersAreAlone
  <2>3. Life!LiveIsOwned'
    BY <1>8 DEF Life!JoinTimesOut, Life!Goto, Life!TypeOK, Life!OwnersAreAlone,
       Life!LiveIsOwned
  <2>4. Life!ThreadIsGone' /\ Life!SignalledLast'
    BY <1>8 DEF Life!JoinTimesOut, Life!Goto, Life!TypeOK, Life!OwnersAreAlone,
       Life!ThreadIsGone, Life!SignalledLast, Life!Gone, Life!Over
  <2>5. Life!Uncancelled'
    BY <1>8 DEF Life!JoinTimesOut, Life!Goto, Life!TypeOK, Life!Uncancelled
  <2>6. Life!FreedByItsThread'
    <3>1. \A x \in Objects : thread_pc'[x] = "create" <=> thread_pc[x] = "create"
      BY <1>8 DEF Life!JoinTimesOut, Life!Goto, Life!TypeOK
    <3>2. UNCHANGED <<faults, thread_, task, frees>>
      BY <1>8 DEF Life!JoinTimesOut, Life!fixed
    <3> QED
      BY <3>1, <3>2 DEF Life!FreedByItsThread, Life!InUse, Life!Starting
  <2> QED
    BY <1>0, <2>1, <2>2, <2>3, <2>4, <2>5, <2>6
<1>9. ASSUME NEW o \in Objects, Life!Terminate(o)
      PROVE  Life!ThreadInv'
  <2>1. Life!TypeOK'
    BY <1>9 DEF Life!Terminate, Life!ResetThread, Life!TypeOK, Life!OwnersAreAlone
  <2>2. Life!OwnersAreAlone'
    BY <1>9 DEF Life!Terminate, Life!ResetThread, Life!TypeOK, Life!OwnersAreAlone
  <2>3. Life!LiveIsOwned'
    BY <1>9 DEF Life!Terminate, Life!ResetThread, Life!TypeOK, Life!OwnersAreAlone,
       Life!LiveIsOwned
  <2>4. Life!ThreadIsGone' /\ Life!SignalledLast'
    BY <1>9 DEF Life!Terminate, Life!ResetThread, Life!TypeOK, Life!OwnersAreAlone,
       Life!ThreadIsGone, Life!SignalledLast, Life!Gone, Life!Over
  <2>5. Life!Uncancelled'
    BY <1>9 DEF Life!Terminate, Life!ResetThread, Life!TypeOK, Life!Uncancelled
  <2>6. Life!FreedByItsThread'
    BY <1>9 DEF Life!Terminate, Life!ResetThread, Life!TypeOK, Life!OwnersAreAlone,
       Life!SignalledLast, Life!Uncancelled, Life!FreedByItsThread, Life!InUse, Life!Gone,
       Life!Starting, Life!Over
  <2> QED
    BY <1>0, <2>1, <2>2, <2>3, <2>4, <2>5, <2>6
<1>10. ASSUME NEW o \in Objects, NEW to \in Objects, Life!Move(o, to)
      PROVE  Life!ThreadInv'
  <2>1. Life!TypeOK'
    BY <1>10 DEF Life!Move, Life!TypeOK, Life!OwnersAreAlone
  <2>2. Life!OwnersAreAlone'
    BY <1>10 DEF Life!Move, Life!TypeOK, Life!OwnersAreAlone
  <2>3. Life!LiveIsOwned'
    <3> SUFFICES ASSUME NEW j \in live PROVE \E p \in Objects : thread_'[p] = j
      BY <1>10 DEF Life!Move, Life!LiveIsOwned
    <3>1. PICK p \in Objects : thread_[p] = j
      BY DEF Life!LiveIsOwned
    <3>2. thread_'[to] = thread_[o] /\ (p \notin {o, to} => thread_'[p] = thread_[p])
      BY <1>10 DEF Life!Move, Life!TypeOK
    <3>3. p # to
      BY <1>10, <3>1 DEF Life!Move, Life!TypeOK
    <3> QED
      BY <3>1, <3>2, <3>3
  <2>4. Life!ThreadIsGone' /\ Life!SignalledLast'
    BY <1>10 DEF Life!Move, Life!TypeOK, Life!OwnersAreAlone, Life!ThreadIsGone,
       Life!SignalledLast, Life!Gone, Life!Over
  <2>5. Life!Uncancelled'
    BY <1>10 DEF Life!Move, Life!TypeOK, Life!Uncancelled
  <2>6. Life!FreedByItsThread'
    BY ZenonT(60), <1>10 DEF Life!Move, Life!TypeOK, Life!OwnersAreAlone, Life!SignalledLast,
       Life!Uncancelled, Life!FreedByItsThread, Life!InUse, Life!Gone, Life!Starting,
       Life!Over
  <2> QED
    BY <1>0, <2>1, <2>2, <2>3, <2>4, <2>5, <2>6
<1>11. ASSUME NEW i \in Ids, Life!Enter(i)
      PROVE  Life!ThreadInv'
  <2>1. Life!TypeOK'
    BY <1>11 DEF Life!Enter, Life!TypeOK, Life!OwnersAreAlone
  <2>2. Life!OwnersAreAlone'
    BY <1>11 DEF Life!Enter, Life!TypeOK, Life!OwnersAreAlone
  <2>3. Life!LiveIsOwned'
    BY <1>11 DEF Life!Enter, Life!TypeOK, Life!OwnersAreAlone, Life!LiveIsOwned
  <2>4. Life!ThreadIsGone' /\ Life!SignalledLast'
    BY ZenonT(60), <1>11 DEF Life!Enter, Life!TypeOK, Life!OwnersAreAlone, Life!ThreadIsGone,
       Life!SignalledLast, Life!Gone, Life!Over
  <2>5. Life!Uncancelled'
    BY <1>11 DEF Life!Enter, Life!TypeOK, Life!Uncancelled
  <2>6. ASSUME ~faults
        PROVE  /\ \A j \in Ids : frees'[j] \in {0, 1} /\ (Life!InUse(j)' => frees'[j] = 0)
               /\ \A p \in Objects : thread_pc'[p] = "create" => frees'[thread_'[p]] = 0
    BY ZenonT(60), <1>11, <2>6 DEF Life!Enter, Life!TypeOK, Life!OwnersAreAlone, Life!SignalledLast,
       Life!FreedByItsThread, Life!InUse, Life!Gone, Life!Over
  <2>7. ASSUME ~faults, NEW j \in Ids, frees'[j] = 0
        PROVE  Life!Starting(j)' \/ Life!InUse(j)'
    BY ZenonT(60), <1>11, <2>7 DEF Life!Enter, Life!TypeOK, Life!OwnersAreAlone, Life!SignalledLast,
       Life!FreedByItsThread, Life!InUse, Life!Starting, Life!Gone, Life!Over
  <2>8. Life!FreedByItsThread'
    BY <1>11, <2>6, <2>7 DEF Life!Enter, Life!FreedByItsThread
  <2> QED
    BY <1>0, <2>1, <2>2, <2>3, <2>4, <2>5, <2>6, <2>8
<1>12. ASSUME NEW i \in Ids, Life!Return(i)
      PROVE  Life!ThreadInv'
  <2>1. /\ task[i] = "running"
        /\ task'[i] = "done" /\ \A j \in Ids \ {i} : task'[j] = task[j]
        /\ frees' = [frees EXCEPT ![i] = @ + 1]
        /\ UNCHANGED <<port, faults, thread_, thread_pc, live, sig, cancel>>
    BY <1>12 DEF Life!Return, Life!TypeOK
  <2>2. frees' \in [Ids -> Nat] /\ frees'[i] = frees[i] + 1
        /\ \A j \in Ids \ {i} : frees'[j] = frees[j]
    <3>1. frees \in [Ids -> Nat]
      BY DEF Life!TypeOK
    <3> QED
      BY <2>1, <3>1, CountUp
  <2>3. Life!TypeOK'
    BY <1>12, <2>2 DEF Life!Return, Life!TypeOK
  <2>4. \A p \in Objects : thread_pc[p] = "create" => thread_[p] \in Ids \ {i}
    BY <2>1 DEF Life!OwnersAreAlone, Life!TypeOK
  <2>5. Life!OwnersAreAlone' /\ Life!LiveIsOwned' /\ Life!Uncancelled'
    BY <2>1, <2>4 DEF Life!OwnersAreAlone, Life!LiveIsOwned, Life!Uncancelled
  <2>6. Life!ThreadIsGone' /\ Life!SignalledLast'
    BY <2>1 DEF Life!ThreadIsGone, Life!SignalledLast, Life!Gone
  <2>7. Life!FreedByItsThread'
    <3>1. ~faults => frees[i] = 0
      BY <2>1 DEF Life!FreedByItsThread, Life!InUse
    <3>2. \A j \in Ids : Life!Starting(j)' <=> Life!Starting(j)
      BY <2>1 DEF Life!Starting
    <3> QED
      BY <2>1, <2>2, <2>4, <3>1, <3>2 DEF Life!FreedByItsThread, Life!InUse
  <2> QED
    BY <1>0, <2>3, <2>5, <2>6, <2>7
<1>13. ASSUME NEW i \in Ids, Life!Exit(i)
      PROVE  Life!ThreadInv'
  <2>1. Life!TypeOK'
    BY <1>13 DEF Life!Exit, Life!TypeOK, Life!OwnersAreAlone
  <2>2. Life!OwnersAreAlone'
    BY <1>13 DEF Life!Exit, Life!TypeOK, Life!OwnersAreAlone
  <2>3. Life!LiveIsOwned'
    BY <1>13 DEF Life!Exit, Life!TypeOK, Life!OwnersAreAlone, Life!LiveIsOwned
  <2>4. Life!ThreadIsGone' /\ Life!SignalledLast'
    BY ZenonT(60), <1>13 DEF Life!Exit, Life!Signals, Life!TypeOK, Life!OwnersAreAlone,
       Life!ThreadIsGone, Life!SignalledLast, Life!Gone, Life!Over
  <2>5. Life!Uncancelled'
    BY <1>13 DEF Life!Exit, Life!TypeOK, Life!Uncancelled
  <2>6. ASSUME ~faults
        PROVE  /\ \A j \in Ids : frees'[j] \in {0, 1} /\ (Life!InUse(j)' => frees'[j] = 0)
               /\ \A p \in Objects : thread_pc'[p] = "create" => frees'[thread_'[p]] = 0
    BY ZenonT(60), <1>13, <2>6 DEF Life!Exit, Life!Signals, Life!TypeOK, Life!OwnersAreAlone,
       Life!SignalledLast, Life!FreedByItsThread, Life!InUse, Life!Gone, Life!Over
  <2>7. ASSUME ~faults, NEW j \in Ids, frees'[j] = 0
        PROVE  Life!Starting(j)' \/ Life!InUse(j)'
    BY ZenonT(60), <1>13, <2>7 DEF Life!Exit, Life!Signals, Life!TypeOK, Life!OwnersAreAlone,
       Life!SignalledLast, Life!FreedByItsThread, Life!InUse, Life!Starting, Life!Gone,
       Life!Over
  <2>8. Life!FreedByItsThread'
    BY <1>13, <2>6, <2>7 DEF Life!Exit, Life!FreedByItsThread
  <2> QED
    BY <1>0, <2>1, <2>2, <2>3, <2>4, <2>5, <2>6, <2>8
<1>14. ASSUME NEW i \in Ids, Life!Cancelled(i)
      PROVE  Life!ThreadInv'
  <2>1. Life!TypeOK'
    <3>1. frees \in [Ids -> Nat]
      BY DEF Life!TypeOK
    <3>2. \E n \in {0, 1} : frees' = [frees EXCEPT ![i] = @ + n]
      BY <1>14 DEF Life!Cancelled
    <3>4. frees' \in [Ids -> Nat]
      BY <3>1, <3>2
    <3> QED
      BY <1>14, <3>4 DEF Life!Cancelled, Life!TypeOK
  <2>2. Life!OwnersAreAlone'
    BY <1>14 DEF Life!Cancelled, Life!TypeOK, Life!OwnersAreAlone
  <2>3. Life!LiveIsOwned'
    BY <1>14 DEF Life!Cancelled, Life!TypeOK, Life!OwnersAreAlone, Life!LiveIsOwned
  <2>4. Life!ThreadIsGone' /\ Life!SignalledLast'
    BY <1>14 DEF Life!Cancelled, Life!TypeOK, Life!OwnersAreAlone, Life!ThreadIsGone,
       Life!SignalledLast, Life!Gone, Life!Over
  <2>5. Life!Uncancelled'
    BY <1>14 DEF Life!Cancelled, Life!TypeOK, Life!Uncancelled
  <2>6. Life!FreedByItsThread'
    BY <1>14 DEF Life!Cancelled, Life!TypeOK, Life!OwnersAreAlone, Life!SignalledLast,
       Life!Uncancelled, Life!FreedByItsThread, Life!InUse, Life!Gone, Life!Starting,
       Life!Over
  <2> QED
    BY <1>0, <2>1, <2>2, <2>3, <2>4, <2>5, <2>6
<1> QED
  BY <1>1, <1>2, <1>3, <1>4, <1>5, <1>6, <1>7, <1>8, <1>9, <1>10, <1>11, <1>12, <1>13, <1>14
     DEF Life!Next

\* ThreadInv holds in every state of any number of Thread objects, on every port.
THEOREM ThreadInvariant == ASSUME Life!ThreadAssumption PROVE Life!Spec => []Life!ThreadInv
<1>1. Life!Init => Life!ThreadInv
  BY ThreadInitInv
<1>2. Life!ThreadInv /\ [Life!Next]_Life!vars => Life!ThreadInv'
  <2>1. ASSUME Life!ThreadInv, UNCHANGED Life!vars PROVE Life!ThreadInv'
    <3>1. Life!SignalIsDeleted'
      BY <2>1, SameSignals DEF Life!vars, Life!fixed, Life!ThreadInv
    <3>2. /\ Life!TypeOK' /\ Life!ThreadIsGone' /\ Life!OwnersAreAlone' /\ Life!LiveIsOwned'
          /\ Life!SignalledLast' /\ Life!Uncancelled' /\ Life!FreedByItsThread'
      BY ZenonT(60), <2>1 DEF Life!vars, Life!fixed, Life!ThreadInv, Life!TypeOK,
         Life!ThreadIsGone, Life!OwnersAreAlone, Life!LiveIsOwned, Life!SignalledLast,
         Life!Uncancelled, Life!FreedByItsThread, Life!Starting, Life!InUse, Life!Gone
    <3> QED
      BY <3>1, <3>2 DEF Life!ThreadInv
  <2> QED
    BY <2>1, ThreadNextInv
<1> QED
  BY <1>1, <1>2, PTL DEF Life!Spec

\* When Join, Terminate or a failed Start frees an etcpal_thread_t, its thread is gone (or was
\* cancelled, on Linux), its callable is freed, once (unless threads are terminated or a name
\* is refused), and its signal is deleted (but on FreeRTOS and MQX for that of a creation
\* that failed for want of a task, and of a thread that was terminated): etcpal::Thread and
\* the os_thread.c of each port.
THEOREM NothingIsEverLeftBehind ==
  ASSUME Life!ThreadAssumption PROVE Life!Spec => []NothingIsLeftBehind
<1>1. Life!ThreadInv => NothingIsLeftBehind
  BY DEF NothingIsLeftBehind, Life!ThreadInv, Life!NothingIsLeftBehind, Life!CallableFreedOnce,
     Life!FreedByItsThread,
     Life!Starting, Life!InUse, Life!ThreadIsGone, Life!Gone, Life!OwnersAreAlone
<1> QED
  BY <1>1, ThreadInvariant, PTL
====
