---- MODULE HandleManager ----
(***************************************************************************)
(* The integer handle manager (src/etcpal/handle_manager.c) and the        *)
(* library that uses it: handles count up from 0, and once they have       *)
(* wrapped around each candidate is shown to the library's value_in_use    *)
(* callback.  get_next_int_handle is not synchronised, so the library does *)
(* not touch its handles while a call runs.                                *)
(***************************************************************************)
EXTENDS Integers, FiniteSets

CONSTANT INT_MAX

HandleAssumption == INT_MAX \in Nat

VARIABLES max_value,           \* the custom wrap-around point, or -1
          last_handle, check_value_in_use,
          new_handle, is_used, \* locals of get_next_int_handle
          pc,                  \* "idle", "loop" or "return"
          in_use               \* the handles the library has on a resource

manager == <<max_value, last_handle, check_value_in_use>>
vars == <<manager, new_handle, is_used, pc, in_use>>

max_handle == IF max_value >= 0 THEN max_value ELSE INT_MAX
Handles == 0 .. max_handle

Init ==
  /\ max_value \in -1 .. INT_MAX
  /\ last_handle = -1
  /\ check_value_in_use = FALSE
  /\ new_handle = -1 /\ is_used = FALSE
  /\ pc = "idle"
  /\ in_use = {}

ScanFromStart ==
  /\ pc = "idle" /\ pc' = "loop"
  /\ new_handle' = -1
  /\ is_used' = FALSE
  /\ UNCHANGED <<manager, in_use>>

GetNextIntHandle ==
  /\ pc = "idle" /\ pc' = "loop"
  /\ new_handle' = last_handle
  /\ is_used' = FALSE
  /\ UNCHANGED <<manager, in_use>>

\* The candidate that follows this one.
Following(handle) == IF handle >= max_handle THEN 0 ELSE handle + 1

NeverCheck ==
  /\ pc = "loop" /\ pc' = "return"
  /\ new_handle' = Following(new_handle)
  /\ is_used' = FALSE
  /\ UNCHANGED <<manager, in_use>>

StopAtLimit ==
  /\ pc = "loop"
  /\ new_handle' = Following(new_handle)
  /\ check_value_in_use' = (check_value_in_use \/ new_handle >= max_handle)
  /\ is_used' = (check_value_in_use' /\ new_handle' \in in_use)
  /\ pc' = IF is_used' /\ new_handle' # max_handle THEN "loop" ELSE "return"
  /\ UNCHANGED <<max_value, last_handle, in_use>>

NeverStop ==
  /\ pc = "loop"
  /\ new_handle' = Following(new_handle)
  /\ check_value_in_use' = (check_value_in_use \/ new_handle >= max_handle)
  /\ is_used' = (check_value_in_use' /\ new_handle' \in in_use)
  /\ pc' = IF is_used' THEN "loop" ELSE "return"
  /\ UNCHANGED <<max_value, last_handle, in_use>>

\* One turn of the do-while loop.
TryNext ==
  /\ pc = "loop"
  /\ new_handle' = Following(new_handle)
  /\ check_value_in_use' = (check_value_in_use \/ new_handle >= max_handle)
  /\ is_used' = (check_value_in_use' /\ new_handle' \in in_use)
  /\ pc' = IF is_used' /\ new_handle' # last_handle THEN "loop" ELSE "return"
  /\ UNCHANGED <<max_value, last_handle, in_use>>

\* A handle is returned; the library puts it on a resource, or fails to make
\* the resource and drops it.
ReturnHandle ==
  /\ pc = "return" /\ pc' = "idle"
  /\ ~is_used
  /\ last_handle' = new_handle
  /\ in_use' \in {in_use, in_use \cup {new_handle}}
  /\ UNCHANGED <<max_value, check_value_in_use, new_handle, is_used>>

\* -1 is returned.
ReturnNone ==
  /\ pc = "return" /\ pc' = "idle"
  /\ is_used
  /\ UNCHANGED <<manager, new_handle, is_used, in_use>>

Release ==
  /\ pc = "idle"
  /\ \E handle \in in_use : in_use' = in_use \ {handle}
  /\ UNCHANGED <<manager, new_handle, is_used, pc>>

Next == GetNextIntHandle \/ TryNext \/ ReturnHandle \/ ReturnNone \/ Release

Spec == Init /\ [][Next]_vars

\* A call that has begun runs.
FairSpec == Spec /\ WF_vars(TryNext) /\ WF_vars(ReturnHandle \/ ReturnNone)

----
\* Every variable has its type: no handle is above the limit.
TypeOK ==
  /\ max_value \in -1 .. INT_MAX
  /\ last_handle \in {-1} \cup Handles
  /\ check_value_in_use \in BOOLEAN
  /\ new_handle \in {-1} \cup Handles
  /\ is_used \in BOOLEAN
  /\ pc \in {"idle", "loop", "return"}
  /\ in_use \subseteq Handles

\* The handle returned is on no resource, although before the first wrap
\* around nobody looks.
HandleIsUnused == pc = "return" /\ ~is_used => new_handle \in Handles \ in_use

\* -1 is returned only when every handle up to the limit is in use: the scan
\* misses no free one, wherever it started.
NoneOnlyWhenFull == pc = "return" /\ is_used => in_use = Handles

\* The handles that come after last_handle, up to and with new_handle, going
\* round at the limit.
Scanned ==
  IF new_handle > last_handle
    THEN {h \in Handles : last_handle < h /\ h <= new_handle}
    ELSE {h \in Handles : last_handle < h \/ h <= new_handle}

\* Handles go round: one that was released is not handed out again while a
\* free one comes before it, so a stale copy stays invalid as long as it can.
OldestFirst ==
  pc = "return" /\ ~is_used =>
    \A h \in Scanned \ {new_handle} : h \in in_use

\* The loop ends, even when there is nothing to find.
CallReturns == pc = "loop" ~> pc = "idle"

\* Until the handles have wrapped around, all that are in use are behind
\* last_handle; afterwards, all that the scan has passed are in use.
HandleInv ==
  /\ TypeOK
  /\ ~check_value_in_use =>
       /\ \A h \in in_use : h <= last_handle
       /\ ~is_used
       /\ new_handle >= last_handle
  /\ check_value_in_use => last_handle # -1
  /\ pc = "loop" =>
       \/ new_handle = last_handle /\ ~is_used
       \/ new_handle # last_handle /\ check_value_in_use /\ is_used /\ Scanned \subseteq in_use
  /\ pc = "return" =>
       /\ new_handle \in Handles
       /\ Scanned \ {new_handle} \subseteq in_use
       /\ is_used => new_handle = last_handle /\ new_handle \in in_use
       /\ ~is_used => new_handle \notin in_use
====
