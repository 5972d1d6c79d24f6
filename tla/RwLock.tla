---- MODULE RwLock ----
(***************************************************************************)
(* What a read-write lock promises (rwlock.dox): any number of readers, or *)
(* one writer and no reader.                                               *)
(***************************************************************************)
CONSTANT Threads

VARIABLE mode   \* what each thread holds: "none", "read" or "write"

Init == mode = [t \in Threads |-> "none"]

ReadLock(t) ==
  /\ mode[t] = "none"
  /\ \A u \in Threads : mode[u] # "write"
  /\ mode' = [mode EXCEPT ![t] = "read"]

WriteLock(t) ==
  /\ \A u \in Threads : mode[u] = "none"
  /\ mode' = [mode EXCEPT ![t] = "write"]

Unlock(t) ==
  /\ mode[t] # "none"
  /\ mode' = [mode EXCEPT ![t] = "none"]

Next == \E t \in Threads : ReadLock(t) \/ WriteLock(t) \/ Unlock(t)

Spec == Init /\ [][Next]_mode
====
