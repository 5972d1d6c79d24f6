---- MODULE AutoReset ----
(***************************************************************************)
(* What a signal promises (include/etcpal/cpp/signal.h and signal.h): it   *)
(* is set or it is not, a wait that returns true has reset it, one that    *)
(* does not wait returns false only when it was not set, and a signal that *)
(* is set does not stay so while a thread waits for it.                    *)
(***************************************************************************)
CONSTANT Threads

VARIABLES flag,
          waiting,  \* the threads whose wait has not taken the signal or given up
          patient   \* those of them that wait for as long as it takes

auto_vars == <<flag, waiting, patient>>

AutoInit == flag = FALSE /\ waiting = {} /\ patient = {}

Begin(t) ==
  /\ t \notin waiting
  /\ waiting' = waiting \cup {t}
  /\ patient' \in {patient, patient \cup {t}}
  /\ UNCHANGED flag

Set == flag' = TRUE /\ UNCHANGED <<waiting, patient>>

Take(t) ==
  /\ t \in waiting /\ flag
  /\ flag' = FALSE
  /\ waiting' = waiting \ {t} /\ patient' = patient \ {t}

GiveUp(t) ==
  /\ t \in waiting \ patient /\ ~flag
  /\ waiting' = waiting \ {t}
  /\ UNCHANGED <<flag, patient>>

\* When nobody waits, the signal can be destroyed, and another made that is not set.
Renew == waiting = {} /\ flag' = FALSE /\ UNCHANGED <<waiting, patient>>

AutoNext == Set \/ Renew \/ \E t \in Threads : Begin(t) \/ Take(t) \/ GiveUp(t)

\* What may happen; AutoSpec adds what must.
AutoSafety == AutoInit /\ [][AutoNext]_auto_vars

AutoSpec ==
  /\ AutoSafety
  /\ WF_auto_vars(\E t \in Threads : Take(t))
====
