---- MODULE MCLive ----
(***************************************************************************)
(* The parts of Live, in one instance for TLC: part says which of them     *)
(* runs, with the fairness its own module gives it, while the others stay  *)
(* in one of their initial states.                                         *)
(***************************************************************************)
EXTENDS Live

CONSTANT part_names

VARIABLE part

\* What the proofs assume of the constants.
ASSUME ThreadConstants == Life!ThreadAssumption
ASSUME HandleConstants == HandleAssumption

thread_part == <<port, faults, thread_, thread_pc, live, task, sig, cancel, frees>>
queue_part == <<lock, spots_available, spots_filled, node_list, queue_head, tail,
                queue_size, reset_i, queue_pc, patient, data>>

LiveInit ==
  /\ part \in part_names
  /\ Init /\ (part # "handles" => max_value = -1)
  /\ Life!Init /\ (part # "thread" => port = "linux" /\ ~faults)
  /\ Fifo!Init

LiveNext ==
  /\ UNCHANGED part
  /\ \/ part = "handles" /\ Next
     \/ part # "handles" /\ UNCHANGED vars
  /\ \/ part = "thread" /\ Life!Next
     \/ part # "thread" /\ UNCHANGED thread_part
  /\ \/ part = "queue" /\ Fifo!Next
     \/ part # "queue" /\ UNCHANGED queue_part

LiveSpec ==
  /\ LiveInit /\ [][LiveNext]_<<part, vars, thread_part, queue_part>>
  /\ WF_vars(TryNext) /\ WF_vars(ReturnHandle \/ ReturnNone)
  /\ Life!Fairness /\ Fifo!Fairness
====
