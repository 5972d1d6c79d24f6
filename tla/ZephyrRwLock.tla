---- MODULE ZephyrRwLock ----
(***************************************************************************)
(* The read-write lock of the Zephyr port: `write_sem` is held by a writer *)
(* and for a moment by each entering reader, `reader_active` by the        *)
(* readers together or by the writer.  The first reader in takes           *)
(* reader_active without waiting and ignores the result; the last one out  *)
(* gives it in a step of its own, after its atomic decrement.              *)
(***************************************************************************)
EXTENDS Naturals

CONSTANT Threads

VARIABLES write_sem, reader_active,   \* binary semaphores, 1 when free
          reader_count, pc,
          patient                     \* the call waits forever

vars == <<write_sem, reader_active, reader_count, pc, patient>>

PCs == {"idle", "read_take", "read_inc", "read_first", "read_give", "reading",
        "read_last", "write_take", "write_wait", "write_back", "writing", "write_unlock"}

At(S) == {t \in Threads : pc[t] \in S}

Init ==
  /\ write_sem = 1 /\ reader_active = 1 /\ reader_count = 0
  /\ pc = [t \in Threads |-> "idle"]
  /\ patient = [t \in Threads |-> FALSE]

Goto(t, from, to) == pc[t] = from /\ pc' = [pc EXCEPT ![t] = to]

\* k_sem_give on a semaphore whose limit is 1.
Give(count) == IF count < 1 THEN count + 1 ELSE count

CallLock(t, to, forever) ==
  /\ Goto(t, "idle", to)
  /\ patient' = [patient EXCEPT ![t] = forever]
  /\ UNCHANGED <<write_sem, reader_active, reader_count>>

TakeWriteSem(t, from, to) ==
  /\ Goto(t, from, to)
  /\ write_sem = 1 /\ write_sem' = 0
  /\ UNCHANGED <<reader_active, reader_count, patient>>

TakeTimeout(t, from) ==
  /\ Goto(t, from, "idle")
  /\ write_sem = 0 /\ ~patient[t]
  /\ UNCHANGED <<write_sem, reader_active, reader_count, patient>>

ReadIncrement(t) ==
  /\ Goto(t, "read_inc", IF reader_count = 0 THEN "read_first" ELSE "read_give")
  /\ reader_count' = reader_count + 1
  /\ UNCHANGED <<write_sem, reader_active, patient>>

\* K_NO_WAIT, and the result is not looked at.
ReadFirst(t) ==
  /\ Goto(t, "read_first", "read_give")
  /\ reader_active' = 0
  /\ UNCHANGED <<write_sem, reader_count, patient>>

ReadGive(t) ==
  /\ Goto(t, "read_give", "reading")
  /\ write_sem' = Give(write_sem)
  /\ UNCHANGED <<reader_active, reader_count, patient>>

ReadUnlock(t) ==
  /\ Goto(t, "reading", IF reader_count = 1 THEN "read_last" ELSE "idle")
  /\ reader_count' = reader_count - 1
  /\ UNCHANGED <<write_sem, reader_active, patient>>

ReadLast(t) ==
  /\ Goto(t, "read_last", "idle")
  /\ reader_active' = Give(reader_active)
  /\ UNCHANGED <<write_sem, reader_count, patient>>

WaitForReaders(t) ==
  /\ Goto(t, "write_wait", "writing")
  /\ reader_active = 1 /\ reader_active' = 0
  /\ UNCHANGED <<write_sem, reader_count, patient>>

ReadersTimeout(t) ==
  /\ Goto(t, "write_wait", "write_back")
  /\ reader_active = 0 /\ ~patient[t]
  /\ UNCHANGED <<write_sem, reader_active, reader_count, patient>>

WriteUnlock(t) ==
  /\ Goto(t, "writing", "write_unlock")
  /\ reader_active' = Give(reader_active)
  /\ UNCHANGED <<write_sem, reader_count, patient>>

GiveWriteSem(t) ==
  /\ \/ Goto(t, "write_back", "idle")
     \/ Goto(t, "write_unlock", "idle")
  /\ write_sem' = Give(write_sem)
  /\ UNCHANGED <<reader_active, reader_count, patient>>

Step(t) ==
  \/ \E to \in {"read_take", "write_take"}, forever \in BOOLEAN : CallLock(t, to, forever)
  \/ TakeWriteSem(t, "read_take", "read_inc") \/ TakeWriteSem(t, "write_take", "write_wait")
  \/ TakeTimeout(t, "read_take") \/ TakeTimeout(t, "write_take")
  \/ ReadIncrement(t) \/ ReadFirst(t) \/ ReadGive(t) \/ ReadUnlock(t) \/ ReadLast(t)
  \/ WaitForReaders(t) \/ ReadersTimeout(t) \/ WriteUnlock(t) \/ GiveWriteSem(t)

Next == \E t \in Threads : Step(t)

Spec == Init /\ [][Next]_vars

----
\* A writer is alone (rwlock.dox: "It also locks all threads out of the read
\* lock block above.").
WriterLocksReadersOut == At({"writing"}) # {} => At({"reading"}) = {}
====
