---- MODULE SpinRwLock ----
(***************************************************************************)
(* The read-write lock of the FreeRTOS, MQX and Windows ports: one lock    *)
(* `sem` and a count of readers.  A reader holds `sem` only while it adds  *)
(* itself to the count, and leaves without it; a writer keeps `sem` from   *)
(* before it waits for the readers to leave until it unlocks.              *)
(***************************************************************************)
EXTENDS Naturals, FiniteSets

CONSTANTS Threads,
          MaxReaders   \* MAX_READERS on MQX and Windows

ASSUME RwAssumption == IsFiniteSet(Threads) /\ MaxReaders \in Nat \ {0}

VARIABLES sem,           \* 1 when nobody holds it
          reader_count,
          pc,            \* the call each thread is in and how far it got
          kind           \* how the call waits

vars == <<sem, reader_count, pc, kind>>

Kinds == {"forever", "timed", "try"}   \* readlock, timed_..., try_...

PCs == {"idle", "read_take", "read_count", "read_give", "read_refuse", "reading",
        "write_take", "write_spin", "write_recheck", "write_give", "writing"}

At(S) == {t \in Threads : pc[t] \in S}
Count(S) == Cardinality(At(S))

Init ==
  /\ sem = 1 /\ reader_count = 0
  /\ pc = [t \in Threads |-> "idle"]
  /\ kind = [t \in Threads |-> "forever"]

Goto(t, from, to) == pc[t] = from /\ pc' = [pc EXCEPT ![t] = to]

TakeSem == sem = 1 /\ sem' = 0
GiveSem == sem' = 1

----
CallReadLock(t, k) ==
  /\ Goto(t, "idle", "read_take")
  /\ kind' = [kind EXCEPT ![t] = k]
  /\ UNCHANGED <<sem, reader_count>>

ReadTake(t) ==
  /\ Goto(t, "read_take", "read_count")
  /\ TakeSem
  /\ UNCHANGED <<reader_count, kind>>

\* A try or timed take of `sem` gives up while another thread has it.
TakeTimeout(t, from) ==
  /\ Goto(t, from, "idle")
  /\ kind[t] # "forever" /\ sem = 0
  /\ UNCHANGED <<sem, reader_count, kind>>

CountReader(t) ==
  /\ Goto(t, "read_count", "read_give")
  /\ reader_count < MaxReaders
  /\ reader_count' = reader_count + 1
  /\ UNCHANGED <<sem, kind>>

RefuseReader(t) ==
  /\ Goto(t, "read_count", "read_refuse")
  /\ reader_count >= MaxReaders
  /\ UNCHANGED <<sem, reader_count, kind>>

ReadGive(t) ==
  /\ \/ Goto(t, "read_give", "reading")
     \/ Goto(t, "read_refuse", "idle")
  /\ GiveSem
  /\ UNCHANGED <<reader_count, kind>>

ForgetToUncount(t) ==
  /\ Goto(t, "reading", "idle")
  /\ UNCHANGED <<sem, reader_count, kind>>

\* The decrement is atomic and is made without `sem`.
ReadUnlock(t) ==
  /\ Goto(t, "reading", "idle")
  /\ reader_count' = reader_count - 1
  /\ UNCHANGED <<sem, kind>>

----
CallWriteLock(t, k) ==
  /\ Goto(t, "idle", "write_take")
  /\ kind' = [kind EXCEPT ![t] = k]
  /\ UNCHANGED <<sem, reader_count>>

WaitWithoutSem(t) ==
  /\ Goto(t, "write_take", "write_spin")
  /\ sem = 1
  /\ UNCHANGED <<sem, reader_count, kind>>

WriteTake(t) ==
  /\ Goto(t, "write_take", "write_spin")
  /\ TakeSem
  /\ UNCHANGED <<reader_count, kind>>

DoNotWait(t) ==
  /\ Goto(t, "write_spin", "writing")
  /\ UNCHANGED <<sem, reader_count, kind>>

\* The loop, or try_writelock's one look, sees that no reader is left.
ReadersGone(t) ==
  /\ Goto(t, "write_spin", "writing")
  /\ reader_count = 0
  /\ UNCHANGED <<sem, reader_count, kind>>

GiveUpWithSem(t) ==
  /\ reader_count > 0
  /\ \/ kind[t] = "try" /\ Goto(t, "write_spin", "idle")
     \/ kind[t] = "timed" /\ Goto(t, "write_spin", "write_recheck")
  /\ UNCHANGED <<sem, reader_count, kind>>

\* try_writelock gives up at once; timed_writelock leaves its loop when the
\* time is over and looks at the count once more.
ReadersRemain(t) ==
  /\ reader_count > 0
  /\ \/ kind[t] = "try" /\ Goto(t, "write_spin", "write_give")
     \/ kind[t] = "timed" /\ Goto(t, "write_spin", "write_recheck")
  /\ UNCHANGED <<sem, reader_count, kind>>

Recheck(t) ==
  /\ Goto(t, "write_recheck", IF reader_count = 0 THEN "writing" ELSE "write_give")
  /\ UNCHANGED <<sem, reader_count, kind>>

\* Giving up and unlocking both give `sem` back.
WriteGive(t) ==
  /\ \/ Goto(t, "write_give", "idle")
     \/ Goto(t, "writing", "idle")
  /\ GiveSem
  /\ UNCHANGED <<reader_count, kind>>

----
Step(t) ==
  \/ \E k \in Kinds : CallReadLock(t, k) \/ CallWriteLock(t, k)
  \/ ReadTake(t) \/ CountReader(t) \/ RefuseReader(t) \/ ReadGive(t) \/ ReadUnlock(t)
  \/ WriteTake(t) \/ ReadersGone(t) \/ ReadersRemain(t) \/ Recheck(t) \/ WriteGive(t)
  \/ TakeTimeout(t, "read_take") \/ TakeTimeout(t, "write_take")

Next == \E t \in Threads : Step(t)

Spec == Init /\ [][Next]_vars

\* Calls run on, and whoever holds the lock releases it; nothing is assumed
\* of the order in which the threads that wait for `sem` get it.
RunsOn(t) ==
  \/ CountReader(t) \/ RefuseReader(t) \/ ReadGive(t) \/ ReadUnlock(t)
  \/ ReadersGone(t) \/ Recheck(t) \/ WriteGive(t)

Fairness == \A t \in Threads : WF_vars(RunsOn(t))

FairSpec == Spec /\ Fairness

----
\* Every variable has its type: reader_count, which two ports keep unsigned,
\* never goes below zero.
TypeOK ==
  /\ sem \in {0, 1}
  /\ reader_count \in Nat
  /\ pc \in [Threads -> PCs]
  /\ kind \in [Threads -> Kinds]

\* Between taking and giving `sem`.
SemPoints == {"read_count", "read_give", "read_refuse", "write_spin", "write_recheck",
              "write_give", "writing"}
ReaderPoints == {"read_give", "reading"}

\* `sem` is held by one thread at a time, a writer's whole critical section
\* included, and free when none holds it.
SemIsExclusive == Count(SemPoints) = 1 - sem

\* The count that writers wait for is the number of threads that hold a read
\* lock, though readers leave without `sem`; and it stays within the limit.
ReadersAreCounted == reader_count = Count(ReaderPoints) /\ reader_count <= MaxReaders

\* Write preference (rwlock.dox: "No new read locks are allowed while this
\* function is being blocked on"): while a writer waits for the readers to
\* leave, no thread becomes a reader.
WritersArePreferred ==
  [][At({"write_spin", "write_recheck"}) # {} => At(ReaderPoints)' \subseteq At(ReaderPoints)]_vars

\* A writer that waits for the readers, of which there is one at a time, gets
\* the lock or gives up: readers cannot keep it out by overlapping one another.
WriterIsServed == []<>(At({"write_spin", "write_recheck"}) = {})

Mode == [t \in Threads |-> CASE pc[t] \in ReaderPoints -> "read"
                             [] pc[t] = "writing" -> "write"
                             [] OTHER -> "none"]

Abstract == INSTANCE RwLock WITH mode <- Mode

\* A lock granted by these calls excludes as rwlock.dox says.
ImplementsRwLock == Abstract!Spec

\* Inductive: it implies that readers and a writer exclude one another.
RwInv ==
  /\ TypeOK /\ SemIsExclusive /\ ReadersAreCounted
  /\ At({"writing"}) # {} => reader_count = 0
====
