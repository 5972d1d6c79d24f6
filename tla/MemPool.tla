---- MODULE MemPool ----
(***************************************************************************)
(* Memory pools (src/etcpal/mempool.c): a pool's free elements are a list  *)
(* threaded through desc->list, and one mutex, which the first             *)
(* etcpal_mempool_init creates, guards all pools.  Initialisations do not  *)
(* overlap: nothing guards the creation of the mutex.                      *)
(*                                                                         *)
(* An element is named by its index; ends of lists are None.               *)
(***************************************************************************)
EXTENDS Integers, FiniteSets

CONSTANTS Threads, Pools,
          pool_size,
          None

VARIABLES mempool_lock_initted, lock,
          list, freelist, current_used,
          pc, call,   \* of each thread: [op, pool, elem], elem the local elem_desc
          held        \* of each pool, the elements that callers have

pool == <<list, freelist, current_used>>
vars == <<mempool_lock_initted, lock, pool, pc, call, held>>

Elements == 0 .. pool_size - 1

PoolAssumption ==
  /\ pool_size \in Nat \ {0}
  /\ None \notin Threads /\ None \notin Pools /\ None \notin Elements

NoCall == [op |-> "none", pool |-> None, elem |-> None]

Init ==
  /\ mempool_lock_initted = FALSE /\ lock = None
  /\ list = [p \in Pools |-> [e \in Elements |-> None]]
  /\ freelist = [p \in Pools |-> None]
  /\ current_used = [p \in Pools |-> 0]
  /\ pc = [t \in Threads |-> "idle"]
  /\ call = [t \in Threads |-> NoCall]
  /\ held = [p \in Pools |-> {}]

Goto(t, from, to) == pc[t] = from /\ pc' = [pc EXCEPT ![t] = to]

\* A pool may be initialised again when nobody has or wants an element of it.
Begin(t, op, p, elem) ==
  /\ Goto(t, "idle", "lock")
  /\ call' = [call EXCEPT ![t] = [op |-> op, pool |-> p, elem |-> elem]]

Initted(p) == freelist[p] # None \/ current_used[p] # 0

CallInit(t, p) ==
  /\ \A u \in Threads : call[u].pool # p /\ call[u].op # "init"
  /\ held[p] = {}
  /\ Begin(t, "init", p, None)
  /\ mempool_lock_initted' = TRUE
  /\ UNCHANGED <<lock, pool, held>>

CallAlloc(t, p) ==
  /\ Initted(p)
  /\ \A u \in Threads : call[u].pool = p => call[u].op # "init"
  /\ Begin(t, "alloc", p, None)
  /\ UNCHANGED <<mempool_lock_initted, lock, pool, held>>

\* The caller gives up the element as it calls.
CallFree(t, p) ==
  \E elem \in held[p] :
    /\ Begin(t, "free", p, elem)
    /\ held' = [held EXCEPT ![p] = @ \ {elem}]
    /\ UNCHANGED <<mempool_lock_initted, lock, pool>>

LockUnchecked(t) ==
  /\ Goto(t, "lock", "read")
  /\ UNCHANGED <<lock, mempool_lock_initted, pool, call, held>>

Lock(t) ==
  /\ Goto(t, "lock", "read")
  /\ lock = None /\ lock' = t
  /\ UNCHANGED <<mempool_lock_initted, pool, call, held>>

Unlock(t) == lock' = None

BuildList(t) ==
  /\ call[t].op = "init" /\ Goto(t, "read", "idle")
  /\ list' = [list EXCEPT ![call[t].pool] =
                [e \in Elements |-> IF e = pool_size - 1 THEN None ELSE e + 1]]
  /\ freelist' = [freelist EXCEPT ![call[t].pool] = 0]
  /\ current_used' = [current_used EXCEPT ![call[t].pool] = 0]
  /\ call' = [call EXCEPT ![t] = NoCall]
  /\ Unlock(t)
  /\ UNCHANGED <<mempool_lock_initted, held>>

\* The local elem_desc: the head of the free list.
ReadHead(t) ==
  /\ call[t].op = "alloc" /\ Goto(t, "read", "write")
  /\ call' = [call EXCEPT ![t].elem = freelist[call[t].pool]]
  /\ UNCHANGED <<mempool_lock_initted, lock, pool, held>>

\* With an empty list, NULL is returned.
TakeHead(t) ==
  LET p == call[t].pool
      elem == call[t].elem
  IN /\ call[t].op = "alloc" /\ Goto(t, "write", "idle")
     /\ IF elem = None THEN UNCHANGED <<freelist, current_used, held>>
        ELSE /\ freelist' = [freelist EXCEPT ![p] = list[p][elem]]
             /\ current_used' = [current_used EXCEPT ![p] = @ + 1]
             /\ held' = [held EXCEPT ![p] = @ \cup {elem}]
     /\ call' = [call EXCEPT ![t] = NoCall]
     /\ Unlock(t)
     /\ UNCHANGED <<mempool_lock_initted, list>>

Link(t) ==
  LET p == call[t].pool
      elem == call[t].elem
  IN /\ call[t].op = "free" /\ Goto(t, "read", "write")
     /\ list' = [list EXCEPT ![p][elem] = freelist[p]]
     /\ UNCHANGED <<mempool_lock_initted, lock, freelist, current_used, call, held>>

PutHead(t) ==
  LET p == call[t].pool
      elem == call[t].elem
  IN /\ call[t].op = "free" /\ Goto(t, "write", "idle")
     /\ freelist' = [freelist EXCEPT ![p] = elem]
     /\ current_used' = [current_used EXCEPT ![p] = @ - 1]
     /\ call' = [call EXCEPT ![t] = NoCall]
     /\ Unlock(t)
     /\ UNCHANGED <<mempool_lock_initted, list, held>>

Next ==
  \E t \in Threads :
    \/ \E p \in Pools : CallInit(t, p) \/ CallAlloc(t, p) \/ CallFree(t, p)
    \/ Lock(t) \/ BuildList(t) \/ ReadHead(t) \/ TakeHead(t) \/ Link(t) \/ PutHead(t)

Spec == Init /\ [][Next]_vars

----
\* Every variable has its type, and the thread that has the lock is inside a call.
TypeOK ==
  /\ mempool_lock_initted \in BOOLEAN /\ lock \in Threads \cup {None}
  /\ list \in [Pools -> [Elements -> Elements \cup {None}]]
  /\ freelist \in [Pools -> Elements \cup {None}]
  /\ current_used \in [Pools -> Nat]
  /\ held \in [Pools -> SUBSET Elements]
  /\ pc \in [Threads -> {"idle", "lock", "read", "write"}]
  /\ call \in [Threads -> [op : {"none", "init", "alloc", "free"}, pool : Pools \cup {None},
                           elem : Elements \cup {None}]]
  /\ \A t \in Threads : lock = t <=> pc[t] \in {"read", "write"}

\* The elements that callers have, or calls in progress give back.
Returning(p) == {call[t].elem : t \in {u \in Threads : call[u].op = "free" /\ call[u].pool = p}}
Out(p) == held[p] \cup Returning(p)

\* The free list of p, from its head on, is the n elements of order: those that are not out.
IsFreeList(p, n, order) ==
  /\ freelist[p] = IF n = 0 THEN None ELSE order[1]
  /\ \A i \in 1 .. n : list[p][order[i]] = IF i = n THEN None ELSE order[i + 1]
  /\ \A i, j \in 1 .. n : order[i] = order[j] => i = j
  /\ \A e \in Elements : e \in Out(p) <=> \A i \in 1 .. n : order[i] # e

\* The free list has each element that is not out once, and current_used counts the others.
Accounted(p) ==
  /\ current_used[p] = Cardinality(Out(p))
  /\ LET n == pool_size - current_used[p] IN
     \E order \in [1 .. n -> Elements] : IsFreeList(p, n, order)

\* Each element of a pool in use is on its free list or out, and not both, and
\* etcpal_mempool_used counts those that are out: no element is handed out twice, none is
\* lost, the list has no cycle and the count never wraps below zero, whatever calls
\* overlapped.
EveryElementAccounted == \A p \in Pools : Initted(p) => Accounted(p)
----
(* What it rests on.                                                       *)
\* What each call is about, and that what it has read under the lock is still so.
CallsFit ==
  \A t \in Threads :
    /\ pc[t] = "idle" <=> call[t].op = "none"
    /\ call[t].op = "none" <=> call[t].pool = None
    /\ call[t].op = "free" => call[t].elem \in Elements
    /\ call[t].op = "init" => pc[t] # "write"
    /\ pc[t] = "write" /\ call[t].op = "alloc" => call[t].elem = freelist[call[t].pool]
    /\ pc[t] = "write" /\ call[t].op = "free" =>
         list[call[t].pool][call[t].elem] = freelist[call[t].pool]

\* What one call gives back nobody has, and no other call gives back.
GivenBackOnce ==
  \A t \in Threads : call[t].op = "free" =>
    /\ call[t].elem \notin held[call[t].pool]
    /\ \A u \in Threads : /\ call[u].op = "free" /\ call[u].pool = call[t].pool
                          /\ call[u].elem = call[t].elem
                          => u = t

\* A pool is initialised by itself, and used only after that.
InitAlone ==
  /\ \A t \in Threads : call[t].op = "init" =>
       /\ held[call[t].pool] = {}
       /\ \A u \in Threads : call[u].pool = call[t].pool => u = t
  /\ \A p \in Pools : ~Initted(p) =>
       /\ held[p] = {}
       /\ \A t \in Threads : call[t].pool = p => call[t].op = "init"

PoolInv == TypeOK /\ CallsFit /\ GivenBackOnce /\ InitAlone /\ EveryElementAccounted
====
