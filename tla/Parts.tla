---- MODULE Parts ----
(***************************************************************************)
(* Parts of the library that stand alone, side by side: the lifecycle, the *)
(* timers, memory pools, C logging, Expected and the network interfaces,   *)
(* and what is promised of the last four.  They share no state; part says  *)
(* which of them runs.                                                     *)
(***************************************************************************)
EXTENDS Lifecycle, Timer

CONSTANTS None,
          Threads, Pools, pool_size,        \* MemPool
          RawParams, Priorities, Lengths,   \* CLog
          Ts, Us, ResultValues, Converted, Codes, MovedFrom,  \* Expected
          Networks, MaxNetints, FullLength, Indexes, MaxRoom  \* Netint

VARIABLES part,
          mempool_lock_initted, pool_lock, list, freelist, current_used,
          pool_pc, pool_call, pool_held,
          c_initialized, buf_lock, buffers, log_pc, log_call, strings,
          storage, means,
          port, os, initialized, mutex, cache, static_netints, table, netint_pc, netint_call,
          seen, retried

Pool == INSTANCE MemPool WITH
  lock <- pool_lock, pc <- pool_pc, call <- pool_call, held <- pool_held

CLogging == INSTANCE CLog WITH
  initialized <- c_initialized, pc <- log_pc, call <- log_call

Result == INSTANCE Expected WITH Values <- ResultValues

Net == INSTANCE Netint WITH
  Systems <- Networks, pc <- netint_pc, call <- netint_call
----
(* The properties of the modules that are instantiated, stated and         *)
(* explained there, each with the types of its part's variables.           *)
\* Each element of a pool is in the free list once or out with one holder, and the counter
\* is the number of those that are out.
EveryElementAccounted == part = "pool" => Pool!PoolInv

\* A handler's strings are of its own message, with whole headers.
HandlerSeesItsMessage ==
  part = "log" => CLogging!CLogInv /\ CLogging!HandlerSeesItsMessage

\* A value is alive in the memory of an Expected just while it says that it has one.
ValueOrError == part = "results" => Result!ExpectedInv /\ Result!ValueOrError

\* What the queries answer is of one state of the system, but for the four exceptions that
\* Netint names, and the route is the best of it.
AnswersAreOfOneSystem == part = "netints" => Net!NetintInv /\ Net!AnswersAreOfOneSystem
====
