---- MODULE MCParts ----
(***************************************************************************)
(* The parts of Parts and the red-black tree, in one instance for TLC:     *)
(* part says which of them runs, from every one of its initial states,     *)
(* while the others stay in one of theirs.                                 *)
(***************************************************************************)
EXTENDS Parts, TLC

CONSTANTS part_names, l1,
          Values, head,                     \* RbTree
          v1, v2                            \* Expected

VARIABLES tree, size, owned, iter

LibrarySymmetry == Permutations(Libraries)
----
(* Networks: what the systems of the Netint instance show. *)
Address(family, index, addr, len, up) ==
  [family |-> family, index |-> index, if_index |-> index, addr |-> addr, len |-> len,
   up |-> up]

Route(dst, len, gateway, oif, metric, scoped, local) ==
  [dst |-> dst, len |-> len, gateway |-> gateway, oif |-> oif, metric |-> metric,
   scoped |-> scoped, local |-> local]

EthV4 == Address("v4", 1, 1, 1, TRUE)
EthV6 == Address("v6", 1, 1, 1, TRUE)
WlanV4 == Address("v4", 2, 0, 1, TRUE)
DownV4 == Address("v4", 2, 2, 2, FALSE)
DividedV6 == [Address("v6", 3, 2, 1, TRUE) EXCEPT !.if_index = 1]
Packet == Address("packet", 2, 0, 0, TRUE)

Gateway1 == Route(0, 0, TRUE, 1, 1, TRUE, FALSE)
Gateway2 == Route(0, 0, TRUE, 2, 0, FALSE, FALSE)
OnLink1 == Route(0, 1, FALSE, 1, 1, TRUE, FALSE)
OnLink2 == Route(0, 1, FALSE, 2, 0, FALSE, FALSE)
Host1 == Route(1, 2, FALSE, 1, 1, FALSE, FALSE)
Multipath == Route(2, 1, FALSE, 0, 1, FALSE, FALSE)
Local == Route(1, 2, FALSE, 1, 0, FALSE, TRUE)

\* Two links with overlapping routes and two gateways, one of them with the address 0 (on
\* lwIP without one); a link that is down, an address of another family (for the ports that
\* have those), an adapter with two indexes (on Windows) and a multipath route; one link; none.
MCNetworks == {
  [addrs |-> <<WlanV4, EthV4, EthV6>>,
   routes |-> [v4 |-> <<Gateway1, OnLink1, Gateway2, OnLink2>>, v6 |-> <<Local, Gateway1>>],
   default |-> [v4 |-> 2, v6 |-> 1]],
  [addrs |-> <<EthV4, DownV4, DividedV6, Packet>>,
   routes |-> [v4 |-> <<Local, OnLink2, Host1, Multipath>>, v6 |-> << >>],
   default |-> [v4 |-> 1, v6 |-> 3]],
  [addrs |-> <<EthV4, EthV6>>,
   routes |-> [v4 |-> <<OnLink1, Gateway1>>, v6 |-> <<OnLink2, OnLink1>>],
   default |-> [v4 |-> 1, v6 |-> 0]],
  [addrs |-> << >>,
   routes |-> [v4 |-> << >>, v6 |-> << >>],
   default |-> [v4 |-> 0, v6 |-> 0]] }

NoNetwork == CHOOSE n \in Networks : n.addrs = << >>
----
Tree == INSTANCE RbTree WITH MaxSurplus <- 1

ASSUME PoolConstants == Pool!PoolAssumption

ASSUME NetConstants == Net!NetintAssumption

Text(len, clean) == [len |-> len, clean |-> clean]

Parameters(action, mask, time_fn, facility, hostname, app_name, procid) ==
  [action |-> action, log_fn |-> TRUE, log_mask |-> mask, time_fn |-> time_fn,
   syslog_params |-> [facility |-> facility, hostname |-> hostname, app_name |-> app_name,
                      procid |-> procid]]

\* The longest fields and the largest facility, none clean; a facility there is not, no
\* name, a short process id and no clock; no function to call.
Usual == Parameters({"human", "syslog", "legacy"}, {3}, TRUE, 184,
                    Text(255, FALSE), Text(48, FALSE), Text(128, FALSE))
Sparse == Parameters({"legacy"}, {3}, FALSE, 200,
                     Text(0, FALSE), Text(0, FALSE), Text(3, FALSE))
Unusable == [Sparse EXCEPT !.log_fn = FALSE]

LogParams == {Usual, Sparse, Unusable}
ConvertedValue == [v \in {v1, v2} |-> v1]

ASSUME CLogConstants == CLogging!CLogAssumption
ASSUME ResultConstants == Result!ExpectedAssumption

tree_part == <<tree, size, owned, iter>>
pool_part == <<mempool_lock_initted, pool_lock, list, freelist, current_used,
               pool_pc, pool_call, pool_held>>
net_part == <<port, os, initialized, mutex, cache, static_netints, table,
              netint_pc, netint_call, seen, retried>>
log_part == <<c_initialized, buf_lock, buffers, log_pc, log_call, strings>>
result_part == <<storage, means>>

PartsInit ==
  /\ part \in part_names
  /\ Init /\ (part # "lifecycle" => caller = l1)
  /\ TimerInit /\ (part # "timer" => ms = 0 /\ interval = 0)
  /\ Net!Init /\ (part # "netints" => port = "linux" /\ os = NoNetwork)
  /\ Tree!Init /\ Pool!Init /\ CLogging!Init /\ Result!Init

PartsNext ==
  /\ UNCHANGED part
  /\ \/ part = "lifecycle" /\ Next
     \/ part # "lifecycle" /\ UNCHANGED vars
  /\ \/ part = "timer" /\ TimerNext
     \/ part # "timer" /\ UNCHANGED timer_vars
  /\ \/ part = "tree" /\ Tree!Next
     \/ part # "tree" /\ UNCHANGED tree_part
  /\ \/ part = "pool" /\ Pool!Next
     \/ part # "pool" /\ UNCHANGED pool_part
  /\ \/ part = "netints" /\ Net!Next
     \/ part # "netints" /\ UNCHANGED net_part
  /\ \/ part = "log" /\ CLogging!Next
     \/ part # "log" /\ UNCHANGED log_part
  /\ \/ part = "results" /\ Result!Next
     \/ part # "results" /\ UNCHANGED result_part

PartsSpec ==
  PartsInit /\ [][PartsNext]_<<part, vars, timer_vars, tree_part, pool_part, net_part,
                               log_part, result_part>>
----
(* The properties of the modules that are instantiated, stated and         *)
(* explained there, each with the types of its part's variables.           *)
IsRedBlack == part = "tree" => Tree!TypeOK /\ Tree!IsRedBlack

DoesAsAsked == Tree!DoesAsAsked

====
