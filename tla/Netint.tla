---- MODULE Netint ----
(***************************************************************************)
(* The cache of network interfaces (src/etcpal/netint.c) over what each    *)
(* port reads from its system (os/*/etcpal/os_netint.c): the addresses of  *)
(* the interfaces and, on Linux and macOS, the routing tables.  A refresh  *)
(* frees and rebuilds the cache in steps under the mutex, while the system *)
(* may change between any two of them; queries take the mutex too.         *)
(*                                                                         *)
(* An address is its family and a number of FullLength bits, a netmask its *)
(* family and length; None is an invalid one.  Index 0 stands for no       *)
(* interface.  Of lwIP this is the build with a static array (the default, *)
(* ETCPAL_EMBOS_USE_MALLOC 0), without and with LWIP_IPV6_SCOPES.          *)
(***************************************************************************)
EXTENDS Naturals, FiniteSets, Sequences

CONSTANTS Threads,
          Systems,     \* states of the system: [addrs, routes, default]
          MaxNetints,  \* ETCPAL_EMBOS_MAX_NETINTS
          FullLength,  \* bits of an address
          Indexes,     \* what queries ask for, 0 for any interface
          MaxRoom,     \* most that an array for the answer has room for
          None

VARIABLES port,
          os,           \* the system now, a member of Systems
          initialized, mutex,
          cache,        \* [netints, num_netints, def]
          static_netints,  \* lwIP: what its array has of each place, [addr, mask]
          table,        \* of each family, [entries, default_route]
          pc, call,     \* of each thread
          seen,         \* what the last enumeration has read of the system
          retried       \* an initialisation has failed before

system == <<port, os>>
vars == <<system, initialized, mutex, cache, static_netints, table, pc, call, seen, retried>>

Families == {"v4", "v6"}
Addresses == 0 .. 2 ^ FullLength - 1
Ips == Families \X Addresses
Masks == Families \X (0 .. FullLength)

RoutingPorts == {"linux", "macos"}
LwipPorts == {"lwip", "lwip scoped"}
StaticPorts == LwipPorts \cup {"mqx"}   \* their arrays of interfaces are there from the start
Ports == RoutingPorts \cup {"windows"} \cup StaticPorts

NoDefault == [f \in Families |-> 0]
NoCache == [netints |-> << >>, num_netints |-> 0, def |-> NoDefault]
Unset == [addr |-> None, mask |-> None]
NoTable == [f \in Families |-> [entries |-> << >>, default_route |-> 0]]
Nothing == [addrs |-> << >>, routes |-> [f \in Families |-> << >>], refused |-> FALSE]

Init ==
  /\ port \in Ports /\ os \in Systems
  /\ initialized = FALSE /\ mutex = None
  /\ cache = NoCache /\ table = NoTable
  /\ static_netints = [k \in 1 .. MaxNetints |-> Unset]
  /\ pc = [t \in Threads |-> "idle"] /\ call = [t \in Threads |-> "none"]
  /\ seen = Nothing /\ retried = FALSE

Goto(t, from, to) == pc[t] = from /\ pc' = [pc EXCEPT ![t] = to]

SystemChanges ==
  /\ os' \in Systems \ {os}
  /\ UNCHANGED <<port, initialized, mutex, cache, static_netints, table, pc, call, seen,
                 retried>>

----
(***************************************************************************)
(* Routing tables.                                                         *)
(***************************************************************************)
Prefix(addr, len) == addr \div 2 ^ (FullLength - len)

\* etcpal_ip_network_portions_equal
SameNetwork(a, b, mask) == Prefix(a, mask) = Prefix(b, mask)

MaskLength(mask) == IF mask = None THEN 0 ELSE mask

\* metric decides on Linux, interface scope on macOS.
Rank(r) == IF port = "linux" THEN r.metric ELSE IF r.scoped THEN 1 ELSE 0

\* A route to everywhere has no RTA_DST, and one over several hops no RTA_OIF.
LinuxEntry(r) ==
  [addr |-> IF r.len = 0 THEN None ELSE r.dst, mask |-> IF r.len = 0 THEN None ELSE r.len,
   gateway |-> r.gateway, index |-> r.oif, rank |-> Rank(r)]

\* The netmask of a route to everywhere has no bytes; a host route has no netmask.
MacosEntry(r) ==
  [addr |-> r.dst, mask |-> IF r.len = 0 THEN None ELSE r.len,
   gateway |-> r.gateway, index |-> r.oif, rank |-> Rank(r)]

TableEntry(r) == IF port = "linux" THEN LinuxEntry(r) ELSE MacosEntry(r)

\* The entries that are taken over
Kept(routes) == {i \in DOMAIN routes : ~routes[i].local}

\* compare_routing_table_entries
Before(e1, e2) ==
  \/ MaskLength(e1.mask) > MaskLength(e2.mask)
  \/ MaskLength(e1.mask) = MaskLength(e2.mask) /\ e1.rank < e2.rank

\* The orders in which qsort may leave what was at some places: it is not stable.
Arrangements(places) ==
  {p \in [1 .. Cardinality(places) -> places] : \A i, j \in DOMAIN p : p[i] = p[j] => i = j}

InOrder(entries) == \A i, j \in DOMAIN entries : i < j => ~Before(entries[j], entries[i])

SortedRoutes(routes) ==
  {entries \in {[k \in DOMAIN p |-> TableEntry(routes[p[k]])] : p \in Arrangements(Kept(routes))} :
     InOrder(entries)}

Least(places) == CHOOSE i \in places : \A j \in places : i <= j

\* The interface of the first entry that a search stops at
FirstIndex(entries, found) == IF found = {} THEN 0 ELSE entries[Least(found)].index

IsDefault(e) == e.addr \in {None, 0} /\ e.mask = None /\ e.gateway

DefaultRoute(entries) ==
  FirstIndex(entries, {k \in DOMAIN entries : IsDefault(entries[k])})

\* With no routes at all macOS reports an error.
MayBuild(f) == port = "linux" \/ Kept(os.routes[f]) # {}

----
(***************************************************************************)
(* The interfaces of each port: which addresses of the system it lists,    *)
(* which interfaces it marks as default, and the defaults it keeps.        *)
(***************************************************************************)
\* lwIP gives an interface no IPv4 address while it waits for one, 0.
Unaddressed(a) == port \in LwipPorts /\ a.family = "v4" /\ a.addr = 0

\* What lwIP does not set stays as the array had it at that place, old: both addresses of an
\* interface that has none, and with scopes the netmask of an IPv6 address.
MaskOf(a, old) ==
  CASE Unaddressed(a) \/ (port = "lwip scoped" /\ a.family = "v6") -> old.mask
    [] port = "lwip" /\ a.family = "v6" -> <<"v6", FullLength>>
    [] OTHER -> <<a.family, a.len>>

\* On Windows an adapter may have another index for IPv6: that is the one to store, but the
\* one for IPv4, if_index, is compared with the default.
IsMarked(a, marked) ==
  /\ marked[a.family] # 0
  /\ marked[a.family] = IF port = "windows" THEN a.if_index ELSE a.index

Entry(a, old, marked) ==
  [index |-> a.index,
   addr |-> IF Unaddressed(a) THEN old.addr ELSE <<a.family, a.addr>>,
   mask |-> MaskOf(a, old),
   is_default |-> IsMarked(a, marked)]

InFamilies == {i \in DOMAIN os.addrs : os.addrs[i].family \in Families}

Place(i) == Cardinality({j \in InFamilies : j <= i})

TableDefaults == [f \in Families |-> table[f].default_route]

LinuxEnumerate == [found |-> InFamilies, marked |-> TableDefaults, def |-> cache.def]

MacosEnumerate ==
  [found |-> {i \in InFamilies : os.addrs[i].up}, marked |-> TableDefaults, def |-> cache.def]

\* GetBestInterfaceEx gives the defaults.
WindowsEnumerate == [found |-> InFamilies, marked |-> os.default, def |-> os.default]

\* Each interface lists an IPv4 address first.  netif_default is the default of a family
\* if the array is not full before the interface comes to that family.
LwipEnumerate ==
  LET reached == [v4 |-> MaxNetints + 1, v6 |-> MaxNetints]
      def == [f \in Families |->
                IF \E i \in InFamilies :
                     /\ Place(i) <= reached[f]
                     /\ os.addrs[i].family = "v4" /\ os.addrs[i].index = os.default["v4"]
                THEN os.default["v4"] ELSE 0]
  IN [found |-> {i \in InFamilies : Place(i) <= MaxNetints}, marked |-> def, def |-> def]

\* There is no IPv6, and the default is fixed by the board.
MqxEnumerate ==
  LET def == [NoDefault EXCEPT !["v4"] = os.default["v4"]]
  IN [found |-> {i \in InFamilies : os.addrs[i].family = "v4"}, marked |-> def, def |-> def]

Enumerated ==
  CASE port = "linux" -> LinuxEnumerate
    [] port = "macos" -> MacosEnumerate
    [] port = "windows" -> WindowsEnumerate
    [] port \in LwipPorts -> LwipEnumerate
    [] port = "mqx" -> MqxEnumerate

ByIndex(netints) == \A i, j \in DOMAIN netints : i < j => netints[i].index <= netints[j].index

\* The array that i is copied to the place of: a new one, but on lwIP
Old(i) == IF port \in LwipPorts THEN static_netints[Place(i)] ELSE Unset

SortedNetints ==
  {netints \in {[k \in DOMAIN p |-> Entry(os.addrs[p[k]], Old(p[k]), Enumerated.marked)] :
                  p \in Arrangements(Enumerated.found)} : ByIndex(netints)}

----
(***************************************************************************)
(* Initialisation, refreshes and the end.  Initialisation takes no lock;   *)
(* until it is over every other call returns kEtcPalErrNotInit.            *)
(***************************************************************************)
Populate == IF port \in RoutingPorts THEN "build" ELSE "enumerate"

CallInit(t) ==
  /\ ~initialized /\ \A u \in Threads : pc[u] = "idle"
  /\ Goto(t, "idle", Populate)
  /\ call' = [call EXCEPT ![t] = "init"]
  /\ UNCHANGED <<system, initialized, mutex, cache, static_netints, table, seen, retried>>

Call(t) ==
  /\ initialized
  /\ Goto(t, "idle", "lock")
  /\ \E op \in {"refresh", "query"} : call' = [call EXCEPT ![t] = op]
  /\ UNCHANGED <<system, initialized, mutex, cache, static_netints, table, seen, retried>>

LockUnchecked(t) ==
  /\ Goto(t, "lock", IF call[t] = "refresh" THEN "clear" ELSE "answer")
  /\ UNCHANGED <<system, initialized, mutex, cache, static_netints, table, call, seen, retried>>

Lock(t) ==
  /\ Goto(t, "lock", IF call[t] = "refresh" THEN "clear" ELSE "answer")
  /\ mutex = None /\ mutex' = t
  /\ UNCHANGED <<system, initialized, cache, static_netints, table, call, seen, retried>>

Return(t) ==
  /\ mutex' = None
  /\ call' = [call EXCEPT ![t] = "none"]

Clear(t) ==
  /\ Goto(t, "clear", Populate)
  /\ cache' = NoCache /\ table' = NoTable /\ seen' = Nothing
  /\ UNCHANGED <<system, initialized, mutex, static_netints, call, retried>>

Build(t) ==
  /\ Goto(t, "build", "enumerate")
  /\ \A f \in Families : MayBuild(f)
  /\ \E entries \in [Families -> UNION {SortedRoutes(os.routes[f]) : f \in Families}] :
       /\ \A f \in Families : entries[f] \in SortedRoutes(os.routes[f])
       /\ table' = [f \in Families |->
                      [entries |-> entries[f], default_route |-> DefaultRoute(entries[f])]]
       /\ cache' = [cache EXCEPT !.def = [f \in Families |->
                      IF DefaultRoute(entries[f]) # 0 THEN DefaultRoute(entries[f]) ELSE @[f]]]
  /\ seen' = [seen EXCEPT !.routes = os.routes]
  /\ UNCHANGED <<system, initialized, mutex, static_netints, call, retried>>

\* The system does not give the routes, or memory runs out.
BuildFails(t) ==
  /\ Goto(t, "build", "idle")
  /\ table' = NoTable
  /\ retried' = (retried \/ call[t] = "init")
  /\ Return(t)
  /\ UNCHANGED <<system, initialized, cache, static_netints, seen>>

\* qsort leaves lwIP's array in order, and the places behind those in use as they were.
Left(netints) ==
  [k \in 1 .. MaxNetints |->
     IF port \in LwipPorts /\ k \in DOMAIN netints
     THEN [addr |-> netints[k].addr, mask |-> netints[k].mask] ELSE static_netints[k]]

\* A successful initialisation opens the module to the other calls.
Enumerate(t) ==
  /\ Goto(t, "enumerate", "idle")
  /\ Enumerated.found # {} \/ port \in LwipPorts
  /\ \E netints \in SortedNetints :
       /\ cache' = [netints |-> netints, num_netints |-> Len(netints), def |-> Enumerated.def]
       /\ static_netints' = Left(netints)
  /\ seen' = [seen EXCEPT !.addrs = os.addrs, !.refused = FALSE]
  /\ initialized' = TRUE
  /\ Return(t)
  /\ UNCHANGED <<system, table, retried>>

\* The system does not list its interfaces: nothing has been counted.
ListingFails == UNCHANGED <<cache, seen>>

NoneFound ==
  /\ Enumerated.found = {}
  /\ cache' = [cache EXCEPT !.num_netints = 0]
  /\ seen' = [seen EXCEPT !.refused = FALSE]

\* Memory runs out for the array of those that were counted; only Windows takes the number
\* back.
AllocationFails ==
  /\ Enumerated.found # {}
  /\ cache' = [cache EXCEPT !.num_netints = IF port = "windows" THEN 0
                                             ELSE Cardinality(Enumerated.found)]
  /\ seen' = [seen EXCEPT !.refused = TRUE]

\* The tables and the defaults found so far stay.
EnumerateFails(t) ==
  /\ Goto(t, "enumerate", "idle")
  /\ port \notin StaticPorts
  /\ ListingFails \/ NoneFound \/ AllocationFails
  /\ retried' = (retried \/ call[t] = "init")
  /\ Return(t)
  /\ UNCHANGED <<system, initialized, static_netints, table>>

Answer(t) ==
  /\ Goto(t, "answer", "idle")
  /\ Return(t)
  /\ UNCHANGED <<system, initialized, cache, static_netints, table, seen, retried>>

Deinit ==
  /\ initialized /\ \A u \in Threads : pc[u] = "idle"
  /\ initialized' = FALSE
  /\ cache' = NoCache /\ table' = NoTable /\ seen' = Nothing
  /\ UNCHANGED <<system, mutex, static_netints, pc, call, retried>>

Next ==
  \/ SystemChanges \/ Deinit
  \/ \E t \in Threads :
       \/ CallInit(t) \/ Call(t) \/ Lock(t) \/ Clear(t) \/ Build(t) \/ BuildFails(t)
       \/ Enumerate(t) \/ EnumerateFails(t) \/ Answer(t)

Spec == Init /\ [][Next]_vars

----
(***************************************************************************)
(* What a query answers while it holds the mutex.                          *)
(***************************************************************************)
\* The n-th of a set of places
Nth(places, n) == CHOOSE i \in places : Cardinality({j \in places : j <= i}) = n

\* Interfaces that have been counted but are not there: netints is NULL
Unallocated == cache.num_netints > Len(cache.netints)

\* get_interfaces, for one index (or any, 0), for one address (or any, None), and into an
\* array of size room.  To look at an interface that is not there ends the program.
Interfaces(index, ip, room) ==
  LET matching == {i \in DOMAIN cache.netints :
                     LET n == cache.netints[i]
                     IN index \in {0, n.index} /\ ip \in {None, n.addr}}
      count == IF Unallocated THEN cache.num_netints ELSE Cardinality(matching)
      got == IF Unallocated THEN 0 ELSE IF count > room THEN room ELSE count
  IN [res |-> IF Unallocated /\ (index # 0 \/ ip # None \/ room > 0) THEN "Crash"
              ELSE IF count = 0 THEN "NotFound" ELSE IF count > room THEN "BufSize" ELSE "Ok",
      netints |-> [n \in 1 .. got |-> cache.netints[Nth(matching, n)]],
      num_netints |-> count]

\* etcpal_netint_get_interface_with_ip: an address that two interfaces have is an error.
InterfaceWithIp(ip) ==
  LET reply == Interfaces(0, ip, 1)
  IN [reply EXCEPT !.res = IF @ = "BufSize" THEN "Sys" ELSE @]

\* etcpal_netint_get_default_interface, 0 when there is none
Default(f) == cache.def[f]

TableLookup(f, dest) ==
  LET entries == table[f].entries
      usable == {k \in DOMAIN entries :
                   /\ entries[k].index > 0 /\ entries[k].mask # None
                   /\ SameNetwork(entries[k].addr, dest, entries[k].mask)}
  IN IF usable = {} THEN table[f].default_route ELSE FirstIndex(entries, usable)

\* lwIP and MQX look for an interface that has dest on its network.
NetintLookup(f, dest) ==
  LET netints == cache.netints
      near == {k \in DOMAIN netints :
                 LET n == netints[k] IN
                 /\ None \notin {n.addr, n.mask} /\ f = n.addr[1] /\ f = n.mask[1]
                 /\ n.mask[2] # 0 /\ SameNetwork(n.addr[2], dest, n.mask[2])}
  IN IF near = {} THEN Default(IF port = "mqx" THEN "v4" ELSE f) ELSE FirstIndex(netints, near)

\* etcpal_netint_get_interface_for_dest; Windows asks the system.
ForDest(f, dest) ==
  IF cache.num_netints = 0 THEN 0
  ELSE IF port \in RoutingPorts THEN TableLookup(f, dest) ELSE NetintLookup(f, dest)

----
\* The kinds of addresses and routes that systems have.  Only on Windows an adapter may have
\* two indexes, index for this address and if_index for its IPv4 ones; only on Linux and
\* macOS addresses of other families are listed too.  A route to everywhere has the
\* destination 0, and one through a gateway names its interface.
Addrs == {a \in [family : Families \cup {"packet"}, index : Nat, if_index : Nat,
                 addr : Addresses, len : 0 .. FullLength, up : BOOLEAN] :
            a.family = "v4" => a.if_index = a.index}

Routes == {r \in [dst : Addresses, len : 0 .. FullLength, gateway : BOOLEAN, oif : Nat,
                  metric : Nat, scoped : BOOLEAN, local : BOOLEAN] :
             /\ r.len = 0 => r.dst = 0
             /\ r.gateway => r.oif > 0}

\* What the cache has of an address
Netints == [index : Nat, addr : Ips \cup {None}, mask : Masks \cup {None}, is_default : BOOLEAN]

Caches == [netints : Seq(Netints), num_netints : Nat, def : [Families -> Nat]]

Readings == [addrs : Seq(Addrs), routes : [Families -> Seq(Routes)], refused : BOOLEAN]

Places == [addr : Ips \cup {None}, mask : Masks \cup {None}]

NetintAssumption ==
  /\ None \notin Threads \cup Nat \cup Ips \cup Masks
  /\ {MaxNetints, FullLength, MaxRoom} \subseteq Nat /\ Indexes \subseteq Nat
  /\ \A s \in Systems :
       /\ s.addrs \in Seq(Addrs)
       /\ s.routes \in [Families -> Seq(Routes)]
       /\ s.default \in [Families -> Nat]

----
(***************************************************************************)
(* The invariant.                                                          *)
(***************************************************************************)
\* Every variable has its type.
TypeOK ==
  /\ port \in Ports /\ os \in Systems
  /\ {initialized, retried} \subseteq BOOLEAN
  /\ mutex \in Threads \cup {None}
  /\ pc \in [Threads -> {"idle", "lock", "clear", "build", "enumerate", "answer"}]
  /\ call \in [Threads -> {"none", "init", "refresh", "query"}]
  /\ cache \in Caches
  /\ static_netints \in [1 .. MaxNetints -> Places]
  /\ \A f \in Families : table[f].default_route \in Nat
  /\ seen \in Readings

Works(t) == pc[t] \notin {"idle", "lock"}

\* A thread past the mutex has it; one that initialises is alone.
OneWorks ==
  \A t \in Threads :
    /\ mutex = t <=> Works(t) /\ call[t] # "init"
    /\ pc[t] = "idle" <=> call[t] = "none"
    /\ pc[t] \in {"clear", "answer"} => call[t] # "init"
    /\ call[t] = "init" => /\ pc[t] \in {"build", "enumerate"} /\ ~initialized
                            /\ \A u \in Threads \ {t} : pc[u] = "idle"
    /\ call[t] \in {"refresh", "query"} => initialized
    /\ pc[t] = "build" => port \in RoutingPorts

----
Members(f) == {f[k] : k \in DOMAIN f}

At(point) == \E t \in Threads : pc[t] = point

\* The addresses of the system that a port lists.
Listed ==
  {i \in DOMAIN seen.addrs :
     LET a == seen.addrs[i] IN
     /\ a.family \in (IF port = "mqx" THEN {"v4"} ELSE Families)
     /\ port = "macos" => a.up
     /\ port \in LwipPorts =>
          Cardinality({j \in 1 .. i : seen.addrs[j].family \in Families}) <= MaxNetints}

\* n is what the cache has of a.  The address of an interface that has none may be any
\* that was at its place before.
Shows(n, a) == n.index = a.index /\ (Unaddressed(a) \/ n.addr = <<a.family, a.addr>>)

\* The interfaces in the cache are those of one enumeration.
CacheIsListed ==
  /\ \E p \in Arrangements(Listed) :
       /\ DOMAIN cache.netints = DOMAIN p
       /\ \A k \in DOMAIN p : Shows(cache.netints[k], seen.addrs[p[k]])
  /\ ByIndex(cache.netints)
  /\ port \in RoutingPorts /\ seen.addrs # << >> => Listed # {}

\* They are counted, but on Linux and macOS after their memory was refused.
CacheIsCounted ==
  /\ Unallocated <=> seen.refused /\ port \in RoutingPorts
  /\ ~Unallocated => cache.num_netints = Len(cache.netints)

\* An address of a Windows adapter that has one index for IPv4 and another for IPv6
Divided(n) ==
  /\ port = "windows"
  /\ \E i \in Listed : seen.addrs[i].if_index # seen.addrs[i].index /\ Shows(n, seen.addrs[i])

MarkedAsDefault ==
  \A n \in Members(cache.netints) :
    n.addr = None \/ Divided(n) \/
    (n.is_default <=> cache.def[n.addr[1]] # 0 /\ cache.def[n.addr[1]] = n.index)

\* The interfaces are marked as default as the cache has it, and as the tables have it where
\* there are any.  (An initialisation that fails may leave a default behind that the next
\* one does not clear.)
DefaultsAgree ==
  ~retried =>
    /\ MarkedAsDefault
    /\ port \in RoutingPorts => cache.def = TableDefaults
    /\ At("build") \/ (~initialized /\ ~At("enumerate")) => cache.def = NoDefault

\* Before an enumeration there are no interfaces, and before the tables are built no routes.
NothingYet ==
  /\ ~initialized \/ At("build") \/ At("enumerate") =>
       cache.netints = << >> /\ seen.addrs = << >>
  /\ initialized /\ At("build") => seen.routes = Nothing.routes

\* The tables are those of one reading of the routes, but after an initialisation that failed.
TablesAreOfOneSystem ==
  \A f \in Families :
    /\ table[f].default_route = DefaultRoute(table[f].entries)
    /\ port \in RoutingPorts /\ (initialized \/ At("enumerate")) =>
         table[f].entries \in SortedRoutes(seen.routes[f])

NetintInv ==
  /\ TypeOK /\ OneWorks /\ CacheIsListed /\ CacheIsCounted /\ DefaultsAgree /\ NothingYet
  /\ TablesAreOfOneSystem

----
(***************************************************************************)
(* What the queries answer.                                                *)
(***************************************************************************)
\* The addresses that a query is for, and those of interfaces that have none: what their
\* entries have instead may match too.
Wanted(index, ip) ==
  {i \in Listed : LET a == seen.addrs[i] IN
     /\ index \in {0, a.index}
     /\ ip = None \/ (~Unaddressed(a) /\ ip = <<a.family, a.addr>>)}

Doubtful(index, ip) ==
  {i \in Listed : Unaddressed(seen.addrs[i]) /\ index \in {0, seen.addrs[i].index} /\ ip # None}

\* A query sees one whole enumeration and never a refresh half done: with room enough it
\* gets every address of the interfaces it asks for, ordered by index, and otherwise
\* learns how many there are; and the addresses marked as default are those of the
\* default interface.  (Excepted are, each by name: on Linux and macOS a cache that memory
\* was refused for, which a query that looks at it crashes on; on lwIP what an interface
\* without an address shows instead; on Windows the mark of an adapter that has two
\* indexes; and a default that an initialisation that fails has left behind, which the next
\* one does not clear.)
QueriesSeeOneEnumeration ==
  At("answer") /\ ~(Unallocated /\ seen.refused) =>
    /\ \A index \in Indexes, ip \in {None} \cup Ips, room \in 0 .. MaxRoom :
         LET reply == Interfaces(index, ip, room)
             wanted == Wanted(index, ip)
             shown == wanted \cup Doubtful(index, ip)
         IN /\ reply.num_netints \in Cardinality(wanted) .. Cardinality(shown)
            /\ reply.res = "NotFound" => wanted = {}
            /\ shown = {} => reply.res = "NotFound"
            /\ reply.res = "Ok" =>
                 /\ \A i \in wanted : \E n \in Members(reply.netints) :
                      Shows(n, seen.addrs[i])
                 /\ \A n \in Members(reply.netints) : \E i \in shown :
                      Shows(n, seen.addrs[i])
                 /\ ByIndex(reply.netints)
    /\ \A ip \in Ips :
         LET res == InterfaceWithIp(ip).res
             having == Wanted(0, ip)
         IN /\ res = "NotFound" => having = {}
            /\ res = "Ok" => Cardinality(having) <= 1
            /\ Doubtful(0, ip) = {} => /\ having = {} => res = "NotFound"
                                       /\ Cardinality(having) = 1 => res = "Ok"
    /\ ~retried => \A n \in Members(cache.netints) :
         n.addr = None \/ Divided(n) \/
         (n.is_default <=> Default(n.addr[1]) # 0 /\ Default(n.addr[1]) = n.index)

\* netint.c:217 -- "Get the network interface that the system will choose when routing an
\* IP packet to the specified destination": of the routes to a destination the longest
\* counts, then the cheaper (or the unscoped), then a gateway; the order in which the
\* system listed them and qsort's treatment of equals do not matter.  (With no interfaces
\* listed the answer is an error; with their memory refused the tables answer all the same.)
RouteIsBest ==
  At("answer") /\ port \in RoutingPorts /\ (seen.addrs # << >> \/ seen.refused) =>
    \A f \in Families, dest \in Addresses :
      LET routes == {seen.routes[f][i] : i \in Kept(seen.routes[f])}
          ways == {r \in routes : r.oif > 0 /\ r.len > 0 /\ SameNetwork(r.dst, dest, r.len)}
          gateways == {r \in routes : r.len = 0 /\ r.gateway}
          best == {r \in ways : \A q \in ways :
                     q.len < r.len \/ (q.len = r.len /\ Rank(r) <= Rank(q))}
          cheapest == {r \in gateways : \A q \in gateways : Rank(r) <= Rank(q)}
      IN ForDest(f, dest) \in
           IF ways # {} THEN {r.oif : r \in best}
           ELSE IF gateways # {} THEN {r.oif : r \in cheapest} ELSE {0}

\* Both: what the queries for interfaces and the one for a route answer.
AnswersAreOfOneSystem == QueriesSeeOneEnumeration /\ RouteIsBest
====
