---- MODULE SocketOptions ----
(***************************************************************************)
(* The options of a socket (etcpal_setsockopt and etcpal_getsockopt of     *)
(* os/<port>/etcpal/os_socket.c), multicast memberships among them: each   *)
(* port turns EtcPal's option and value into one or more of its system's,  *)
(* or refuses.  Interfaces get, lose and exchange their IPv4 addresses     *)
(* between the calls, by which some ports name an interface.               *)
(***************************************************************************)
EXTENDS Integers

CONSTANTS Ports,
          Indexes,       \* of the interfaces there are
          IndexArgs,     \* that callers name
          Addresses,     \* IPv4 addresses of interfaces, 0 for none
          Values,        \* of options that are numbers
          None

VARIABLES port,
          address,   \* the IPv4 address of each interface
          focus,     \* what this caller sets: an option at its level, or "groups"
          options,   \* the system's options of the socket
          joined,    \* the system's memberships of the socket
          looped,    \* MQX: the loopback interface is in the IPv4 group too
          last,      \* the last call of setsockopt, with its result
          asked,     \* the last value that was set with success
          got        \* the value that getsockopt has returned since

vars == <<port, address, focus, options, joined, looped, last, asked, got>>

\* An index is of one interface and 0 of none; that of a netif of lwIP is a byte.
OptionsAssumption ==
  /\ Ports \subseteq {"linux", "macos", "windows", "lwip", "mqx"}
  /\ Indexes \subseteq Nat \ {0} /\ ("lwip" \in Ports => Indexes \subseteq 1 .. 255)
  /\ Values \subseteq Int
  /\ None \notin Indexes \cup {0} /\ None \notin Addresses \cup {0}

SocketOpts == {"SO_RCVBUF", "SO_SNDBUF", "SO_RCVTIMEO", "SO_SNDTIMEO", "SO_REUSEADDR",
               "SO_REUSEPORT", "SO_BROADCAST", "SO_KEEPALIVE", "SO_LINGER"}
IpOpts == {"IP_TTL", "IP_MULTICAST_IF", "IP_MULTICAST_TTL", "IP_MULTICAST_LOOP", "IP_PKTINFO"}
Ip6Opts == {"IP_MULTICAST_IF", "IP_MULTICAST_TTL", "IP_MULTICAST_LOOP", "IPV6_V6ONLY",
            "IPV6_PKTINFO"}

Options == ({"SOL_SOCKET"} \X SocketOpts) \cup ({"IPPROTO_IP"} \X IpOpts)
             \cup ({"IPPROTO_IPV6"} \X Ip6Opts)

Timeouts == {"SO_RCVTIMEO", "SO_SNDTIMEO"}

\* What a value may be made of, the type its length stands for
Lens == {"char", "int", "linger"}

\* Families of groups; one group of each is enough.
Families == {"v4", "v6"}
LevelOf == [v4 |-> "IPPROTO_IP", v6 |-> "IPPROTO_IPV6"]

Member(family, ifindex) == [family |-> family, ifindex |-> ifindex]

GroupFocus == <<"groups", "groups">>

NoCall == [kind |-> "none"]

Init ==
  /\ port \in Ports
  /\ address \in [Indexes -> Addresses]
  /\ \A i, j \in Indexes : address[i] = address[j] => i = j \/ address[i] = 0
  /\ focus \in Options \cup {GroupFocus}
  /\ options = [o \in Options |-> None]
  /\ joined = {} /\ looped = FALSE
  /\ last = NoCall /\ asked = None /\ got = None

----
(***************************************************************************)
(* The tables of the ports: the options they hand on and the lengths they  *)
(* insist on.                                                              *)
(***************************************************************************)
AnyLen == Lens
AnInt == {"int"}
ALinger == {"linger"}

linux_socket ==
  [SO_RCVBUF |-> AnyLen, SO_SNDBUF |-> AnyLen, SO_RCVTIMEO |-> AnInt, SO_SNDTIMEO |-> AnInt,
   SO_REUSEADDR |-> AnyLen, SO_REUSEPORT |-> AnyLen, SO_BROADCAST |-> AnyLen, SO_KEEPALIVE |-> AnyLen,
   SO_LINGER |-> ALinger]

linux_ip ==
  [IP_TTL |-> AnyLen, IP_MULTICAST_IF |-> AnInt, IP_MULTICAST_TTL |-> AnyLen,
   IP_MULTICAST_LOOP |-> AnyLen, IP_PKTINFO |-> AnyLen]

linux_ip6 ==
  [IP_MULTICAST_IF |-> AnyLen, IP_MULTICAST_TTL |-> AnyLen, IP_MULTICAST_LOOP |-> AnyLen,
   IPV6_V6ONLY |-> AnyLen, IPV6_PKTINFO |-> AnyLen]

macos_socket == linux_socket
macos_ip == linux_ip
macos_ip6 == linux_ip6

windows_socket ==
  [SO_RCVBUF |-> AnyLen, SO_SNDBUF |-> AnyLen, SO_RCVTIMEO |-> AnInt, SO_SNDTIMEO |-> AnInt,
   SO_REUSEADDR |-> AnInt, SO_BROADCAST |-> AnInt, SO_KEEPALIVE |-> AnInt, SO_LINGER |-> ALinger]

windows_ip ==
  [IP_TTL |-> AnInt, IP_MULTICAST_IF |-> AnInt, IP_MULTICAST_TTL |-> AnInt,
   IP_MULTICAST_LOOP |-> AnInt, IP_PKTINFO |-> AnInt]

windows_ip6 ==
  [IP_MULTICAST_IF |-> AnInt, IP_MULTICAST_TTL |-> AnInt, IP_MULTICAST_LOOP |-> AnInt,
   IPV6_V6ONLY |-> AnInt, IPV6_PKTINFO |-> AnInt]

lwip_socket == linux_socket

lwip_ip ==
  [IP_TTL |-> AnyLen, IP_MULTICAST_IF |-> AnInt, IP_MULTICAST_TTL |-> AnInt,
   IP_MULTICAST_LOOP |-> AnInt, IP_PKTINFO |-> AnyLen]

lwip_ip6 == [IPV6_V6ONLY |-> AnyLen]

\* MQX takes what is at least as long as an int.
AtLeastInt == {"int", "linger"}

mqx_socket ==
  [SO_RCVBUF |-> AtLeastInt, SO_SNDBUF |-> AtLeastInt, SO_RCVTIMEO |-> AtLeastInt,
   SO_SNDTIMEO |-> AtLeastInt]

mqx_ip == [IP_TTL |-> AnyLen]

Refused == [o \in {} |-> {}]

Table(level) ==
  CASE port = "linux"   -> [SOL_SOCKET |-> linux_socket, IPPROTO_IP |-> linux_ip,
                            IPPROTO_IPV6 |-> linux_ip6][level]
    [] port = "macos"   -> [SOL_SOCKET |-> macos_socket, IPPROTO_IP |-> macos_ip,
                            IPPROTO_IPV6 |-> macos_ip6][level]
    [] port = "windows" -> [SOL_SOCKET |-> windows_socket, IPPROTO_IP |-> windows_ip,
                            IPPROTO_IPV6 |-> windows_ip6][level]
    [] port = "lwip"    -> [SOL_SOCKET |-> lwip_socket, IPPROTO_IP |-> lwip_ip,
                            IPPROTO_IPV6 |-> lwip_ip6][level]
    [] port = "mqx"     -> [SOL_SOCKET |-> mqx_socket, IPPROTO_IP |-> mqx_ip,
                            IPPROTO_IPV6 |-> Refused][level]

FallsThroughAnywhere(name, len) ==
  name \in {"IP_MULTICAST_TTL", "IP_MULTICAST_LOOP"} /\ len # "int"

\* The cases for multicast of lwIP's setsockopt_ip have no break behind their check.
FallsThrough(name, len) ==
  port = "lwip" /\ name \in {"IP_MULTICAST_TTL", "IP_MULTICAST_LOOP"} /\ len # "int"

\* The option the system is asked to set, None if it is not asked
Target(level, name, len) ==
  CASE level = "IPPROTO_IP" /\ FallsThrough(name, len) -> "IP_PKTINFO"
    [] name \in DOMAIN Table(level) /\ len \in Table(level)[name] -> name
    [] OTHER -> None

----
(***************************************************************************)
(* Values: milliseconds become a timeval, where the system has those; an   *)
(* interface becomes its address, by which the system finds it again.      *)
(***************************************************************************)
Quotient(a, b) == IF a < 0 THEN -((-a) \div b) ELSE a \div b
Remainder(a, b) == a - b * Quotient(a, b)

ms_to_timeval(ms) == [sec |-> Quotient(ms, 1000), usec |-> Remainder(ms, 1000) * 1000]
timeval_to_ms(tv) == tv.sec * 1000 + Quotient(tv.usec, 1000)

HasTimeval == port \in {"linux", "macos", "lwip"}

\* (unsigned char) of an int
Byte(v) == v % 256

Native(level, name, v) ==
  CASE name \in Timeouts /\ HasTimeval -> ms_to_timeval(v)
    [] port = "lwip" /\ name \in {"IP_MULTICAST_TTL", "IP_MULTICAST_LOOP"} -> Byte(v)
    [] port = "mqx" /\ name = "IP_TTL" -> Byte(v)
    [] OTHER -> v

\* What a system that keeps a timeval refuses
OutOfRange(level, name, v) ==
  name \in Timeouts /\ HasTimeval /\ Native(level, name, v).usec < 0

----
(***************************************************************************)
(* Interfaces.  The system keeps a membership by its interface, also when  *)
(* the call named that by an address; 0 stands for the one it chooses.     *)
(***************************************************************************)
\* ip4_ifindex_to_addr, of a name and an address the interface must have
AddressOfNamed(i) == IF i \in Indexes /\ address[i] # 0 THEN address[i] ELSE None

\* netif_index_to_ipv4_addr looks the index up as a byte and takes an address of 0.
AddressOfNetif(i) == IF Byte(i) \in Indexes THEN address[Byte(i)] ELSE None

\* MQX: ipcfg_get_ip of a bound interface, or the wildcard
AddressOfIpcfg(i) ==
  CASE i = 0 -> 0
    [] i \in Indexes /\ address[i] # 0 -> address[i]
    [] OTHER -> None

\* The system's search for the interface that has this address now
WithAddress(a) ==
  CASE a = 0 -> 0
    [] a # 0 /\ (\E i \in Indexes : address[i] = a) ->
         CHOOSE i \in Indexes : address[i] = a
    [] OTHER -> None

ByAddress(a) == IF a = None THEN None ELSE WithAddress(a)
ByIndex(i) == IF i \in Indexes \cup {0} THEN i ELSE None

\* The interface on which the system joins or leaves a group, None if it does not
linux_interface(family, i) == ByIndex(i)
macos_interface(family, i) == IF family = "v4" THEN ByAddress(AddressOfNamed(i)) ELSE ByIndex(i)
windows_interface(family, i) == ByIndex(i)
lwip_interface(family, i) == IF family = "v4" THEN ByAddress(AddressOfNetif(i)) ELSE ByIndex(i)
mqx_interface(family, i) == IF family = "v4" THEN ByAddress(AddressOfIpcfg(i)) ELSE ByIndex(i)

Interface(family, i) ==
  CASE port = "linux" -> linux_interface(family, i)
    [] port = "macos" -> macos_interface(family, i)
    [] port = "windows" -> windows_interface(family, i)
    [] port = "lwip" -> lwip_interface(family, i)
    [] port = "mqx" -> mqx_interface(family, i)

\* The interface that IP_MULTICAST_IF sets, None if it sets none
Outgoing(family, i) ==
  CASE port \in {"linux", "macos"} /\ family = "v4" -> ByAddress(AddressOfNamed(i))
    [] port = "lwip" /\ family = "v4" -> ByAddress(AddressOfNetif(i))
    [] OTHER -> ByIndex(i)

----
Call(kind, level, name, value) ==
  [kind |-> kind, level |-> level, name |-> name, value |-> value]

Succeed(call) ==
  /\ last' = call
  /\ asked' = call.value /\ got' = None
  /\ UNCHANGED <<port, address, focus>>

\* The port or the system refuses: errno becomes the result.
Refuse ==
  /\ last' = NoCall /\ got' = None
  /\ UNCHANGED <<port, address, focus, options, joined, looped, asked>>

\* setsockopt with an option whose value is a number
SetValue(level, name, v, len) ==
  LET target == Target(level, name, len) IN
  /\ level # "groups" /\ name # "IP_MULTICAST_IF"
  /\ \/ /\ target # None /\ ~OutOfRange(level, target, v)
        /\ options' = [options EXCEPT ![<<level, target>>] = Native(level, target, v)]
        /\ Succeed(Call("set", level, name, v))
        /\ UNCHANGED <<joined, looped>>
     \/ Refuse

\* MQX reports success for these and asks the system nothing.
SetNothing(level, name, v) ==
  /\ port = "mqx" /\ name \in {"SO_REUSEADDR", "SO_REUSEPORT"}
  /\ Succeed(Call("nothing", level, name, v))
  /\ UNCHANGED <<options, joined, looped>>

SetInterface(family, i, len) ==
  LET level == LevelOf[family]
      ifindex == Outgoing(family, i) IN
  /\ focus = <<level, "IP_MULTICAST_IF">>
  /\ \/ /\ Target(level, "IP_MULTICAST_IF", len) # None /\ ifindex # None
        /\ options' = [options EXCEPT ![focus] = ifindex]
        /\ Succeed(Call("set", level, "IP_MULTICAST_IF", i))
        /\ UNCHANGED <<joined, looped>>
     \/ Refuse

JoinAt(member) == member \notin joined /\ joined' = joined \cup {member}
LeaveAt(member) == member \in joined /\ joined' = joined \ {member}

\* join_leave_mcast_group_ipv4 of MQX has the loopback interface join and leave as well.
Loops(family, join) == looped' = IF port = "mqx" /\ family = "v4" THEN join ELSE looped

\* The groups' calls; the system refuses those that come twice.
Joined(family, ifindex, call) ==
  /\ focus = GroupFocus
  /\ ifindex # None /\ JoinAt(Member(family, ifindex)) /\ Loops(family, TRUE)
  /\ Succeed(call) /\ UNCHANGED options

Left(family, ifindex, call) ==
  /\ focus = GroupFocus
  /\ ifindex # None /\ LeaveAt(Member(family, ifindex)) /\ Loops(family, FALSE)
  /\ Succeed(call) /\ UNCHANGED options

\* ETCPAL_MCAST_JOIN_GROUP
JoinGroup(family, i) ==
  Joined(family, Interface(family, i), Call("join", LevelOf[family], family, i))

\* ETCPAL_MCAST_LEAVE_GROUP, and setsockopt_ip6 of lwIP, which hands the system
\* IPV6_JOIN_GROUP for a leave as well
LeaveGroup(family, i) ==
  LET call == Call("leave", LevelOf[family], family, i) IN
  IF port = "lwip" /\ family = "v6" THEN Joined(family, Interface(family, i), call)
  ELSE Left(family, Interface(family, i), call)

\* ETCPAL_IP_ADD_MEMBERSHIP and ETCPAL_IP_DROP_MEMBERSHIP, by an address
AddMembership(a) ==
  Joined("v4", WithAddress(a), Call("join", "IPPROTO_IP", "v4", WithAddress(a)))

DropMembership(a) ==
  Left("v4", WithAddress(a), Call("leave", "IPPROTO_IP", "v4", WithAddress(a)))

GroupRefused == focus = GroupFocus /\ Refuse

\* An interface gets another address, or loses the one it has.
ChangeAddress(i, a) ==
  /\ address[i] # a /\ (a # 0 => \A j \in Indexes : address[j] # a)
  /\ focus[2] \in {"groups", "IP_MULTICAST_IF"}
  /\ address' = [address EXCEPT ![i] = a]
  /\ last' = NoCall
  /\ UNCHANGED <<port, focus, options, joined, looped, asked, got>>

----
(***************************************************************************)
(* getsockopt_socket, of the two options it reads.  Linux keeps twice the  *)
(* size of a buffer.                                                       *)
(***************************************************************************)
SystemValue(level, name) ==
  IF port = "linux" /\ name = "SO_SNDBUF" THEN options[<<level, name>>] * 2
  ELSE options[<<level, name>>]

Got(level, name) ==
  CASE name = "SO_SNDTIMEO" /\ HasTimeval -> timeval_to_ms(SystemValue(level, name))
    [] port = "linux" /\ name = "SO_SNDBUF" -> Quotient(SystemValue(level, name), 2)
    [] OTHER -> SystemValue(level, name)

GetValue(level, name) ==
  /\ port \in {"linux", "macos", "windows"} /\ name \in {"SO_SNDBUF", "SO_SNDTIMEO"}
  /\ options[focus] # None
  /\ got' = Got(level, name)
  /\ last' = NoCall
  /\ UNCHANGED <<port, address, focus, options, joined, looped, asked>>

Next ==
  \/ \E v \in Values, len \in Lens : SetValue(focus[1], focus[2], v, len)
  \/ \E v \in Values : SetNothing(focus[1], focus[2], v)
  \/ \E family \in Families, i \in IndexArgs, len \in Lens : SetInterface(family, i, len)
  \/ \E family \in Families, i \in IndexArgs : JoinGroup(family, i) \/ LeaveGroup(family, i)
  \/ \E a \in Addresses : AddMembership(a) \/ DropMembership(a)
  \/ GroupRefused
  \/ \E i \in Indexes, a \in Addresses : ChangeAddress(i, a)
  \/ GetValue(focus[1], focus[2])

Spec == Init /\ [][Next]_vars

----
\* Every variable has its type.
TypeOK ==
  /\ port \in Ports
  /\ address \in [Indexes -> Addresses]
  /\ \A m \in joined : m.family \in Families /\ m.ifindex \in Indexes \cup {0}
  /\ looped \in BOOLEAN
  /\ last # NoCall => last.kind \in {"set", "nothing", "join", "leave"}

\* What a call that succeeded was to do, and nothing else changed.
Done(call) ==
  CASE call.kind = "join" ->
         joined' = joined \cup {Member(call.name, call.value)} /\ options' = options
    [] call.kind = "leave" ->
         joined' = joined \ {Member(call.name, call.value)} /\ options' = options
    [] call.kind = "set" ->
         /\ joined' = joined
         /\ options' = [options EXCEPT ![<<call.level, call.name>>] =
                          Native(call.level, call.name, call.value)]
    [] OTHER -> joined' = joined /\ options' = options

\* Where lwIP's port goes wrong: a value of the wrong length for two options, a group
\* of IPv6 to leave, an index beyond a byte, and an interface without address.
Misunderstood(call) ==
  /\ port = "lwip"
  /\ \/ call.name \in {"IP_MULTICAST_TTL", "IP_MULTICAST_LOOP"}
     \/ call.kind = "leave" /\ call.name = "v6"
     \/ call.level = "IPPROTO_IP" /\ call.value \in IndexArgs /\ call.value # 0
        /\ (call.value \notin Indexes \/ address[call.value] = 0)

\* A call of setsockopt that succeeds does what was asked, of the option that was named
\* and the interface that has the index, whatever happened to the interfaces'
\* addresses; one that fails does nothing.
SetsWhatWasNamed ==
  [][(last' # NoCall => ~Misunderstood(last')) => Done(last')]_vars

\* What getsockopt returns is what setsockopt was given, through timeval and Linux's
\* doubling.
GetsWhatWasSet == got # None => got = asked

\* What is read back, and what is left for the system, is what the application set.
OptionsAreKept == []GetsWhatWasSet /\ SetsWhatWasNamed

\* An address is that of one interface, and the system has what was set last of an
\* option that can be read.
SystemHas(name) ==
  LET option == <<"SOL_SOCKET", name>> IN
  focus = option /\ port \in {"linux", "macos", "windows"} /\ options[option] # None =>
    /\ asked \in Values
    /\ options[option] = Native("SOL_SOCKET", name, asked)

\* What OptionsAreKept rests on.
OptionsInv ==
  /\ TypeOK
  /\ \A i, j \in Indexes : address[i] = address[j] => i = j \/ address[i] = 0
  /\ focus \in Options \cup {GroupFocus} /\ DOMAIN options = Options
  /\ SystemHas("SO_SNDBUF") /\ SystemHas("SO_SNDTIMEO")
  /\ GetsWhatWasSet

\* socket.h:127 and 131 -- a group that was left is not joined any more.
LeftIsLeft ==
  last.kind = "leave" => Member(last.name, last.value) \notin joined
====
