---- MODULE Inet ----
(***************************************************************************)
(* Addresses (src/etcpal/inet.c, include/etcpal/inet.h and cpp/inet.h) and *)
(* their conversion to and from the system's (os/<port>/etcpal/os_inet.c). *)
(*                                                                         *)
(* The value of an IPv4 address or of a port is its bytes, the most        *)
(* significant first; an address that is not valid has none.  A text is    *)
(* the family and the bytes that inet_pton reads in it.                    *)
(***************************************************************************)
EXTENDS Integers, Sequences, FiniteSetsExt

Sx == INSTANCE SequencesExt

CONSTANTS ScopeIds,    \* MQX: the stack's scope id of each device
          ScopeLimit,  \* how many scope ids the 32 bits of the systems' addresses tell apart
          None

V4(bytes) == [type |-> "v4", bytes |-> bytes, scope |-> 0]
V6(bytes, scope) == [type |-> "v6", bytes |-> bytes, scope |-> scope]
Invalid == [type |-> "invalid", bytes |-> << >>, scope |-> 0]

Width(type) == IF type = "v4" THEN 4 ELSE 16

Zeros(n) == [i \in 1 .. n |-> 0]

----
(***************************************************************************)
(* What kind of address it is.                                             *)
(***************************************************************************)
is_link_local(ip) ==
  \/ ip.type = "v4" /\ ip.bytes[1] = 169 /\ ip.bytes[2] = 254
  \/ ip.type = "v6" /\ ip.bytes[1] = 254 /\ ip.bytes[2] \div 64 = 2

is_loopback(ip) ==
  \/ ip.type = "v4" /\ ip.bytes[1] = 127
  \/ ip.type = "v6" /\ ip.bytes = [Zeros(16) EXCEPT ![16] = 1]

is_multicast(ip) ==
  \/ ip.type = "v4" /\ ip.bytes[1] \in 224 .. 239
  \/ ip.type = "v6" /\ ip.bytes[1] = 255

is_wildcard(ip) == ip.type # "invalid" /\ ip.bytes = Zeros(Width(ip.type))

set_wildcard(type) ==
  CASE type = "v4" -> V4(Zeros(4))
    [] type = "v6" -> V6(Zeros(16), 0)
    [] OTHER -> Invalid

----
(***************************************************************************)
(* Comparisons: negative, zero or positive.                                *)
(***************************************************************************)
Sign(m, n) == IF m < n THEN -1 ELSE IF m > n THEN 1 ELSE 0

\* The first of some comparisons that tells two things apart
FirstDifference(results) ==
  LET telling == {i \in DOMAIN results : results[i] # 0}
  IN IF telling = {} THEN 0 ELSE results[Min(telling)]

memcmp(p, q) == FirstDifference([i \in DOMAIN p |-> Sign(p[i], q[i])])

TypeValue == [invalid |-> 0, v4 |-> 1, v6 |-> 2]

\* etcpal_ip_cmp, which leaves the scope id out
ip_cmp(a, b) ==
  IF a.type # b.type THEN TypeValue[a.type] - TypeValue[b.type] ELSE memcmp(a.bytes, b.bytes)

ip_and_port_equal(a, b) == ip_cmp(a.ip, b.ip) = 0 /\ a.port = b.port

netint_info_cmp(a, b) ==
  FirstDifference(<<Sign(a.index, b.index), ip_cmp(a.addr, b.addr), ip_cmp(a.mask, b.mask),
                    memcmp(a.mac, b.mac), memcmp(a.id, b.id),
                    memcmp(a.friendly_name, b.friendly_name),
                    IF a.is_default = b.is_default THEN 0 ELSE IF a.is_default THEN 1 ELSE -1>>)

\* The six operators, from whether a = b, a < b and b < a
Relations(equal, less, greater) ==
  [eq |-> equal, ne |-> ~equal, lt |-> less, gt |-> greater, le |-> ~greater, ge |-> ~less]

IpRelations(a, b) == Relations(ip_cmp(a, b) = 0, ip_cmp(a, b) < 0, ip_cmp(b, a) < 0)

MacRelations(a, b) == Relations(memcmp(a, b) = 0, memcmp(a, b) < 0, memcmp(b, a) < 0)

NetintRelations(a, b) ==
  Relations(netint_info_cmp(a, b) = 0, netint_info_cmp(a, b) < 0, netint_info_cmp(b, a) < 0)

AddressOrPort(a, b) == ip_cmp(a.ip, b.ip) < 0 \/ memcmp(a.port, b.port) < 0

\* A socket address is ordered by its port first.
SockLess(a, b) ==
  IF a.port = b.port THEN ip_cmp(a.ip, b.ip) < 0 ELSE memcmp(a.port, b.port) < 0

SockRelations(a, b) ==
  Relations(ip_cmp(a.ip, b.ip) = 0 /\ a.port = b.port, SockLess(a, b), SockLess(b, a))

\* std::hash, as what it combines
HashIp(ip) ==
  <<IF ip.type = "v6" THEN Append(ip.bytes, ip.scope) ELSE ip.bytes, TypeValue[ip.type]>>

HashSock(sa) == <<HashIp(sa.ip), sa.port>>

----
(***************************************************************************)
(* Network masks.                                                          *)
(***************************************************************************)
Weights == <<128, 64, 32, 16, 8, 4, 2, 1>>

BitOf(byte, i) == (byte \div Weights[i]) % 2

Bit(bytes, i) == BitOf(bytes[((i - 1) \div 8) + 1], ((i - 1) % 8) + 1)

\* The bits that are set before the first that is not, from bit first to bit last
SetFrom(bytes, first, last) ==
  LET unset == {i \in first .. last : Bit(bytes, i) = 0}
  IN IF unset = {} THEN last - first + 1 ELSE Min(unset) - first

\* etcpal_ip_mask_length; of IPv6, whole bytes first
mask_length(ip) ==
  CASE ip.type = "v4" -> SetFrom(ip.bytes, 1, 32)
    [] ip.type = "v6" ->
         LET rest == {i \in 1 .. 16 : ip.bytes[i] # 255}
             full == Min(rest) - 1
         IN IF rest = {} THEN 128 ELSE 8 * full + SetFrom(ip.bytes, 8 * full + 1, 8 * full + 8)
    [] OTHER -> 0

AtMost(n, limit) == IF n > limit THEN limit ELSE n

\* A byte with its n most significant bits set
TopBits(n) == 256 - Weights[n]

MaskBytes(n, width) ==
  [i \in 1 .. width |-> IF 8 * i <= n THEN 255
                        ELSE IF 8 * (i - 1) < n THEN TopBits(n - 8 * (i - 1)) ELSE 0]

\* etcpal_ip_mask_from_length
mask_from_length(type, n) ==
  CASE type = "v4" -> V4(MaskBytes(AtMost(n, 32), 4))
    [] type = "v6" -> V6(MaskBytes(AtMost(n, 128), 16), 0)
    [] OTHER -> Invalid

Masked(byte, mask) == [i \in 1 .. 8 |-> BitOf(byte, i) * BitOf(mask, i)]

\* etcpal_ip_network_portions_equal
network_portions_equal(a, b, mask) ==
  /\ a.type = b.type /\ a.type = mask.type /\ a.type # "invalid"
  /\ \A i \in 1 .. Width(a.type) :
       Masked(a.bytes[i], mask.bytes[i]) = Masked(b.bytes[i], mask.bytes[i])

----
(***************************************************************************)
(* Text.  A MAC address is written in nibbles and colons.                  *)
(***************************************************************************)
ip_to_string(ip) == IF ip.type = "invalid" THEN None ELSE [family |-> ip.type, bytes |-> ip.bytes]

string_to_ip(type, text) ==
  IF text = None \/ type = "invalid" \/ text.family # type THEN None
  ELSE IF type = "v4" THEN V4(text.bytes) ELSE V6(text.bytes, 0)

\* IpAddr::FromString, which does not say whether it succeeded
FromString(text) ==
  IF string_to_ip("v4", text) # None THEN string_to_ip("v4", text)
  ELSE IF string_to_ip("v6", text) # None THEN string_to_ip("v6", text)
  ELSE Invalid

COLON == 16
OTHER_CHAR == 17
END == 18

mac_to_string(mac) ==
  [i \in 1 .. 17 |-> LET byte == mac[(i + 2) \div 3] IN
                     CASE i % 3 = 1 -> byte \div 16 [] i % 3 = 2 -> byte % 16 [] OTHER -> COLON]

Char(text, i) == IF i <= Len(text) THEN text[i] ELSE END

\* etcpal_string_to_mac: a colon may follow any nibble, and what follows the twelfth
\* is not looked at.
string_to_mac(text) ==
  LET At[k \in 1 .. 12] ==  \* where nibble k is, 0 if there is none
        IF k = 1 THEN 1
        ELSE LET before == At[k - 1] IN
             IF before = 0 \/ Char(text, before) > 15 THEN 0
             ELSE IF Char(text, before + 1) = COLON THEN before + 2 ELSE before + 1
      last == At[12]
  IN IF last = 0 \/ Char(text, last) > 15 THEN None
     ELSE [i \in 1 .. 6 |-> 16 * text[At[2 * i - 1]] + text[At[2 * i]]]

----
(***************************************************************************)
(* The system's addresses.  Its integers are in network order, that is to  *)
(* say, their bytes in memory are those of the value with the most         *)
(* significant first; on MQX they are in the order of the host, and scope  *)
(* ids are its own.  Elsewhere they are cut to 32 bits, which is less than *)
(* EtcPal's unsigned long (inet.h:87) where that is of 64.  A host is a    *)
(* port and whether it is little-endian.                                   *)
(***************************************************************************)
\* htonl, htons, ntohl and ntohs
Swapped(host, value) == IF host.little THEN Sx!Reverse(value) ELSE value

HostOrder(host, value) == value

NetworkOrder(host, value) == IF host.port = "mqx" THEN value ELSE Swapped(host, value)

\* On MQX, ipcfg6_get_scope_id
ScopeToOs(host, scope) ==
  IF host.port # "mqx" THEN scope % ScopeLimit
  ELSE IF scope \in DOMAIN ScopeIds THEN ScopeIds[scope] ELSE 0

ScopeFromOs(host, scope) ==
  IF host.port # "mqx" THEN scope
  ELSE IF scope = 0 \/ \A i \in DOMAIN ScopeIds : ScopeIds[i] # scope THEN 0
  ELSE CHOOSE i \in DOMAIN ScopeIds :
         ScopeIds[i] = scope /\ \A j \in 1 .. i - 1 : ScopeIds[j] # scope

ip_etcpal_to_os(host, ip) ==
  CASE ip.type = "v4" -> [family |-> "inet", addr |-> NetworkOrder(host, ip.bytes), scope |-> 0]
    [] ip.type = "v6" -> [family |-> "inet6", addr |-> ip.bytes, scope |-> ScopeToOs(host, ip.scope)]
    [] OTHER -> None

ip_os_to_etcpal(host, os) ==
  CASE os.family = "inet" -> V4(NetworkOrder(host, os.addr))
    [] os.family = "inet6" -> V6(os.addr, ScopeFromOs(host, os.scope))
    [] OTHER -> None

sockaddr_etcpal_to_os(host, sa) ==
  IF sa.ip.type = "invalid" THEN None
  ELSE [ip |-> ip_etcpal_to_os(host, sa.ip), port |-> NetworkOrder(host, sa.port)]

sockaddr_os_to_etcpal(host, os) ==
  IF ip_os_to_etcpal(host, os.ip) = None THEN None
  ELSE [ip |-> ip_os_to_etcpal(host, os.ip), port |-> NetworkOrder(host, os.port)]
====
