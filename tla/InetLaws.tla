---- MODULE InetLaws ----
(***************************************************************************)
(* What the functions of Inet owe to each other and to the system, for     *)
(* each question that an instance asks.                                    *)
(***************************************************************************)
EXTENDS Inet

CONSTANTS Hosts, Ips, PortNumbers, Lengths, Macs

VARIABLE question

\* What an address, a port or a MAC address is made of
Bytes(n) == [1 .. n -> 0 .. 255]

AllAddresses ==
  [type : {"v4"}, bytes : Bytes(4), scope : {0}]
    \cup [type : {"v6"}, bytes : Bytes(16), scope : Nat] \cup {Invalid}

InetAssumption ==
  /\ ScopeLimit \in Nat \ {0} /\ ScopeIds \in Seq(Nat \ {0})
  /\ \A i, j \in DOMAIN ScopeIds : ScopeIds[i] = ScopeIds[j] => i = j
  /\ None \notin AllAddresses \cup [family : {"v4", "v6"}, bytes : Bytes(4) \cup Bytes(16)]
  /\ Ips \subseteq AllAddresses /\ PortNumbers \subseteq Bytes(2)
  /\ Macs \subseteq Bytes(6) /\ Lengths \subseteq Nat
  /\ Hosts \subseteq [port : {"linux", "macos", "windows", "lwip", "mqx"}, little : BOOLEAN]

SockAddrs == [ip : Ips, port : PortNumbers]

\* Interfaces that differ in one thing from the first of them, and in two
Interfaces ==
  LET plain == [index |-> 1, addr |-> V4(<<10, 0, 0, 1>>), mask |-> V4(<<255, 0, 0, 0>>),
                mac |-> <<0, 0, 0, 0, 0, 1>>, id |-> <<1>>, friendly_name |-> <<1>>,
                is_default |-> FALSE]
      others == {[plain EXCEPT !.index = 2], [plain EXCEPT !.addr = V6(Zeros(16), 0)],
                 [plain EXCEPT !.mask = V4(<<255, 255, 0, 0>>)],
                 [plain EXCEPT !.mac = <<0, 0, 0, 0, 1, 0>>], [plain EXCEPT !.id = <<2>>],
                 [plain EXCEPT !.friendly_name = <<2>>], [plain EXCEPT !.is_default = TRUE]}
  IN {plain} \cup others \cup {[i EXCEPT !.is_default = TRUE] : i \in others}
       \cup {[i EXCEPT !.mac = <<0, 0, 0, 0, 0, 0>>] : i \in others}

Questions ==
  [about : {"name"}, host : Hosts, sa : SockAddrs]
    \cup [about : {"ip order"}, a : Ips, b : Ips, c : Ips]
    \cup [about : {"sock order"}, a : SockAddrs, b : SockAddrs, c : SockAddrs]
    \cup [about : {"netint order"}, a : Interfaces, b : Interfaces, c : Interfaces]
    \cup [about : {"mask"}, a : Ips, b : Ips, length : Lengths]
    \cup [about : {"mac"}, mac : Macs, other : Macs, cut : 1 .. 17]

Init == question \in Questions

Spec == Init /\ [][UNCHANGED question]_question

About(subject) == question.about = subject

(***************************************************************************)
(* An address and a port that are given to the system come back the same,  *)
(* and in between they name, to the system, what they named to the         *)
(* application, whatever the order of the host's bytes.  A scope id comes  *)
(* back if the system has room for it: of an unsigned long of 64 bits the  *)
(* upper half is lost (linux/os_inet.c:63, windows :65, lwip :76), and MQX *)
(* knows the scopes of its own devices only.                               *)
(***************************************************************************)
ScopeFits(host, scope) ==
  IF host.port = "mqx" THEN scope \in {0} \cup DOMAIN ScopeIds ELSE scope < ScopeLimit

NamesSurvive ==
  About("name") =>
    LET host == question.host
        sa == question.sa
        os == sockaddr_etcpal_to_os(host, sa)
        back == sockaddr_os_to_etcpal(host, os)
        seen(value) == IF host.port = "mqx" THEN value ELSE Swapped(host, value)
    IN IF sa.ip.type = "invalid" THEN os = None
       ELSE /\ back.port = sa.port /\ back.ip.type = sa.ip.type /\ back.ip.bytes = sa.ip.bytes
            /\ ScopeFits(host, sa.ip.scope) => back = sa
            /\ sa.ip.type = "v4" => seen(os.ip.addr) = sa.ip.bytes
            /\ seen(os.port) = sa.port

\* A MAC address that is written is read again, with its colons or without; a text that
\* ends too soon or has another character where a nibble should be is refused.
MacsAreRead ==
  About("mac") =>
    LET text == mac_to_string(question.mac)
        bare == [i \in 1 .. 12 |-> text[i + (i - 1) \div 2]]
        spoilt == [text EXCEPT ![question.cut] = OTHER_CHAR]
    IN /\ string_to_mac(text) = question.mac
       /\ string_to_mac(bare) = question.mac
       /\ string_to_mac(SubSeq(text, 1, question.cut - 1)) = None
       /\ string_to_mac(spoilt) = None

\* Text has no room for a scope id, and is read as the family that it is.
TextsAreRead ==
  About("name") =>
    LET ip == question.sa.ip
    IN FromString(ip_to_string(ip)) = [ip EXCEPT !.scope = 0]

AddressesSurvive == NamesSurvive /\ MacsAreRead /\ TextsAreRead

----
\* One of <, = and > holds, the other operators agree with them, and < is transitive.
TotalOrder(ab, bc, ac) ==
  /\ ab.eq => ~ab.lt /\ ~ab.gt
  /\ ~ab.eq => ab.lt # ab.gt
  /\ ab.ne = ~ab.eq /\ ab.le = (ab.lt \/ ab.eq) /\ ab.ge = (ab.gt \/ ab.eq)
  /\ ab.le /\ bc.le => ac.le
  /\ ab.lt /\ bc.le => ac.lt

(***************************************************************************)
(* inet.h:431-559: the operators order addresses, socket addresses, MAC    *)
(* addresses and interfaces totally, so that they may be keys; invalid     *)
(* addresses come first, then IPv4 (inet.c:198-202).  Addresses that are   *)
(* equal hash alike, but for those that differ in their scope ids.         *)
(***************************************************************************)
OrdersAreTotal ==
  LET q == question IN
  /\ About("ip order") =>
       /\ TotalOrder(IpRelations(q.a, q.b), IpRelations(q.b, q.c), IpRelations(q.a, q.c))
       /\ q.a.type = "invalid" /\ q.b.type # "invalid" => IpRelations(q.a, q.b).lt
       /\ IpRelations(q.a, q.b).eq /\ q.a.scope = q.b.scope => HashIp(q.a) = HashIp(q.b)
  /\ About("sock order") =>
       /\ TotalOrder(SockRelations(q.a, q.b), SockRelations(q.b, q.c), SockRelations(q.a, q.c))
       /\ ip_and_port_equal(q.a, q.b) = SockRelations(q.a, q.b).eq
       /\ SockRelations(q.a, q.b).eq /\ q.a.ip.scope = q.b.ip.scope => HashSock(q.a) = HashSock(q.b)
  /\ About("netint order") =>
       /\ TotalOrder(NetintRelations(q.a, q.b), NetintRelations(q.b, q.c), NetintRelations(q.a, q.c))
       /\ NetintRelations(q.a, q.b).eq = (q.a = q.b)
  /\ About("mac") =>
       LET ab == MacRelations(q.mac, q.other)
       IN TotalOrder(ab, MacRelations(q.other, q.mac), MacRelations(q.mac, q.mac))

(***************************************************************************)
(* A mask of n bits has the length n, up to the width of the addresses,    *)
(* and two addresses are of one network if their first n bits are equal.   *)
(***************************************************************************)
MasksCount ==
  About("mask") =>
    LET a == question.a
        b == question.b
        mask == mask_from_length(a.type, question.length)
        n == AtMost(question.length, 8 * Width(a.type))
        Same(i) == Bit(a.bytes, i) = Bit(b.bytes, i)
    IN a.type # "invalid" =>
         /\ mask_length(mask) = n
         /\ a.type = b.type =>
              (network_portions_equal(a, b, mask) <=> \A i \in 1 .. n : Same(i))
         /\ \A i \in 1 .. mask_length(a) : Bit(a.bytes, i) = 1

\* An address is at most one of these; the wildcards are what set_wildcard makes.
KindsAreDistinct ==
  About("name") =>
    LET ip == question.sa.ip
        kinds == {k \in 1 .. 4 : <<is_link_local(ip), is_loopback(ip), is_multicast(ip),
                                   is_wildcard(ip)>>[k]}
    IN /\ \A k, l \in kinds : k = l
       /\ is_wildcard(ip) <=> ip.type # "invalid" /\ ip_cmp(ip, set_wildcard(ip.type)) = 0

AddressesCompare == OrdersAreTotal /\ MasksCount /\ KindsAreDistinct
====
