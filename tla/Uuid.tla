---------------------------------- MODULE Uuid ----------------------------------
(***************************************************************************)
(* UUIDs: uuid.c, the ports' os_uuid.c and the C++ class Uuid.  A UUID is  *)
(* its 16 bytes.  Each question that an instance asks is an initial state; *)
(* the functions keep nothing between calls.                               *)
(*                                                                         *)
(* Hash algorithms and the systems' generators are not in the repository   *)
(* or third parties': an instance names the digests and UUIDs they give.   *)
(***************************************************************************)
EXTENDS Integers, Sequences, FiniteSets

CONSTANTS Uuids,      \* UUIDs to write, read and compare
          Digests,    \* what MD5 and SHA-1 may give
          Generated,  \* what each generator of the systems gives, at one time and another
          Strings,    \* device strings, each a sequence of characters without NUL
          Macs,
          Numbers,    \* uuid_num, as its 4 bytes, the most significant first
          None        \* an error, or false

VARIABLE question

UUID_BYTES == 16
DEV_STR_MAX_LEN == 32

kEtcPalNullUuid == [i \in 1 .. UUID_BYTES |-> 0]

----
(* Characters: 0 to 15 are the digits 0-9a-f, 26 to 31 are A-F.            *)
HYPHEN == 32
OTHER_CHAR == 33

Upper(str) == [k \in DOMAIN str |-> IF str[k] \in 10 .. 15 THEN str[k] + 16 ELSE str[k]]

Digit(ch) == IF ch \in 26 .. 31 THEN ch - 16 ELSE ch

IsDigit(ch) == ch \in 0 .. 15 \cup 26 .. 31

\* The 32 digits, two of each byte
Nibbles(uuid) ==
  [k \in 1 .. 2 * UUID_BYTES |-> IF k % 2 = 1 THEN uuid[(k + 1) \div 2] \div 16
                                              ELSE uuid[k \div 2] % 16]

\* Where each of them stands, with a hyphen after the 8th, 12th, 16th and 20th
Place == [k \in 1 .. 2 * UUID_BYTES |->
            k + (IF k > 8 THEN 1 ELSE 0) + (IF k > 12 THEN 1 ELSE 0)
              + (IF k > 16 THEN 1 ELSE 0) + (IF k > 20 THEN 1 ELSE 0)]

etcpal_uuid_to_string(uuid) ==
  [p \in 1 .. 36 |-> IF \E k \in DOMAIN Place : Place[k] = p
                     THEN Nibbles(uuid)[CHOOSE k \in DOMAIN Place : Place[k] = p]
                     ELSE HYPHEN]

\* The n-th of a set of numbers
Nth(S, n) == CHOOSE k \in S : Cardinality({j \in S : j <= k}) = n

\* Characters that are no digits are passed over, wherever they are; what follows the
\* last byte is not looked at.
etcpal_string_to_uuid(str) ==
  LET digits == {k \in DOMAIN str : IsDigit(str[k])}
      nibble(n) == Digit(str[Nth(digits, n)])
  IN IF Cardinality(digits) < 2 * UUID_BYTES THEN None
     ELSE [i \in 1 .. UUID_BYTES |-> 16 * nibble(2 * i - 1) + nibble(2 * i)]

----
\* The mutant sets the variant in the byte before.
FlagsOfOneByte(hash, version) ==
  [i \in 1 .. UUID_BYTES |-> CASE i = 7 -> 16 * version + (hash[7] % 16)
                               [] i = 8 -> 128 + (hash[8] % 64)
                               [] OTHER -> hash[i]]

WithFlags(hash, version) ==
  [i \in 1 .. UUID_BYTES |-> CASE i = 7 -> 16 * version + (hash[7] % 16)
                               [] i = 9 -> 128 + (hash[9] % 64)
                               [] OTHER -> hash[i]]

\* md5 and sha1 are the digests of the namespace followed by the name.
etcpal_generate_v3_uuid(md5, name) == IF name = << >> THEN None ELSE WithFlags(md5, 3)

etcpal_generate_v5_uuid(sha1, name) == IF name = << >> THEN None ELSE WithFlags(sha1, 5)

\* Windows keeps the first three fields as numbers of the host, which is little-endian.
Guid(uuid) == [data1 |-> [i \in 1 .. 4 |-> uuid[5 - i]], data2 |-> [i \in 1 .. 2 |-> uuid[7 - i]],
               data3 |-> [i \in 1 .. 2 |-> uuid[9 - i]], data4 |-> [i \in 1 .. 8 |-> uuid[8 + i]]]

\* etcpal_pack_u32b and etcpal_pack_u16b of numbers in a little-endian host.
FromGuid(guid) ==
  [i \in 1 .. UUID_BYTES |-> CASE i <= 4 -> guid.data1[5 - i]
                               [] i \in 5 .. 6 -> guid.data2[7 - i]
                               [] i \in 7 .. 8 -> guid.data3[9 - i]
                               [] i > 8 -> guid.data4[i - 8]]

HasGenerators(port) == port \notin {"freertos", "mqx", "zephyr", "no os"}

\* The UUID that a system's generator gave.  Those of Windows return an RPC status, and
\* every one but RPC_S_OK is an error (RPC_S_UUID_LOCAL_ONLY is, which comes with a UUID).
os_uuid_generate(port, status, os_uuid) ==
  IF ~HasGenerators(port) \/ (port = "windows" /\ status # "RPC_S_OK") THEN None
  ELSE IF port = "windows" THEN FromGuid(Guid(os_uuid)) ELSE os_uuid

etcpal_generate_v1_uuid(port, status, given) ==
  os_uuid_generate(port, status, given[IF port = "windows" THEN "UuidCreateSequential"
                                                           ELSE "uuid_generate_time"])

etcpal_generate_v4_uuid(port, status, given) ==
  os_uuid_generate(port, status, given[IF port = "windows" THEN "UuidCreate"
                                                           ELSE "uuid_generate_random"])

\* Windows prefers random ones; libuuid's own choice depends on what the system has.
etcpal_generate_os_preferred_uuid(port, status, given) ==
  IF port = "windows" THEN etcpal_generate_v4_uuid(port, status, given)
  ELSE os_uuid_generate(port, status, given["uuid_generate"])

etcpal_pack_u32l(number) == [i \in 1 .. 4 |-> number[5 - i]]

\* strncpy cuts the string, or fills up with zeros; the address and the number follow.
DeviceName(dev_str, mac_addr, uuid_num) ==
  [i \in 1 .. DEV_STR_MAX_LEN + 10 |->
     CASE i <= DEV_STR_MAX_LEN -> IF i <= Len(dev_str) THEN dev_str[i] ELSE 0
       [] i \in DEV_STR_MAX_LEN + 1 .. DEV_STR_MAX_LEN + 6 -> mac_addr[i - DEV_STR_MAX_LEN]
       [] i > DEV_STR_MAX_LEN + 6 -> etcpal_pack_u32l(uuid_num)[i - DEV_STR_MAX_LEN - 6]]

etcpal_generate_device_uuid(sha1, dev_str, mac_addr, uuid_num) ==
  etcpal_generate_v5_uuid(sha1, DeviceName(dev_str, mac_addr, uuid_num))

----
(* The C++ class: what an error leaves is a null UUID.                     *)
OrNull(uuid) == IF uuid = None THEN kEtcPalNullUuid ELSE uuid

FromString(str) == OrNull(etcpal_string_to_uuid(str))

Version(uuid) == LET value == uuid[7] \div 16 IN IF value \in 1 .. 5 THEN value ELSE "unknown"

IsNull(uuid) == uuid = kEtcPalNullUuid

TimeLow(uuid) == SubSeq(uuid, 1, 4)
TimeMid(uuid) == SubSeq(uuid, 5, 6)
TimeHiAndVersion(uuid) == SubSeq(uuid, 7, 8)
ClockSeqAndNode(uuid) == SubSeq(uuid, 9, 16)

\* memcmp: the first byte that differs decides.
ETCPAL_UUID_CMP(a, b) ==
  LET differ == {i \in 1 .. UUID_BYTES : a[i] # b[i]}
  IN IF differ = {} THEN 0
     ELSE LET first == CHOOSE i \in differ : \A j \in differ : i <= j IN a[first] - b[first]

\* The comparison operators, each made from == or < of the C structs.
Relations(a, b) ==
  LET eq(x, y) == ETCPAL_UUID_CMP(x, y) = 0
      lt(x, y) == ETCPAL_UUID_CMP(x, y) < 0
  IN [eq |-> eq(a, b), ne |-> ~eq(a, b), lt |-> lt(a, b), gt |-> lt(b, a),
      le |-> ~lt(b, a), ge |-> ~lt(a, b)]
----
Bytes(n) == [1 .. n -> 0 .. 255]

Generators ==
  {"uuid_generate_time", "uuid_generate_random", "uuid_generate", "UuidCreateSequential", "UuidCreate"}

\* The systems' generators keep to the versions that their documentation tells, and
\* uuid_generate to one of the two.
UuidAssumption ==
  /\ Uuids \subseteq Bytes(16) /\ Macs \subseteq Bytes(6) /\ Numbers \subseteq Bytes(4)
  /\ \A digest \in Digests : digest \in Seq(0 .. 255) /\ Len(digest) >= UUID_BYTES
  /\ Generated \subseteq [Generators -> Bytes(16)]
  /\ \A given \in Generated :
       /\ Version(given["uuid_generate_time"]) = 1 /\ Version(given["UuidCreateSequential"]) = 1
       /\ Version(given["uuid_generate_random"]) = 4 /\ Version(given["UuidCreate"]) = 4
       /\ Version(given["uuid_generate"]) \in {1, 4}
  /\ Strings \subseteq Seq(1 .. 255)
  /\ None \notin Bytes(16)

Systems == {"linux", "macos", "windows", "freertos", "mqx", "zephyr", "no os"}

Statuses == {"RPC_S_OK", "RPC_S_UUID_LOCAL_ONLY", "RPC_S_UUID_NO_ADDRESS"}

Questions ==
  [about : {"text"}, uuid : Uuids, cut : 0 .. 36]
    \cup [about : {"order"}, a : Uuids, b : Uuids, c : Uuids]
    \cup [about : {"name"}, digest : Digests, name : {<< >>, <<1>>}]
    \cup [about : {"system"}, port : Systems, status : Statuses, given : Generated]
    \cup [about : {"device"}, a : Strings \X Macs \X Numbers, b : Strings \X Macs \X Numbers]

Init == question \in Questions

Spec == Init /\ [][UNCHANGED question]_question

About(subject) == question.about = subject

\* A UUID that is written is read again, in capitals and without its hyphens too; a text
\* that lacks a digit is not read, and the C++ class then holds the null UUID.
TextsAreRead ==
  About("text") =>
    LET text == etcpal_uuid_to_string(question.uuid)
        cut == SubSeq(text, 1, question.cut)
    IN /\ FromString(text) = question.uuid /\ FromString(Upper(text)) = question.uuid
       /\ FromString(Nibbles(question.uuid)) = question.uuid
       /\ question.cut < 36 => etcpal_string_to_uuid(cut) = None /\ IsNull(FromString(cut))
       /\ TimeLow(question.uuid) \o TimeMid(question.uuid) \o TimeHiAndVersion(question.uuid)
            \o ClockSeqAndNode(question.uuid) = question.uuid

\* RFC 4122's variant: the two highest bits are 10.
IsRfc4122(uuid) == uuid[9] \div 64 = 2

(***************************************************************************)
(* uuid.h:60-71: a UUID that is made from a name has the version that was  *)
(* asked for, and the variant of RFC 4122; one that the system makes is    *)
(* the one it gave, byte for byte, and of version 1 or 4 if that was asked *)
(* for.  What a system prefers has no version that is promised             *)
(* (uuid.c:270-271).  Ports without generators, and a Windows that         *)
(* refuses, leave a null one, of no version.                               *)
(***************************************************************************)
VersionsAreAsAsked ==
  /\ About("name") =>
       \A v \in {3, 5} :
         LET uuid == IF v = 3 THEN etcpal_generate_v3_uuid(question.digest, question.name)
                              ELSE etcpal_generate_v5_uuid(question.digest, question.name)
         IN IF question.name = << >> THEN Version(OrNull(uuid)) = "unknown"
            ELSE Version(uuid) = v /\ IsRfc4122(uuid)
  /\ About("system") =>
       LET q == question
           v1 == etcpal_generate_v1_uuid(q.port, q.status, q.given)
           v4 == etcpal_generate_v4_uuid(q.port, q.status, q.given)
           preferred == etcpal_generate_os_preferred_uuid(q.port, q.status, q.given)
       IN IF HasGenerators(q.port) /\ (q.port = "windows" => q.status = "RPC_S_OK")
          THEN /\ {v1, v4, preferred} \subseteq {q.given[generator] : generator \in Generators}
               /\ Version(v1) = 1 /\ Version(v4) = 4
          ELSE \A uuid \in {v1, v4, preferred} : uuid = None /\ IsNull(OrNull(uuid))
  /\ About("device") =>
       \A digest \in Digests :
         LET dev == question.a
         IN Version(etcpal_generate_device_uuid(digest, dev[1], dev[2], dev[3])) = 5

\* uuid.c:292-295: the name that is hashed for a device is another one for each other
\* combination, but for device strings that are alike up to the length that counts.
DevicesDiffer ==
  About("device") =>
    LET Name(dev) == DeviceName(dev[1], dev[2], dev[3])
        Counted(str) == SubSeq(str, 1, IF Len(str) < DEV_STR_MAX_LEN THEN Len(str)
                                                                    ELSE DEV_STR_MAX_LEN)
    IN Name(question.a) = Name(question.b) <=>
         /\ Counted(question.a[1]) = Counted(question.b[1])
         /\ question.a[2] = question.b[2] /\ question.a[3] = question.b[3]

UuidsAreOrdered ==
  About("order") =>
    LET ab == Relations(question.a, question.b)
        bc == Relations(question.b, question.c)
        ac == Relations(question.a, question.c)
    IN /\ ab.eq <=> question.a = question.b
       /\ ab.ne <=> ab.lt # ab.gt
       /\ ab.le <=> ab.lt \/ ab.eq
       /\ ab.ge <=> ab.gt \/ ab.eq
       /\ ab.le /\ bc.le => ac.le

(***************************************************************************)
(* UUIDs keep their identity: through text and the system's own form they  *)
(* come back the same, they have the version that was asked for, devices   *)
(* that differ hash different names, and the order they have as keys is    *)
(* total.                                                                  *)
(***************************************************************************)
UuidsKeepIdentity == TextsAreRead /\ VersionsAreAsAsked /\ DevicesDiffer /\ UuidsAreOrdered
=================================================================================
