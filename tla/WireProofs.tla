---- MODULE WireProofs ----
(***************************************************************************)
(* Addresses, for all of them: they come back from the system and from     *)
(* text as they went (AddressesSurvive), and their operators are total     *)
(* orders, their masks count bits and their kinds exclude each other       *)
(* (AddressesCompare).                                                     *)
(*                                                                         *)
(* Every comparison of addresses is the first of some smaller ones that    *)
(* tells them apart.  Opposite and Chained say of the results of a         *)
(* comparison that it is one of a total order; FirstDifference keeps both, *)
(* so bytes, addresses, sockets and interfaces have them in turn.          *)
(*                                                                         *)
(* ACN blocks: AcnInv says that what is packed is the start of the block,  *)
(* is sent whole and is parsed in its order, which the sums of the sizes   *)
(* make a round trip.  UUIDs: the digits of a text stand at ascending      *)
(* places, and two UUIDs differ first where their bytes do.                *)
(***************************************************************************)
EXTENDS Traffic, CountingLemmas

----
(***************************************************************************)
(* Comparisons.                                                            *)
(***************************************************************************)

\* The results of comparing two things both ways round
Opposite(ab, ba) == (ab < 0 <=> ba > 0) /\ (ab > 0 <=> ba < 0)

\* The results of comparing each two of three things
Chained(ab, bc, ac) ==
  /\ ab <= 0 /\ bc <= 0 => ac <= 0
  /\ ab < 0 /\ bc <= 0 => ac < 0
  /\ ab <= 0 /\ bc < 0 => ac < 0
  /\ ab = 0 /\ bc = 0 => ac = 0

\* A set of numbers has a first.
LEMMA MinIsFirst ==
  ASSUME NEW T \in SUBSET Nat, T # {}
  PROVE  Laws!Min(T) \in T /\ \A x \in T : Laws!Min(T) <= x
<1>1. \E x \in T : \A y \in T : x <= y
  BY HasLeast
<1> QED
  BY <1>1 DEF Laws!Min

\* FirstDifference is the first result that is not zero.
LEMMA FirstDifferenceAt ==
  ASSUME NEW n \in Nat, NEW r \in [1 .. n -> Int], NEW i \in 1 .. n,
         r[i] # 0, \A j \in 1 .. i - 1 : r[j] = 0
  PROVE  Laws!FirstDifference(r) = r[i]
<1> DEFINE telling == {j \in 1 .. n : r[j] # 0}
<1>1. telling \in SUBSET Nat /\ i \in telling
  OBVIOUS
<1>2. Laws!Min(telling) \in telling /\ Laws!Min(telling) <= i
  <2> HIDE DEF telling
  <2> QED
    BY <1>1, MinIsFirst
<1>3. Laws!Min(telling) = i
  <2> DEFINE m == Laws!Min(telling)
  <2>1. m \in 1 .. n /\ r[m] # 0 /\ m <= i
    BY <1>2
  <2> HIDE DEF m
  <2>2. m = i
    BY <2>1
  <2> QED
    BY <2>2 DEF m
<1>4. Laws!FirstDifference(r) = IF telling = {} THEN 0 ELSE r[Laws!Min(telling)]
  BY DEF Laws!FirstDifference
<1> QED
  BY <1>1, <1>3, <1>4

LEMMA FirstDifferenceOf ==
  ASSUME NEW n \in Nat, NEW r \in [1 .. n -> Int]
  PROVE  \/ Laws!FirstDifference(r) = 0 /\ \A j \in 1 .. n : r[j] = 0
         \/ \E i \in 1 .. n : /\ r[i] # 0 /\ \A j \in 1 .. i - 1 : r[j] = 0
                              /\ Laws!FirstDifference(r) = r[i]
<1> DEFINE telling == {j \in 1 .. n : r[j] # 0}
<1>1. CASE telling = {}
  BY <1>1 DEF Laws!FirstDifference
<1>2. CASE telling # {}
  <2>1. telling \in SUBSET Nat
    OBVIOUS
  <2>2. Laws!Min(telling) \in telling /\ \A x \in telling : Laws!Min(telling) <= x
    <3> HIDE DEF telling
    <3> QED
      BY <1>2, <2>1, MinIsFirst
  <2>3. \A j \in 1 .. Laws!Min(telling) - 1 : r[j] = 0
    <3>1. ASSUME NEW j \in 1 .. Laws!Min(telling) - 1, r[j] # 0 PROVE FALSE
      <4>1. j \in telling
        BY <2>2, <3>1
      <4> QED
        BY <2>2, <4>1, <3>1
    <3> QED
      BY <3>1
  <2> HIDE DEF telling
  <2>4. Laws!Min(telling) \in 1 .. n /\ r[Laws!Min(telling)] # 0
    BY <2>2 DEF telling
  <2> QED
    BY <2>3, <2>4, FirstDifferenceAt
<1> QED
  BY <1>1, <1>2

LEMMA FirstDifferenceIsInt ==
  ASSUME NEW n \in Nat, NEW r \in [1 .. n -> Int]
  PROVE  Laws!FirstDifference(r) \in Int
BY FirstDifferenceOf

LEMMA FirstDifferenceOpposes ==
  ASSUME NEW n \in Nat, NEW ab \in [1 .. n -> Int], NEW ba \in [1 .. n -> Int],
         \A i \in 1 .. n : Opposite(ab[i], ba[i])
  PROVE  Opposite(Laws!FirstDifference(ab), Laws!FirstDifference(ba))
<1>1. \A i \in 1 .. n : ab[i] = 0 <=> ba[i] = 0
  BY DEF Opposite
<1>2. CASE Laws!FirstDifference(ab) = 0 /\ \A j \in 1 .. n : ab[j] = 0
  <2>1. Laws!FirstDifference(ba) = 0
    BY <1>1, <1>2, FirstDifferenceOf
  <2> QED
    BY <1>2, <2>1 DEF Opposite
<1>3. ASSUME NEW i \in 1 .. n, ab[i] # 0, \A j \in 1 .. i - 1 : ab[j] = 0,
             Laws!FirstDifference(ab) = ab[i]
      PROVE  Opposite(Laws!FirstDifference(ab), Laws!FirstDifference(ba))
  <2>1. ba[i] # 0 /\ \A j \in 1 .. i - 1 : ba[j] = 0
    BY <1>1, <1>3
  <2>2. Laws!FirstDifference(ba) = ba[i]
    BY <2>1, FirstDifferenceAt
  <2> QED
    BY <1>3, <2>2
<1> QED
  BY <1>2, <1>3, FirstDifferenceOf

\* Where neither of two comparisons differs before place i, what they chain to is decided
\* there.
LEMMA ChainedAt ==
  ASSUME NEW n \in Nat, NEW ab \in [1 .. n -> Int], NEW bc \in [1 .. n -> Int],
         NEW ac \in [1 .. n -> Int],
         \A i \in 1 .. n : Chained(ab[i], bc[i], ac[i]),
         NEW i \in 1 .. n, \A j \in 1 .. i - 1 : ab[j] = 0 /\ bc[j] = 0,
         ab[i] <= 0, bc[i] <= 0, ab[i] # 0 \/ bc[i] # 0
  PROVE  Laws!FirstDifference(ac) < 0
<1>1. ac[i] < 0
  BY DEF Chained
<1>2. \A j \in 1 .. i - 1 : ac[j] = 0
  BY DEF Chained
<1>3. ac[i] # 0
  BY <1>1
<1>4. Laws!FirstDifference(ac) = ac[i]
  BY <1>2, <1>3, FirstDifferenceAt
<1> QED
  BY <1>1, <1>4

\* The place where a comparison is decided, behind the last if nowhere
LEMMA FirstPlace ==
  ASSUME NEW n \in Nat, NEW r \in [1 .. n -> Int]
  PROVE  \E i \in 1 .. n + 1 :
           /\ \A j \in 1 .. i - 1 : r[j] = 0
           /\ i = n + 1 => Laws!FirstDifference(r) = 0
           /\ i # n + 1 => i \in 1 .. n /\ r[i] # 0 /\ Laws!FirstDifference(r) = r[i]
<1>1. ASSUME Laws!FirstDifference(r) = 0, \A j \in 1 .. n : r[j] = 0
      PROVE  /\ n + 1 \in 1 .. n + 1
             /\ \A j \in 1 .. (n + 1) - 1 : r[j] = 0
  BY <1>1
<1>2. ASSUME NEW i \in 1 .. n PROVE i \in 1 .. n + 1 /\ i # n + 1
  OBVIOUS
<1> QED
  BY <1>1, <1>2, FirstDifferenceOf

LEMMA FirstDifferenceChains ==
  ASSUME NEW n \in Nat, NEW ab \in [1 .. n -> Int], NEW bc \in [1 .. n -> Int],
         NEW ac \in [1 .. n -> Int],
         \A i \in 1 .. n : Chained(ab[i], bc[i], ac[i])
  PROVE  Chained(Laws!FirstDifference(ab), Laws!FirstDifference(bc), Laws!FirstDifference(ac))
<1> DEFINE x == Laws!FirstDifference(ab)
           y == Laws!FirstDifference(bc)
           z == Laws!FirstDifference(ac)
<1>1. x \in Int /\ y \in Int /\ z \in Int
  BY FirstDifferenceIsInt
<1>2. PICK i \in 1 .. n + 1 : /\ \A j \in 1 .. i - 1 : ab[j] = 0
                              /\ i = n + 1 => x = 0
                              /\ i # n + 1 => i \in 1 .. n /\ ab[i] # 0 /\ x = ab[i]
  BY FirstPlace
<1>3. PICK k \in 1 .. n + 1 : /\ \A j \in 1 .. k - 1 : bc[j] = 0
                              /\ k = n + 1 => y = 0
                              /\ k # n + 1 => k \in 1 .. n /\ bc[k] # 0 /\ y = bc[k]
  BY FirstPlace
<1>4. ASSUME i = n + 1, k = n + 1 PROVE z = 0
  <2>1. \A j \in 1 .. n : ab[j] = 0 /\ bc[j] = 0
    BY <1>2, <1>3, <1>4
  <2>2. \A j \in 1 .. n : ac[j] = 0
    BY <2>1 DEF Chained
  <2> QED
    BY <2>2, FirstDifferenceOf
<1> HIDE DEF x, y
<1>5. ASSUME x <= 0, y <= 0, i # n + 1 \/ k # n + 1 PROVE z < 0
  <2>1. CASE i <= k
    <3>1. i \in 1 .. n /\ ab[i] # 0 /\ ab[i] <= 0
      BY <1>2, <1>5, <2>1
    <3>2. \A j \in 1 .. i - 1 : ab[j] = 0 /\ bc[j] = 0
      BY <1>2, <1>3, <2>1
    <3>3. bc[i] <= 0
      <4>1. CASE i = k
        BY <1>3, <1>5, <3>1, <4>1
      <4>2. CASE i < k
        <5>1. i \in 1 .. k - 1
          BY <3>1, <4>2
        <5> QED
          BY <1>3, <5>1
      <4> QED
        BY <2>1, <4>1, <4>2
    <3> QED
      BY <3>1, <3>2, <3>3, ChainedAt
  <2>2. CASE k < i
    <3>1. k \in 1 .. n /\ bc[k] # 0 /\ bc[k] <= 0
      BY <1>3, <1>5, <2>2
    <3>2. \A j \in 1 .. k - 1 : ab[j] = 0 /\ bc[j] = 0
      BY <1>2, <1>3, <2>2
    <3>3. ab[k] <= 0
      <4>1. k \in 1 .. i - 1
        BY <3>1, <2>2
      <4> QED
        BY <1>2, <4>1
    <3> QED
      BY <3>1, <3>2, <3>3, ChainedAt
  <2> QED
    BY <2>1, <2>2
<1> HIDE DEF z
<1>6. x = 0 <=> i = n + 1
  BY <1>2
<1>7. y = 0 <=> k = n + 1
  BY <1>3
<1>8. Chained(x, y, z)
  BY <1>1, <1>4, <1>5, <1>6, <1>7 DEF Chained
<1> QED
  BY <1>8 DEF x, y, z

\* What tells bytes apart
LEMMA SignCompares ==
  ASSUME NEW k \in Int, NEW l \in Int, NEW m \in Int
  PROVE  /\ Laws!Sign(k, l) \in Int
         /\ Laws!Sign(k, l) = 0 <=> k = l
         /\ Opposite(Laws!Sign(k, l), Laws!Sign(l, k))
         /\ Chained(Laws!Sign(k, l), Laws!Sign(l, m), Laws!Sign(k, m))
BY DEF Laws!Sign, Opposite, Chained

\* memcmp, for bytes of one length
LEMMA MemcmpCompares ==
  ASSUME NEW n \in Nat, NEW p \in [1 .. n -> Int], NEW q \in [1 .. n -> Int], NEW r \in [1 .. n -> Int]
  PROVE  /\ Laws!memcmp(p, q) \in Int
         /\ Laws!memcmp(p, q) = 0 <=> p = q
         /\ Opposite(Laws!memcmp(p, q), Laws!memcmp(q, p))
         /\ Chained(Laws!memcmp(p, q), Laws!memcmp(q, r), Laws!memcmp(p, r))
<1> DEFINE Signs(f, g) == [i \in 1 .. n |-> Laws!Sign(f[i], g[i])]
<1>1. \A f, g \in [1 .. n -> Int] : Laws!memcmp(f, g) = Laws!FirstDifference(Signs(f, g))
  <2> SUFFICES ASSUME NEW f \in [1 .. n -> Int], NEW g \in [1 .. n -> Int]
               PROVE  Laws!memcmp(f, g) = Laws!FirstDifference(Signs(f, g))
    OBVIOUS
  <2>1. DOMAIN f = 1 .. n
    OBVIOUS
  <2> QED
    BY <2>1, Zenon DEF Laws!memcmp
<1>2. \A f, g \in [1 .. n -> Int] : Signs(f, g) \in [1 .. n -> Int]
  BY SignCompares
<1>3. \A f, g \in [1 .. n -> Int] : \A i \in 1 .. n : Signs(f, g)[i] = Laws!Sign(f[i], g[i])
  OBVIOUS
<1>4. \A i \in 1 .. n : /\ Signs(p, q)[i] = 0 <=> p[i] = q[i]
                        /\ Opposite(Signs(p, q)[i], Signs(q, p)[i])
                        /\ Chained(Signs(p, q)[i], Signs(q, r)[i], Signs(p, r)[i])
  <2> SUFFICES ASSUME NEW i \in 1 .. n
               PROVE  /\ Laws!Sign(p[i], q[i]) = 0 <=> p[i] = q[i]
                      /\ Opposite(Laws!Sign(p[i], q[i]), Laws!Sign(q[i], p[i]))
                      /\ Chained(Laws!Sign(p[i], q[i]), Laws!Sign(q[i], r[i]), Laws!Sign(p[i], r[i]))
    BY <1>3
  <2>1. p[i] \in Int /\ q[i] \in Int /\ r[i] \in Int
    OBVIOUS
  <2> QED
    BY <2>1, SignCompares
<1> HIDE DEF Signs
<1>5. Laws!FirstDifference(Signs(p, q)) = 0 <=> p = q
  <2>1. Laws!FirstDifference(Signs(p, q)) = 0 <=> \A i \in 1 .. n : Signs(p, q)[i] = 0
    BY <1>2, FirstDifferenceOf
  <2>2. p = q <=> \A i \in 1 .. n : p[i] = q[i]
    OBVIOUS
  <2> QED
    BY <1>4, <2>1, <2>2
<1>6. /\ Laws!FirstDifference(Signs(p, q)) \in Int
      /\ Opposite(Laws!FirstDifference(Signs(p, q)), Laws!FirstDifference(Signs(q, p)))
  BY <1>2, <1>4, FirstDifferenceIsInt, FirstDifferenceOpposes
<1>7. Chained(Laws!FirstDifference(Signs(p, q)), Laws!FirstDifference(Signs(q, r)),
              Laws!FirstDifference(Signs(p, r)))
  BY <1>2, <1>4, FirstDifferenceChains
<1> QED
  BY <1>1, <1>5, <1>6, <1>7

\* What is an address of which type
LEMMA AddressFacts ==
  ASSUME NEW a \in Laws!AllAddresses
  PROVE  /\ a.type \in {"v4", "v6", "invalid"}
         /\ a.type = "v4" => a.bytes \in Laws!Bytes(4) /\ a.scope = 0
         /\ a.type = "v6" => a.bytes \in Laws!Bytes(16) /\ a.scope \in Nat
         /\ a.type = "invalid" => a.bytes = << >> /\ a.scope = 0
         /\ a.type # "invalid" => a.bytes \in Laws!Bytes(Laws!Width(a.type))
         /\ a = [type |-> a.type, bytes |-> a.bytes, scope |-> a.scope]
BY DEF Laws!AllAddresses, Laws!Invalid, Laws!Width

LEMMA BytesAreInts ==
  ASSUME NEW n \in Nat, NEW p \in Laws!Bytes(n)
  PROVE  p \in [1 .. n -> Int]
<1>1. \A i \in 1 .. n : p[i] \in 0 .. 255
  BY DEF Laws!Bytes
<1>2. \A x \in 0 .. 255 : x \in Int
  OBVIOUS
<1> QED
  BY <1>1, <1>2 DEF Laws!Bytes

LEMMA NothingCompares ==
  Laws!memcmp(<< >>, << >>) = 0
<1>1. << >> \in [1 .. 0 -> Int]
  OBVIOUS
<1> QED
  BY <1>1, MemcmpCompares

\* etcpal_ip_cmp, for addresses of any types
LEMMA IpCompares ==
  ASSUME NEW a \in Laws!AllAddresses, NEW b \in Laws!AllAddresses, NEW c \in Laws!AllAddresses
  PROVE  /\ Laws!ip_cmp(a, b) \in Int
         /\ Laws!ip_cmp(a, b) = 0 <=> a.type = b.type /\ a.bytes = b.bytes
         /\ Opposite(Laws!ip_cmp(a, b), Laws!ip_cmp(b, a))
         /\ Chained(Laws!ip_cmp(a, b), Laws!ip_cmp(b, c), Laws!ip_cmp(a, c))
<1> DEFINE V(t) == Laws!TypeValue[t]
<1>1. V("invalid") = 0 /\ V("v4") = 1 /\ V("v6") = 2
  BY DEF Laws!TypeValue
<1> HIDE DEF V
<1>2. \A x, y : Laws!ip_cmp(x, y) = IF x.type # y.type THEN V(x.type) - V(y.type)
                                    ELSE Laws!memcmp(x.bytes, y.bytes)
  BY DEF Laws!ip_cmp, V
<1>3. \A x, y, z \in Laws!AllAddresses : x.type = y.type /\ y.type = z.type =>
        /\ Laws!memcmp(x.bytes, y.bytes) \in Int
        /\ Laws!memcmp(x.bytes, y.bytes) = 0 <=> x.bytes = y.bytes
        /\ Opposite(Laws!memcmp(x.bytes, y.bytes), Laws!memcmp(y.bytes, x.bytes))
        /\ Chained(Laws!memcmp(x.bytes, y.bytes), Laws!memcmp(y.bytes, z.bytes),
                   Laws!memcmp(x.bytes, z.bytes))
  <2> SUFFICES ASSUME NEW x \in Laws!AllAddresses, NEW y \in Laws!AllAddresses,
                      NEW z \in Laws!AllAddresses, x.type = y.type, y.type = z.type
               PROVE  /\ Laws!memcmp(x.bytes, y.bytes) \in Int
                      /\ Laws!memcmp(x.bytes, y.bytes) = 0 <=> x.bytes = y.bytes
                      /\ Opposite(Laws!memcmp(x.bytes, y.bytes), Laws!memcmp(y.bytes, x.bytes))
                      /\ Chained(Laws!memcmp(x.bytes, y.bytes), Laws!memcmp(y.bytes, z.bytes),
                                 Laws!memcmp(x.bytes, z.bytes))
    BY Zenon
  <2>1. \E n \in Nat : /\ x.bytes \in [1 .. n -> Int] /\ y.bytes \in [1 .. n -> Int]
                       /\ z.bytes \in [1 .. n -> Int]
    <3>1. CASE x.type = "v4"
      BY <3>1, AddressFacts, BytesAreInts
    <3>2. CASE x.type = "v6"
      BY <3>2, AddressFacts, BytesAreInts
    <3>3. CASE x.type = "invalid"
      <4>1. << >> \in [1 .. 0 -> Int]
        OBVIOUS
      <4> QED
        BY <3>3, <4>1, AddressFacts
    <3> QED
      BY <3>1, <3>2, <3>3, AddressFacts
  <2> QED
    BY <2>1, MemcmpCompares
<1>4. a.type \in {"v4", "v6", "invalid"} /\ b.type \in {"v4", "v6", "invalid"}
      /\ c.type \in {"v4", "v6", "invalid"}
  BY AddressFacts
<1>5. /\ Laws!ip_cmp(a, b) \in Int
      /\ Laws!ip_cmp(a, b) = 0 <=> a.type = b.type /\ a.bytes = b.bytes
  BY <1>1, <1>2, <1>3, <1>4
<1>6. Opposite(Laws!ip_cmp(a, b), Laws!ip_cmp(b, a))
  <2>1. CASE a.type = b.type
    BY <1>2, <1>3, <2>1
  <2>2. CASE a.type # b.type
    BY <1>1, <1>2, <1>4, <2>2 DEF Opposite
  <2> QED
    BY <2>1, <2>2
<1>7. Chained(Laws!ip_cmp(a, b), Laws!ip_cmp(b, c), Laws!ip_cmp(a, c))
  <2>1. CASE a.type = b.type /\ b.type = c.type
    BY <1>2, <1>3, <2>1
  <2>2. CASE a.type # b.type /\ b.type # c.type
    <3>1. Laws!ip_cmp(a, b) = V(a.type) - V(b.type) /\ Laws!ip_cmp(b, c) = V(b.type) - V(c.type)
      BY <1>2, <2>2
    <3>2. Laws!ip_cmp(a, b) <= 0 /\ Laws!ip_cmp(b, c) <= 0 => a.type # c.type
      BY <1>1, <1>4, <2>2, <3>1
    <3>3. a.type # c.type => Laws!ip_cmp(a, c) = V(a.type) - V(c.type)
      BY <1>2
    <3> QED
      BY <1>1, <1>4, <2>2, <3>1, <3>2, <3>3 DEF Chained
  <2>3. CASE a.type = b.type /\ b.type # c.type
    <3>1. Laws!ip_cmp(b, c) = V(b.type) - V(c.type) /\ Laws!ip_cmp(a, c) = V(b.type) - V(c.type)
      BY <1>2, <2>3
    <3>2. Laws!ip_cmp(b, c) # 0 /\ Laws!ip_cmp(b, c) \in Int
      BY <1>1, <1>4, <2>3, <3>1
    <3> QED
      BY <3>1, <3>2 DEF Chained
  <2>4. CASE a.type # b.type /\ b.type = c.type
    <3>1. Laws!ip_cmp(a, b) = V(a.type) - V(b.type) /\ Laws!ip_cmp(a, c) = V(a.type) - V(b.type)
      BY <1>2, <2>4
    <3>2. Laws!ip_cmp(a, b) # 0 /\ Laws!ip_cmp(a, b) \in Int
      BY <1>1, <1>4, <2>4, <3>1
    <3> QED
      BY <3>1, <3>2 DEF Chained
  <2> QED
    BY <2>1, <2>2, <2>3, <2>4
<1> QED
  BY <1>5, <1>6, <1>7

\* The operators that a comparison gives are those of a total order.
LEMMA RelationsAreTotal ==
  ASSUME NEW ab \in Int, NEW ba \in Int, NEW bc \in Int, NEW cb \in Int, NEW ac \in Int, NEW ca \in Int,
         Opposite(ab, ba), Opposite(bc, cb), Opposite(ac, ca), Chained(ab, bc, ac)
  PROVE  Laws!TotalOrder(Laws!Relations(ab = 0, ab < 0, ba < 0),
                         Laws!Relations(bc = 0, bc < 0, cb < 0),
                         Laws!Relations(ac = 0, ac < 0, ca < 0))
<1> DEFINE xe == (ab = 0)  xl == (ab < 0)  xg == (ba < 0)
           yl == (bc < 0)  yg == (cb < 0)
           ze == (ac = 0)  zl == (ac < 0)  zg == (ca < 0)
<1>1. /\ xe => ~xl /\ ~xg
      /\ ~xe => (xl <=> ~xg)
      /\ ~xg <=> xl \/ xe
      /\ ~xl <=> xg \/ xe
      /\ ~xg /\ ~yg => ~zg
      /\ xl /\ ~yg => zl
  BY DEF Opposite, Chained
<1>2. xe \in BOOLEAN /\ xl \in BOOLEAN /\ xg \in BOOLEAN
  OBVIOUS
<1>3. \A e, l, g : LET r == Laws!Relations(e, l, g) IN
        r.eq = e /\ r.ne = ~e /\ r.lt = l /\ r.gt = g /\ r.le = ~g /\ r.ge = ~l
  BY DEF Laws!Relations
<1> HIDE DEF xe, xl, xg, yl, yg, ze, zl, zg
<1>4. Laws!TotalOrder(Laws!Relations(xe, xl, xg), Laws!Relations(bc = 0, yl, yg),
                      Laws!Relations(ze, zl, zg))
  BY <1>1, <1>2, <1>3 DEF Laws!TotalOrder
<1> QED
  BY <1>4 DEF xe, xl, xg, yl, yg, ze, zl, zg

\* Of socket addresses the ports tell first.
SockCmp(a, b) == IF a.port = b.port THEN Laws!ip_cmp(a.ip, b.ip) ELSE Laws!memcmp(a.port, b.port)

LEMMA SockCompares ==
  ASSUME NEW S, S = [ip : Laws!AllAddresses, port : Laws!Bytes(2)], NEW a \in S, NEW b \in S, NEW c \in S
  PROVE  /\ SockCmp(a, b) \in Int
         /\ SockCmp(a, b) = 0 <=> Laws!ip_cmp(a.ip, b.ip) = 0 /\ a.port = b.port
         /\ SockCmp(a, b) < 0 <=> Laws!SockLess(a, b)
         /\ Opposite(SockCmp(a, b), SockCmp(b, a))
         /\ Chained(SockCmp(a, b), SockCmp(b, c), SockCmp(a, c))
<1>1. \A x \in S : x.ip \in Laws!AllAddresses /\ x.port \in [1 .. 2 -> Int]
  BY BytesAreInts
<1>2. /\ Laws!ip_cmp(a.ip, b.ip) \in Int
      /\ Opposite(Laws!ip_cmp(a.ip, b.ip), Laws!ip_cmp(b.ip, a.ip))
      /\ Chained(Laws!ip_cmp(a.ip, b.ip), Laws!ip_cmp(b.ip, c.ip), Laws!ip_cmp(a.ip, c.ip))
  BY <1>1, IpCompares
<1>3. /\ \A x, y \in S : Laws!memcmp(x.port, y.port) \in Int
      /\ \A x, y \in S : Laws!memcmp(x.port, y.port) = 0 <=> x.port = y.port
      /\ Opposite(Laws!memcmp(a.port, b.port), Laws!memcmp(b.port, a.port))
      /\ Chained(Laws!memcmp(a.port, b.port), Laws!memcmp(b.port, c.port), Laws!memcmp(a.port, c.port))
  <2>1. \A p, q, r \in [1 .. 2 -> Int] :
          /\ Laws!memcmp(p, q) \in Int
          /\ Laws!memcmp(p, q) = 0 <=> p = q
          /\ Opposite(Laws!memcmp(p, q), Laws!memcmp(q, p))
          /\ Chained(Laws!memcmp(p, q), Laws!memcmp(q, r), Laws!memcmp(p, r))
    BY MemcmpCompares
  <2> QED
    BY <1>1, <2>1, Zenon
<1>4. SockCmp(a, b) < 0 <=> Laws!SockLess(a, b)
  <2>1. CASE a.port = b.port
    BY <2>1 DEF SockCmp, Laws!SockLess
  <2>2. CASE a.port # b.port
    BY <2>2 DEF SockCmp, Laws!SockLess
  <2> QED
    BY <2>1, <2>2
<1>5. Chained(SockCmp(a, b), SockCmp(b, c), SockCmp(a, c))
  <2>1. CASE a.port = b.port /\ b.port = c.port
    BY <1>2, <2>1 DEF SockCmp
  <2>2. CASE a.port # b.port /\ b.port = c.port
    BY <1>3, <2>2 DEF SockCmp, Chained
  <2>3. CASE a.port = b.port /\ b.port # c.port
    BY <1>3, <2>3 DEF SockCmp, Chained
  <2>4. CASE a.port # b.port /\ b.port # c.port
    <3>1. CASE a.port # c.port
      BY <1>3, <2>4, <3>1 DEF SockCmp
    <3>2. CASE a.port = c.port
      BY <1>3, <2>4, <3>2 DEF SockCmp, Chained, Opposite
    <3> QED
      BY <3>1, <3>2
  <2> QED
    BY <2>1, <2>2, <2>3, <2>4
<1>6. Opposite(SockCmp(a, b), SockCmp(b, a))
  BY <1>2, <1>3 DEF SockCmp
<1> QED
  BY <1>2, <1>3, <1>4, <1>5, <1>6 DEF SockCmp

\* What is known of an interface; its addresses are not scoped.
Unscoped == {ip \in Laws!AllAddresses : ip.scope = 0}

NetintInfos(n, m) ==
  [index : Nat, addr : Unscoped, mask : Unscoped, mac : Laws!Bytes(6),
   id : Laws!Bytes(n), friendly_name : Laws!Bytes(m), is_default : BOOLEAN]

\* etcpal_netint_info's seven comparisons
Default(a, b) == IF a.is_default = b.is_default THEN 0 ELSE IF a.is_default THEN 1 ELSE -1

Seven(a, b) ==
  <<Laws!Sign(a.index, b.index), Laws!ip_cmp(a.addr, b.addr), Laws!ip_cmp(a.mask, b.mask),
    Laws!memcmp(a.mac, b.mac), Laws!memcmp(a.id, b.id),
    Laws!memcmp(a.friendly_name, b.friendly_name), Default(a, b)>>

LEMMA DefaultCompares ==
  ASSUME NEW a, NEW b, NEW c,
         a.is_default \in BOOLEAN, b.is_default \in BOOLEAN, c.is_default \in BOOLEAN
  PROVE  /\ Default(a, b) \in Int
         /\ Default(a, b) = 0 <=> a.is_default = b.is_default
         /\ Opposite(Default(a, b), Default(b, a))
         /\ Chained(Default(a, b), Default(b, c), Default(a, c))
BY DEF Default, Opposite, Chained

LEMMA UnscopedEqual ==
  ASSUME NEW a \in Unscoped, NEW b \in Unscoped, a.type = b.type, a.bytes = b.bytes
  PROVE  a = b
BY AddressFacts DEF Unscoped

\* A comparison of x and y, both ways round, and with z; same says whether they are alike.
Decides(xy, yx, yz, xz, same) ==
  xy \in Int /\ (xy = 0 <=> same) /\ Opposite(xy, yx) /\ Chained(xy, yz, xz)

\* netint_info_cmp, for interfaces whose names are as long
LEMMA NetintCompares ==
  ASSUME NEW n \in Nat, NEW m \in Nat, NEW S, S = NetintInfos(n, m),
         NEW a \in S, NEW b \in S, NEW c \in S
  PROVE  /\ Laws!netint_info_cmp(a, b) \in Int
         /\ Laws!netint_info_cmp(a, b) = 0 <=> a = b
         /\ Opposite(Laws!netint_info_cmp(a, b), Laws!netint_info_cmp(b, a))
         /\ Chained(Laws!netint_info_cmp(a, b), Laws!netint_info_cmp(b, c), Laws!netint_info_cmp(a, c))
<1>1. \A x \in S : /\ x.index \in Int /\ x.addr \in Unscoped /\ x.mask \in Unscoped
                   /\ x.mac \in Laws!Bytes(6) /\ x.id \in Laws!Bytes(n)
                   /\ x.friendly_name \in Laws!Bytes(m) /\ x.is_default \in BOOLEAN
  BY DEF NetintInfos
<1>2. \A x, y \in S : Laws!netint_info_cmp(x, y) = Laws!FirstDifference(Seven(x, y))
  BY DEF Laws!netint_info_cmp, Seven, Default
<1>3. \A x, y \in S : x = y <=> /\ x.index = y.index /\ x.addr = y.addr /\ x.mask = y.mask
                                /\ x.mac = y.mac /\ x.id = y.id
                                /\ x.friendly_name = y.friendly_name
                                /\ x.is_default = y.is_default
  BY DEF NetintInfos
<1>4. \A p, q, r \in Unscoped :
        Decides(Laws!ip_cmp(p, q), Laws!ip_cmp(q, p), Laws!ip_cmp(q, r), Laws!ip_cmp(p, r), p = q)
  <2>1. \A p \in Unscoped : p \in Laws!AllAddresses
    BY DEF Unscoped
  <2> QED
    BY <2>1, IpCompares, UnscopedEqual DEF Decides
<1>5. \A k \in Nat : \A p, q, r \in Laws!Bytes(k) :
        Decides(Laws!memcmp(p, q), Laws!memcmp(q, p), Laws!memcmp(q, r), Laws!memcmp(p, r), p = q)
  <2> SUFFICES ASSUME NEW k \in Nat, NEW p \in Laws!Bytes(k), NEW q \in Laws!Bytes(k),
                      NEW r \in Laws!Bytes(k)
               PROVE  Decides(Laws!memcmp(p, q), Laws!memcmp(q, p), Laws!memcmp(q, r),
                              Laws!memcmp(p, r), p = q)
    BY Zenon
  <2>1. p \in [1 .. k -> Int] /\ q \in [1 .. k -> Int] /\ r \in [1 .. k -> Int]
    BY BytesAreInts
  <2>2. /\ Laws!memcmp(p, q) \in Int
        /\ Laws!memcmp(p, q) = 0 <=> p = q
        /\ Opposite(Laws!memcmp(p, q), Laws!memcmp(q, p))
        /\ Chained(Laws!memcmp(p, q), Laws!memcmp(q, r), Laws!memcmp(p, r))
    BY <2>1, MemcmpCompares
  <2> QED
    BY <2>2 DEF Decides
<1>6. \A x, y, z \in S :
        Decides(Laws!Sign(x.index, y.index), Laws!Sign(y.index, x.index),
                Laws!Sign(y.index, z.index), Laws!Sign(x.index, z.index), x.index = y.index)
  BY <1>1, SignCompares DEF Decides
<1>7. \A x, y, z \in S :
        Decides(Laws!ip_cmp(x.addr, y.addr), Laws!ip_cmp(y.addr, x.addr),
                Laws!ip_cmp(y.addr, z.addr), Laws!ip_cmp(x.addr, z.addr), x.addr = y.addr)
  BY <1>1, <1>4
<1>8. \A x, y, z \in S :
        Decides(Laws!ip_cmp(x.mask, y.mask), Laws!ip_cmp(y.mask, x.mask),
                Laws!ip_cmp(y.mask, z.mask), Laws!ip_cmp(x.mask, z.mask), x.mask = y.mask)
  BY <1>1, <1>4
<1>9. \A x, y, z \in S :
        Decides(Laws!memcmp(x.mac, y.mac), Laws!memcmp(y.mac, x.mac),
                Laws!memcmp(y.mac, z.mac), Laws!memcmp(x.mac, z.mac), x.mac = y.mac)
  BY <1>1, <1>5
<1>10. \A x, y, z \in S :
        Decides(Laws!memcmp(x.id, y.id), Laws!memcmp(y.id, x.id),
                Laws!memcmp(y.id, z.id), Laws!memcmp(x.id, z.id), x.id = y.id)
  BY <1>1, <1>5
<1>11. \A x, y, z \in S :
        Decides(Laws!memcmp(x.friendly_name, y.friendly_name), Laws!memcmp(y.friendly_name, x.friendly_name),
                Laws!memcmp(y.friendly_name, z.friendly_name), Laws!memcmp(x.friendly_name, z.friendly_name), x.friendly_name = y.friendly_name)
  BY <1>1, <1>5
<1>12. \A x, y, z \in S :
        Decides(Default(x, y), Default(y, x),
                Default(y, z), Default(x, z), x.is_default = y.is_default)
  BY <1>1, DefaultCompares DEF Decides
<1>13. \A x, y, z \in S : \A i \in 1 .. 7 :
         /\ Seven(x, y)[i] \in Int
         /\ Opposite(Seven(x, y)[i], Seven(y, x)[i])
         /\ Chained(Seven(x, y)[i], Seven(y, z)[i], Seven(x, z)[i])
  <2> SUFFICES ASSUME NEW x \in S, NEW y \in S, NEW z \in S, NEW i \in 1 .. 7
               PROVE  \E same \in BOOLEAN :
                        Decides(Seven(x, y)[i], Seven(y, x)[i], Seven(y, z)[i], Seven(x, z)[i], same)
    BY DEF Decides
  <2>1. CASE i = 1
    BY <1>6, <2>1 DEF Seven
  <2>2. CASE i = 2
    BY <1>7, <2>2 DEF Seven
  <2>3. CASE i = 3
    BY <1>8, <2>3 DEF Seven
  <2>4. CASE i = 4
    BY <1>9, <2>4 DEF Seven
  <2>5. CASE i = 5
    BY <1>10, <2>5 DEF Seven
  <2>6. CASE i = 6
    BY <1>11, <2>6 DEF Seven
  <2>7. CASE i = 7
    BY <1>12, <2>7 DEF Seven
  <2> QED
    BY <2>1, <2>2, <2>3, <2>4, <2>5, <2>6, <2>7
<1>14. \A x, y \in S : Seven(x, y) \in [1 .. 7 -> Int]
  <2> SUFFICES ASSUME NEW x \in S, NEW y \in S PROVE Seven(x, y) \in [1 .. 7 -> Int]
    OBVIOUS
  <2>1. Seven(x, y) = [i \in 1 .. 7 |-> Seven(x, y)[i]]
    BY DEF Seven
  <2> QED
    BY <1>13, <2>1
<1>15. (\A i \in 1 .. 7 : Seven(a, b)[i] = 0) <=> a = b
  <2>1. (\A i \in 1 .. 7 : Seven(a, b)[i] = 0) <=>
          /\ Laws!Sign(a.index, b.index) = 0 /\ Laws!ip_cmp(a.addr, b.addr) = 0
          /\ Laws!ip_cmp(a.mask, b.mask) = 0 /\ Laws!memcmp(a.mac, b.mac) = 0
          /\ Laws!memcmp(a.id, b.id) = 0
          /\ Laws!memcmp(a.friendly_name, b.friendly_name) = 0 /\ Default(a, b) = 0
    BY DEF Seven
  <2> QED
    BY <1>3, <1>6, <1>7, <1>8, <1>9, <1>10, <1>11, <1>12, <2>1 DEF Decides
<1>16. Laws!FirstDifference(Seven(a, b)) = 0 <=> \A i \in 1 .. 7 : Seven(a, b)[i] = 0
  <2> DEFINE r == Seven(a, b)
  <2>1. r \in [1 .. 7 -> Int]
    BY <1>14
  <2> HIDE DEF r
  <2>2. Laws!FirstDifference(r) = 0 <=> \A i \in 1 .. 7 : r[i] = 0
    BY <2>1, FirstDifferenceOf
  <2> QED
    BY <2>2 DEF r
<1>17. Laws!netint_info_cmp(a, b) \in Int /\ (Laws!netint_info_cmp(a, b) = 0 <=> a = b)
  BY <1>2, <1>14, <1>15, <1>16, FirstDifferenceIsInt
<1>18. Opposite(Laws!FirstDifference(Seven(a, b)), Laws!FirstDifference(Seven(b, a)))
  BY <1>13, <1>14, FirstDifferenceOpposes
<1>19. Chained(Laws!FirstDifference(Seven(a, b)), Laws!FirstDifference(Seven(b, c)),
               Laws!FirstDifference(Seven(a, c)))
  BY <1>13, <1>14, FirstDifferenceChains
<1> QED
  BY <1>2, <1>17, <1>18, <1>19

LEMMA SomeAreUnscoped ==
  /\ \A bytes \in Laws!Bytes(4) : Laws!V4(bytes) \in Unscoped
  /\ \A bytes \in Laws!Bytes(16) : Laws!V6(bytes, 0) \in Unscoped
  /\ \A n \in Nat : Laws!Zeros(n) \in Laws!Bytes(n)
<1>1. \A bytes \in Laws!Bytes(4) : Laws!V4(bytes) \in Unscoped
  BY DEF Unscoped, Laws!AllAddresses, Laws!V4
<1>2. \A bytes \in Laws!Bytes(16) : Laws!V6(bytes, 0) \in Unscoped
  BY DEF Unscoped, Laws!AllAddresses, Laws!V6
<1>3. \A n \in Nat : Laws!Zeros(n) \in Laws!Bytes(n)
  BY DEF Laws!Zeros, Laws!Bytes
<1> QED
  BY <1>1, <1>2, <1>3

\* The interfaces that are asked about
LEMMA InterfacesAreInfos == Laws!Interfaces \subseteq NetintInfos(1, 1)
<1> DEFINE S == NetintInfos(1, 1)
           plain == [index |-> 1, addr |-> Laws!V4(<<10, 0, 0, 1>>), mask |-> Laws!V4(<<255, 0, 0, 0>>),
                     mac |-> <<0, 0, 0, 0, 0, 1>>, id |-> <<1>>, friendly_name |-> <<1>>,
                     is_default |-> FALSE]
           others == {[plain EXCEPT !.index = 2], [plain EXCEPT !.addr = Laws!V6(Laws!Zeros(16), 0)],
                      [plain EXCEPT !.mask = Laws!V4(<<255, 255, 0, 0>>)],
                      [plain EXCEPT !.mac = <<0, 0, 0, 0, 1, 0>>], [plain EXCEPT !.id = <<2>>],
                      [plain EXCEPT !.friendly_name = <<2>>], [plain EXCEPT !.is_default = TRUE]}
<1>1. Laws!Interfaces = {plain} \cup others \cup {[i EXCEPT !.is_default = TRUE] : i \in others}
                          \cup {[i EXCEPT !.mac = <<0, 0, 0, 0, 0, 0>>] : i \in others}
  BY DEF Laws!Interfaces
<1>2. /\ <<10, 0, 0, 1>> \in Laws!Bytes(4) /\ <<255, 0, 0, 0>> \in Laws!Bytes(4)
      /\ <<255, 255, 0, 0>> \in Laws!Bytes(4)
  BY DEF Laws!Bytes
<1>3. /\ <<0, 0, 0, 0, 0, 1>> \in Laws!Bytes(6) /\ <<0, 0, 0, 0, 1, 0>> \in Laws!Bytes(6)
      /\ <<0, 0, 0, 0, 0, 0>> \in Laws!Bytes(6)
  BY DEF Laws!Bytes
<1>4. <<1>> \in Laws!Bytes(1) /\ <<2>> \in Laws!Bytes(1)
  BY DEF Laws!Bytes
<1>5. plain \in S
  BY <1>2, <1>3, <1>4, SomeAreUnscoped DEF NetintInfos
<1>6. /\ \A n \in Nat : \A i \in S : [i EXCEPT !.index = n] \in S
      /\ \A ip \in Unscoped : \A i \in S : [i EXCEPT !.addr = ip] \in S /\ [i EXCEPT !.mask = ip] \in S
      /\ \A mac \in Laws!Bytes(6) : \A i \in S : [i EXCEPT !.mac = mac] \in S
      /\ \A name \in Laws!Bytes(1) : \A i \in S : /\ [i EXCEPT !.id = name] \in S
                                                  /\ [i EXCEPT !.friendly_name = name] \in S
      /\ \A i \in S : [i EXCEPT !.is_default = TRUE] \in S
  BY DEF NetintInfos
<1> HIDE DEF plain, S
<1>7. others \subseteq S
  <2>1. Laws!V6(Laws!Zeros(16), 0) \in Unscoped /\ Laws!V4(<<255, 255, 0, 0>>) \in Unscoped
    BY <1>2, SomeAreUnscoped
  <2> SUFFICES ASSUME NEW i \in others PROVE i \in S
    OBVIOUS
  <2>2. CASE i = [plain EXCEPT !.index = 2]
    BY <1>5, <1>6, <2>2
  <2>3. CASE i = [plain EXCEPT !.addr = Laws!V6(Laws!Zeros(16), 0)]
    <3> DEFINE addr == Laws!V6(Laws!Zeros(16), 0)
    <3>1. addr \in Unscoped /\ i = [plain EXCEPT !.addr = addr]
      BY <2>1, <2>3
    <3> HIDE DEF addr
    <3> QED
      BY <1>5, <1>6, <3>1
  <2>4. CASE i = [plain EXCEPT !.mask = Laws!V4(<<255, 255, 0, 0>>)]
    <3> DEFINE mask == Laws!V4(<<255, 255, 0, 0>>)
    <3>1. mask \in Unscoped /\ i = [plain EXCEPT !.mask = mask]
      BY <2>1, <2>4
    <3> HIDE DEF mask
    <3> QED
      BY <1>5, <1>6, <3>1
  <2>5. CASE i = [plain EXCEPT !.mac = <<0, 0, 0, 0, 1, 0>>]
    BY <1>3, <1>5, <1>6, <2>5
  <2>6. CASE i = [plain EXCEPT !.id = <<2>>]
    BY <1>4, <1>5, <1>6, <2>6
  <2>7. CASE i = [plain EXCEPT !.friendly_name = <<2>>]
    BY <1>4, <1>5, <1>6, <2>7
  <2>8. CASE i = [plain EXCEPT !.is_default = TRUE]
    BY <1>5, <1>6, <2>8
  <2> QED
    BY <2>2, <2>3, <2>4, <2>5, <2>6, <2>7, <2>8, Zenon
<1> HIDE DEF others
<1>8. Laws!Interfaces \subseteq S
  BY <1>1, <1>3, <1>5, <1>6, <1>7
<1> QED
  BY <1>8 DEF S

\* All four orders are total, whatever addresses, ports and MAC addresses there are.
LEMMA OrdersHold ==
  ASSUME Laws!InetAssumption, question \in Laws!Questions
  PROVE  Laws!OrdersAreTotal
<1> DEFINE q == question
<1>1. ASSUME Laws!About("ip order")
      PROVE  /\ Laws!TotalOrder(Laws!IpRelations(q.a, q.b), Laws!IpRelations(q.b, q.c),
                                Laws!IpRelations(q.a, q.c))
             /\ q.a.type = "invalid" /\ q.b.type # "invalid" => Laws!IpRelations(q.a, q.b).lt
             /\ Laws!IpRelations(q.a, q.b).eq /\ q.a.scope = q.b.scope =>
                  Laws!HashIp(q.a) = Laws!HashIp(q.b)
  <2>1. q.a \in Laws!AllAddresses /\ q.b \in Laws!AllAddresses /\ q.c \in Laws!AllAddresses
    BY <1>1 DEF Laws!InetAssumption, Laws!Questions, Laws!About
  <2>2. Laws!TotalOrder(Laws!IpRelations(q.a, q.b), Laws!IpRelations(q.b, q.c),
                        Laws!IpRelations(q.a, q.c))
    <3> HIDE DEF q
    <3> QED
      BY <2>1, IpCompares, RelationsAreTotal DEF Laws!IpRelations
  <2>3. ASSUME q.a.type = "invalid", q.b.type # "invalid" PROVE Laws!IpRelations(q.a, q.b).lt
    <3>1. Laws!ip_cmp(q.a, q.b) < 0
      BY <2>1, <2>3, AddressFacts DEF Laws!ip_cmp, Laws!TypeValue
    <3> QED
      BY <3>1 DEF Laws!IpRelations, Laws!Relations
  <2>4. ASSUME Laws!IpRelations(q.a, q.b).eq, q.a.scope = q.b.scope
        PROVE  Laws!HashIp(q.a) = Laws!HashIp(q.b)
    <3>1. Laws!ip_cmp(q.a, q.b) = 0
      BY <2>4 DEF Laws!IpRelations, Laws!Relations
    <3>2. q.a.type = q.b.type /\ q.a.bytes = q.b.bytes
      BY <2>1, <3>1, IpCompares
    <3> QED
      BY <2>4, <3>2 DEF Laws!HashIp
  <2> QED
    BY <2>2, <2>3, <2>4
<1>2. ASSUME Laws!About("sock order")
      PROVE  /\ Laws!TotalOrder(Laws!SockRelations(q.a, q.b), Laws!SockRelations(q.b, q.c),
                                Laws!SockRelations(q.a, q.c))
             /\ Laws!ip_and_port_equal(q.a, q.b) = Laws!SockRelations(q.a, q.b).eq
             /\ Laws!SockRelations(q.a, q.b).eq /\ q.a.ip.scope = q.b.ip.scope =>
                  Laws!HashSock(q.a) = Laws!HashSock(q.b)
  <2> DEFINE S == [ip : Laws!AllAddresses, port : Laws!Bytes(2)]
  <2>1. q.a \in S /\ q.b \in S /\ q.c \in S
    BY <1>2 DEF Laws!InetAssumption, Laws!Questions, Laws!About, Laws!SockAddrs
  <2>2. Laws!TotalOrder(Laws!SockRelations(q.a, q.b), Laws!SockRelations(q.b, q.c),
                        Laws!SockRelations(q.a, q.c))
    <3>1. \A x, y, z \in S :
            /\ SockCmp(x, y) \in Int
            /\ SockCmp(x, y) = 0 <=> Laws!ip_cmp(x.ip, y.ip) = 0 /\ x.port = y.port
            /\ SockCmp(x, y) < 0 <=> Laws!SockLess(x, y)
            /\ Opposite(SockCmp(x, y), SockCmp(y, x))
            /\ Chained(SockCmp(x, y), SockCmp(y, z), SockCmp(x, z))
      BY SockCompares
    <3>2. \A x, y \in S : Laws!SockRelations(x, y) =
            Laws!Relations(SockCmp(x, y) = 0, SockCmp(x, y) < 0, SockCmp(y, x) < 0)
      <4> SUFFICES ASSUME NEW x \in S, NEW y \in S
                   PROVE  Laws!SockRelations(x, y) =
                            Laws!Relations(SockCmp(x, y) = 0, SockCmp(x, y) < 0, SockCmp(y, x) < 0)
        BY Zenon
      <4>1. /\ SockCmp(x, y) = 0 <=> Laws!ip_cmp(x.ip, y.ip) = 0 /\ x.port = y.port
            /\ SockCmp(x, y) < 0 <=> Laws!SockLess(x, y)
            /\ SockCmp(y, x) < 0 <=> Laws!SockLess(y, x)
        BY <3>1
      <4>2. \A v, w : Laws!SockLess(v, w) \in BOOLEAN
        <5> SUFFICES ASSUME NEW v, NEW w PROVE Laws!SockLess(v, w) \in BOOLEAN
          OBVIOUS
        <5>1. CASE v.port = w.port
          BY <5>1 DEF Laws!SockLess
        <5>2. CASE v.port # w.port
          BY <5>2 DEF Laws!SockLess
        <5> QED
          BY <5>1, <5>2
      <4> QED
        BY <4>1, <4>2 DEF Laws!SockRelations
    <3> HIDE DEF S, q
    <3> QED
      BY <2>1, <3>2, <3>1, RelationsAreTotal
  <2>3. Laws!SockRelations(q.a, q.b).eq = (Laws!ip_cmp(q.a.ip, q.b.ip) = 0 /\ q.a.port = q.b.port)
    BY DEF Laws!SockRelations, Laws!Relations
  <2>4. Laws!ip_and_port_equal(q.a, q.b) = Laws!SockRelations(q.a, q.b).eq
    BY <2>3 DEF Laws!ip_and_port_equal
  <2>5. ASSUME Laws!SockRelations(q.a, q.b).eq, q.a.ip.scope = q.b.ip.scope
        PROVE  Laws!HashSock(q.a) = Laws!HashSock(q.b)
    <3>1. Laws!ip_cmp(q.a.ip, q.b.ip) = 0 /\ q.a.port = q.b.port
      BY <2>3, <2>5
    <3>2. q.a.ip.type = q.b.ip.type /\ q.a.ip.bytes = q.b.ip.bytes
      BY <2>1, <3>1, IpCompares
    <3> QED
      BY <2>5, <3>1, <3>2 DEF Laws!HashSock, Laws!HashIp
  <2> QED
    BY <2>2, <2>4, <2>5
<1>3. ASSUME Laws!About("netint order")
      PROVE  /\ Laws!TotalOrder(Laws!NetintRelations(q.a, q.b), Laws!NetintRelations(q.b, q.c),
                                Laws!NetintRelations(q.a, q.c))
             /\ Laws!NetintRelations(q.a, q.b).eq = (q.a = q.b)
  <2> DEFINE S == NetintInfos(1, 1)
  <2>1. q.a \in S /\ q.b \in S /\ q.c \in S
    BY <1>3, InterfacesAreInfos DEF Laws!Questions, Laws!About
  <2> HIDE DEF q
  <2>2. \A x, y, z \in S :
          /\ Laws!netint_info_cmp(x, y) \in Int
          /\ Laws!netint_info_cmp(x, y) = 0 <=> x = y
          /\ Opposite(Laws!netint_info_cmp(x, y), Laws!netint_info_cmp(y, x))
          /\ Chained(Laws!netint_info_cmp(x, y), Laws!netint_info_cmp(y, z), Laws!netint_info_cmp(x, z))
    BY NetintCompares
  <2> HIDE DEF S
  <2>3. Laws!TotalOrder(Laws!NetintRelations(q.a, q.b), Laws!NetintRelations(q.b, q.c),
                        Laws!NetintRelations(q.a, q.c))
    BY <2>1, <2>2, RelationsAreTotal DEF Laws!NetintRelations
  <2>4. Laws!NetintRelations(q.a, q.b).eq = (q.a = q.b)
    BY <2>1, <2>2 DEF Laws!NetintRelations, Laws!Relations
  <2> QED
    BY <2>3, <2>4 DEF q
<1>4. ASSUME Laws!About("mac")
      PROVE  Laws!TotalOrder(Laws!MacRelations(q.mac, q.other), Laws!MacRelations(q.other, q.mac),
                             Laws!MacRelations(q.mac, q.mac))
  <2>1. q.mac \in Laws!Bytes(6) /\ q.other \in Laws!Bytes(6)
    BY <1>4 DEF Laws!InetAssumption, Laws!Questions, Laws!About
  <2> HIDE DEF q
  <2>2. q.mac \in [1 .. 6 -> Int] /\ q.other \in [1 .. 6 -> Int]
    BY <2>1, BytesAreInts
  <2>3. \A x, y, z \in [1 .. 6 -> Int] :
          /\ Laws!memcmp(x, y) \in Int
          /\ Opposite(Laws!memcmp(x, y), Laws!memcmp(y, x))
          /\ Chained(Laws!memcmp(x, y), Laws!memcmp(y, z), Laws!memcmp(x, z))
    BY MemcmpCompares, ZenonT(40)
  <2> QED
    BY <2>2, <2>3, RelationsAreTotal DEF Laws!MacRelations
<1> QED
  BY <1>1, <1>2, <1>3, <1>4, Zenon DEF Laws!OrdersAreTotal

----
(***************************************************************************)
(* Masks.  Bit i of some bytes is bit j of byte k, for i = 8 * (k - 1) + j.  *)
(***************************************************************************)

\* The eight weights
LEMMA WeightOf ==
  /\ Laws!Weights[1] = 128 /\ Laws!Weights[2] = 64 /\ Laws!Weights[3] = 32 /\ Laws!Weights[4] = 16
  /\ Laws!Weights[5] = 8 /\ Laws!Weights[6] = 4 /\ Laws!Weights[7] = 2 /\ Laws!Weights[8] = 1
BY DEF Laws!Weights

LEMMA FullBits ==
  ASSUME NEW j \in 1 .. 8
  PROVE  Laws!BitOf(255, j) = 1 /\ Laws!BitOf(0, j) = 0
<1>1. j = 1 \/ j = 2 \/ j = 3 \/ j = 4 \/ j = 5 \/ j = 6 \/ j = 7 \/ j = 8
  OBVIOUS
<1> QED
  BY <1>1, WeightOf DEF Laws!BitOf

LEMMA TopBitsAre ==
  ASSUME NEW m \in 1 .. 7, NEW j \in 1 .. 8
  PROVE  Laws!BitOf(Laws!TopBits(m), j) = IF j <= m THEN 1 ELSE 0
<1>1. j = 1 \/ j = 2 \/ j = 3 \/ j = 4 \/ j = 5 \/ j = 6 \/ j = 7 \/ j = 8
  OBVIOUS
<1>2. CASE m = 1
  BY <1>1, <1>2, WeightOf DEF Laws!BitOf, Laws!TopBits
<1>3. CASE m = 2
  BY <1>1, <1>3, WeightOf DEF Laws!BitOf, Laws!TopBits
<1>4. CASE m = 3
  BY <1>1, <1>4, WeightOf DEF Laws!BitOf, Laws!TopBits
<1>5. CASE m = 4
  BY <1>1, <1>5, WeightOf DEF Laws!BitOf, Laws!TopBits
<1>6. CASE m = 5
  BY <1>1, <1>6, WeightOf DEF Laws!BitOf, Laws!TopBits
<1>7. CASE m = 6
  BY <1>1, <1>7, WeightOf DEF Laws!BitOf, Laws!TopBits
<1>8. CASE m = 7
  BY <1>1, <1>8, WeightOf DEF Laws!BitOf, Laws!TopBits
<1> QED
  BY <1>2, <1>3, <1>4, <1>5, <1>6, <1>7, <1>8

LEMMA BitIsBit ==
  ASSUME NEW byte \in 0 .. 255, NEW j \in 1 .. 8
  PROVE  Laws!BitOf(byte, j) \in {0, 1}
<1>1. Laws!Weights[j] \in {128, 64, 32, 16, 8, 4, 2, 1}
  BY WeightOf
<1>2. byte \div Laws!Weights[j] \in Int
  BY <1>1
<1> QED
  BY <1>2 DEF Laws!BitOf

\* The place of a bit, and back
LEMMA PlaceOf ==
  ASSUME NEW w \in Nat, NEW i \in 1 .. 8 * w
  PROVE  \E k \in 1 .. w : \E j \in 1 .. 8 : i = 8 * (k - 1) + j
<1>1. ((i - 1) \div 8) + 1 \in 1 .. w /\ ((i - 1) % 8) + 1 \in 1 .. 8
  OBVIOUS
<1>2. i = 8 * ((((i - 1) \div 8) + 1) - 1) + ((i - 1) % 8) + 1
  OBVIOUS
<1> QED
  BY <1>1, <1>2

LEMMA BitAt ==
  ASSUME NEW w \in Nat, NEW bytes, NEW k \in 1 .. w, NEW j \in 1 .. 8
  PROVE  /\ 8 * (k - 1) + j \in 1 .. 8 * w
         /\ Laws!Bit(bytes, 8 * (k - 1) + j) = Laws!BitOf(bytes[k], j)
<1> DEFINE i == 8 * (k - 1) + j
<1>1. i \in 1 .. 8 * w /\ (i - 1) \div 8 = k - 1 /\ (i - 1) % 8 = j - 1
  OBVIOUS
<1> HIDE DEF i
<1>2. ((i - 1) \div 8) + 1 = k /\ ((i - 1) % 8) + 1 = j
  BY <1>1
<1>3. Laws!Bit(bytes, i) = Laws!BitOf(bytes[k], j)
  BY <1>2 DEF Laws!Bit
<1> QED
  BY <1>1, <1>3 DEF i

\* A mask of n bits has the first n and no other.
LEMMA MaskBit ==
  ASSUME NEW w \in Nat, NEW n \in 0 .. 8 * w, NEW i \in 1 .. 8 * w
  PROVE  Laws!Bit(Laws!MaskBytes(n, w), i) = IF i <= n THEN 1 ELSE 0
<1>1. PICK k \in 1 .. w : \E j \in 1 .. 8 : i = 8 * (k - 1) + j
  BY PlaceOf
<1>2. PICK j \in 1 .. 8 : i = 8 * (k - 1) + j
  BY <1>1
<1>3. Laws!Bit(Laws!MaskBytes(n, w), i) = Laws!BitOf(Laws!MaskBytes(n, w)[k], j)
  BY <1>2, BitAt
<1>4. Laws!MaskBytes(n, w)[k] = IF 8 * k <= n THEN 255
                                ELSE IF 8 * (k - 1) < n THEN Laws!TopBits(n - 8 * (k - 1)) ELSE 0
  BY DEF Laws!MaskBytes
<1>5. CASE 8 * k <= n
  <2>1. i <= n
    BY <1>2, <1>5
  <2> QED
    BY <1>3, <1>4, <1>5, <2>1, FullBits
<1>6. CASE ~(8 * k <= n) /\ 8 * (k - 1) < n
  <2>1. n - 8 * (k - 1) \in 1 .. 7 /\ (i <= n <=> j <= n - 8 * (k - 1))
    BY <1>2, <1>6
  <2> QED
    BY <1>3, <1>4, <1>6, <2>1, TopBitsAre
<1>7. CASE ~(8 * k <= n) /\ ~(8 * (k - 1) < n)
  <2>1. ~(i <= n)
    BY <1>2, <1>7
  <2> QED
    BY <1>3, <1>4, <1>7, <2>1, FullBits
<1> QED
  BY <1>5, <1>6, <1>7

\* SetFrom counts the bits that are set before the first that is not.
LEMMA SetFromCounts ==
  ASSUME NEW bytes, NEW first \in Nat, NEW last \in Nat, first <= last
  PROVE  /\ Laws!SetFrom(bytes, first, last) \in 0 .. last - first + 1
         /\ \A i \in first .. first + Laws!SetFrom(bytes, first, last) - 1 : Laws!Bit(bytes, i) # 0
         /\ \/ first + Laws!SetFrom(bytes, first, last) = last + 1
            \/ Laws!Bit(bytes, first + Laws!SetFrom(bytes, first, last)) = 0
<1> DEFINE unset == {i \in first .. last : Laws!Bit(bytes, i) = 0}
<1>1. Laws!SetFrom(bytes, first, last) = IF unset = {} THEN last - first + 1
                                         ELSE Laws!Min(unset) - first
  BY DEF Laws!SetFrom
<1>2. CASE unset = {}
  BY <1>1, <1>2
<1>3. CASE unset # {}
  <2>1. unset \in SUBSET Nat
    OBVIOUS
  <2> HIDE DEF unset
  <2>2. PICK m : m = Laws!Min(unset) /\ m \in unset /\ \A x \in unset : m <= x
    BY <1>3, <2>1, MinIsFirst
  <2>3. m \in first .. last /\ Laws!Bit(bytes, m) = 0
    BY <2>2 DEF unset
  <2>4. Laws!SetFrom(bytes, first, last) = m - first
    BY <1>1, <1>3, <2>2
  <2>5. \A i \in first .. m - 1 : Laws!Bit(bytes, i) # 0
    BY <2>2, <2>3 DEF unset
  <2> QED
    BY <2>3, <2>4, <2>5
<1> QED
  BY <1>2, <1>3

\* A byte whose bits are all set
LEMMA AllSet ==
  ASSUME NEW byte \in 0 .. 255, \A j \in 1 .. 8 : Laws!BitOf(byte, j) # 0
  PROVE  byte = 255
<1>1. /\ (byte \div 128) % 2 # 0 /\ (byte \div 64) % 2 # 0 /\ (byte \div 32) % 2 # 0
      /\ (byte \div 16) % 2 # 0 /\ (byte \div 8) % 2 # 0 /\ (byte \div 4) % 2 # 0
      /\ (byte \div 2) % 2 # 0 /\ (byte \div 1) % 2 # 0
  BY WeightOf DEF Laws!BitOf
<1>2. byte >= 128
  BY <1>1
<1>3. byte >= 192
  BY <1>1, <1>2
<1>4. byte >= 224
  BY <1>1, <1>3
<1>5. byte >= 240
  BY <1>1, <1>4
<1>6. byte >= 248
  BY <1>1, <1>5
<1>7. byte >= 252
  BY <1>1, <1>6
<1>8. byte >= 254
  BY <1>1, <1>7
<1> QED
  BY <1>1, <1>8

\* What etcpal_ip_mask_length answers for 128 bits
LEMMA LongLength ==
  ASSUME NEW ip, ip.type = "v6", ip.bytes \in Laws!Bytes(16)
  PROVE  \/ Laws!mask_length(ip) = 128 /\ \A k \in 1 .. 16 : ip.bytes[k] = 255
         \/ \E full \in 0 .. 15 :
              /\ \A k \in 1 .. full : ip.bytes[k] = 255
              /\ ip.bytes[full + 1] # 255
              /\ Laws!mask_length(ip) = 8 * full + Laws!SetFrom(ip.bytes, 8 * full + 1, 8 * full + 8)
<1> DEFINE rest == {k \in 1 .. 16 : ip.bytes[k] # 255}
           full == Laws!Min(rest) - 1
<1>1. Laws!mask_length(ip) = IF rest = {} THEN 128
                             ELSE 8 * full + Laws!SetFrom(ip.bytes, 8 * full + 1, 8 * full + 8)
  BY DEF Laws!mask_length
<1>2. CASE rest = {}
  BY <1>1, <1>2
<1>3. CASE rest # {}
  <2>1. rest \in SUBSET Nat
    OBVIOUS
  <2> HIDE DEF rest
  <2>2. Laws!Min(rest) \in rest /\ \A x \in rest : Laws!Min(rest) <= x
    BY <1>3, <2>1, MinIsFirst
  <2>3. Laws!Min(rest) \in 1 .. 16 /\ ip.bytes[Laws!Min(rest)] # 255
    BY <2>2 DEF rest
  <2>4. full \in 0 .. 15 /\ full + 1 = Laws!Min(rest)
    BY <2>3
  <2>5. \A k \in 1 .. full : ip.bytes[k] = 255
    BY <2>2, <2>4 DEF rest
  <2> HIDE DEF full
  <2> QED
    BY <1>1, <1>3, <2>3, <2>4, <2>5
<1> QED
  BY <1>2, <1>3

\* It is the number of bits before the first that is not set.
LEMMA LengthCounts ==
  ASSUME NEW ip, ip.type \in {"v4", "v6"}, ip.bytes \in Laws!Bytes(Laws!Width(ip.type))
  PROVE  /\ Laws!mask_length(ip) \in 0 .. 8 * Laws!Width(ip.type)
         /\ \A i \in 1 .. Laws!mask_length(ip) : Laws!Bit(ip.bytes, i) = 1
         /\ \/ Laws!mask_length(ip) = 8 * Laws!Width(ip.type)
            \/ Laws!Bit(ip.bytes, Laws!mask_length(ip) + 1) = 0
<1> DEFINE w == Laws!Width(ip.type)
           L == Laws!mask_length(ip)
<1>1. w \in {4, 16} /\ \A k \in 1 .. w : ip.bytes[k] \in 0 .. 255
  <2>1. w \in {4, 16}
    BY DEF Laws!Width
  <2>2. ip.bytes \in [1 .. w -> 0 .. 255]
    BY DEF Laws!Bytes
  <2> HIDE DEF w
  <2> QED
    BY <2>1, <2>2
<1>2. \A i \in 1 .. 8 * w : Laws!Bit(ip.bytes, i) \in {0, 1}
  <2> SUFFICES ASSUME NEW i \in 1 .. 8 * w PROVE Laws!Bit(ip.bytes, i) \in {0, 1}
    OBVIOUS
  <2> HIDE DEF w
  <2>1. w \in Nat
    BY <1>1
  <2>2. PICK k \in 1 .. w : \E j \in 1 .. 8 : i = 8 * (k - 1) + j
    BY <2>1, PlaceOf
  <2>3. PICK j \in 1 .. 8 : i = 8 * (k - 1) + j
    BY <2>2
  <2>4. ip.bytes[k] \in 0 .. 255
    BY <1>1
  <2>5. Laws!Bit(ip.bytes, i) = Laws!BitOf(ip.bytes[k], j)
    BY <2>1, <2>3, BitAt
  <2> QED
    BY <2>4, <2>5, BitIsBit
<1>3. L \in 0 .. 8 * w /\ (\A i \in 1 .. L : Laws!Bit(ip.bytes, i) # 0)
      /\ (L = 8 * w \/ Laws!Bit(ip.bytes, L + 1) = 0)
  <2>1. CASE ip.type = "v4"
    <3>1. w = 4 /\ L = Laws!SetFrom(ip.bytes, 1, 32)
      BY <2>1 DEF Laws!Width, Laws!mask_length
    <3> DEFINE n == Laws!SetFrom(ip.bytes, 1, 32)
    <3>2. n \in 0 .. 32 /\ (\A i \in 1 .. 1 + n - 1 : Laws!Bit(ip.bytes, i) # 0)
          /\ (1 + n = 32 + 1 \/ Laws!Bit(ip.bytes, 1 + n) = 0)
      BY SetFromCounts
    <3> HIDE DEF n, L, w
    <3>3. L = n
      BY <3>1 DEF n
    <3>4. 1 + n = n + 1 /\ 1 + n - 1 = n
      BY <3>2
    <3> QED
      BY <3>1, <3>2, <3>3, <3>4
  <2>2. CASE ip.type = "v6"
    <3>1. w = 16
      BY <2>2 DEF Laws!Width
    <3>2. \A k \in 1 .. 16 : \A j \in 1 .. 8 : Laws!Bit(ip.bytes, 8 * (k - 1) + j) = Laws!BitOf(ip.bytes[k], j)
      BY BitAt
    <3>3. \A k \in 1 .. 16 : ip.bytes[k] = 255 => \A j \in 1 .. 8 : Laws!Bit(ip.bytes, 8 * (k - 1) + j) = 1
      BY <3>2, FullBits
    <3>4. CASE L = 128 /\ \A k \in 1 .. 16 : ip.bytes[k] = 255
      <4>1. ASSUME NEW i \in 1 .. 128 PROVE Laws!Bit(ip.bytes, i) # 0
        <5>1. PICK k \in 1 .. 16 : \E j \in 1 .. 8 : i = 8 * (k - 1) + j
          BY PlaceOf
        <5> QED
          BY <3>3, <3>4, <5>1
      <4> QED
        BY <3>1, <3>4, <4>1
    <3>5. ASSUME NEW full \in 0 .. 15, \A k \in 1 .. full : ip.bytes[k] = 255, ip.bytes[full + 1] # 255,
                 L = 8 * full + Laws!SetFrom(ip.bytes, 8 * full + 1, 8 * full + 8)
          PROVE  L \in 0 .. 8 * w /\ (\A i \in 1 .. L : Laws!Bit(ip.bytes, i) # 0)
                 /\ (L = 8 * w \/ Laws!Bit(ip.bytes, L + 1) = 0)
      <4> DEFINE first == 8 * full + 1
                 last == 8 * full + 8
                 n == Laws!SetFrom(ip.bytes, first, last)
      <4>1. first \in Nat /\ last \in Nat /\ first <= last /\ last - first + 1 = 8
            /\ first = 8 * full + 1 /\ last = 8 * full + 8
        OBVIOUS
      <4>2. L = 8 * full + n
        BY <3>5
      <4> HIDE DEF first, last, L, w
      <4>3. n \in 0 .. 8 /\ (\A i \in first .. first + n - 1 : Laws!Bit(ip.bytes, i) # 0)
            /\ (first + n = last + 1 \/ Laws!Bit(ip.bytes, first + n) = 0)
        BY <4>1, SetFromCounts
      <4> HIDE DEF n
      <4>4. ASSUME NEW i \in 1 .. L PROVE Laws!Bit(ip.bytes, i) # 0
        <5>1. CASE i <= 8 * full
          <6>1. i \in 1 .. 8 * full /\ full \in Nat
            BY <4>2, <4>3, <4>4, <5>1
          <6>2. PICK k \in 1 .. full : \E j \in 1 .. 8 : i = 8 * (k - 1) + j
            BY <6>1, PlaceOf
          <6>3. k \in 1 .. 16 /\ ip.bytes[k] = 255
            BY <3>5
          <6> QED
            BY <3>3, <6>2, <6>3
        <5>2. CASE i > 8 * full
          <6>1. i \in first .. first + n - 1
            BY <4>1, <4>2, <4>3, <4>4, <5>2
          <6> QED
            BY <4>3, <6>1
        <5> QED
          BY <4>2, <4>3, <5>1, <5>2
      <4>5. L + 1 = first + n /\ L \in 0 .. 128
        BY <4>1, <4>2, <4>3
      <4>6. first + n # last + 1
        <5>1. SUFFICES ASSUME first + n = last + 1 PROVE FALSE
          OBVIOUS
        <5>2. ASSUME NEW j \in 1 .. 8 PROVE Laws!BitOf(ip.bytes[full + 1], j) # 0
          <6>1. 8 * full + j \in first .. first + n - 1 /\ full + 1 \in 1 .. 16
                /\ 8 * ((full + 1) - 1) + j = 8 * full + j
            BY <4>1, <4>3, <5>1
          <6>2. Laws!Bit(ip.bytes, 8 * full + j) = Laws!BitOf(ip.bytes[full + 1], j)
            BY <3>2, <6>1
          <6> QED
            BY <4>3, <6>1, <6>2
        <5>3. ip.bytes[full + 1] \in 0 .. 255
          <6>1. full + 1 \in 1 .. 16
            OBVIOUS
          <6> QED
            BY <1>1, <3>1, <6>1
        <5>4. ip.bytes[full + 1] = 255
          BY <5>2, <5>3, AllSet, Zenon
        <5> QED
          BY <3>5, <5>4
      <4> QED
        BY <3>1, <4>3, <4>4, <4>5, <4>6
    <3>6. ip.bytes \in Laws!Bytes(16)
      BY <3>1
    <3> HIDE DEF L
    <3>7. \/ L = 128 /\ \A k \in 1 .. 16 : ip.bytes[k] = 255
          \/ \E full \in 0 .. 15 :
              /\ \A k \in 1 .. full : ip.bytes[k] = 255
              /\ ip.bytes[full + 1] # 255
              /\ L = 8 * full + Laws!SetFrom(ip.bytes, 8 * full + 1, 8 * full + 8)
      BY <2>2, <3>6, LongLength DEF L
    <3> QED
      BY <3>4, <3>5, <3>7 DEF L
  <2> QED
    BY <2>1, <2>2
<1> HIDE DEF L, w
<1>4. \A i \in 1 .. L : i \in 1 .. 8 * w
  BY <1>1, <1>3
<1>5. \A i \in 1 .. L : Laws!Bit(ip.bytes, i) = 1
  BY <1>2, <1>3, <1>4
<1> QED
  BY <1>3, <1>5 DEF L, w

LEMMA MaskBytesAre ==
  ASSUME NEW w \in Nat, NEW n \in 0 .. 8 * w
  PROVE  Laws!MaskBytes(n, w) \in Laws!Bytes(w)
<1>1. \A m \in 1 .. 7 : Laws!TopBits(m) \in 0 .. 255
  <2> SUFFICES ASSUME NEW m \in 1 .. 7 PROVE Laws!TopBits(m) \in 0 .. 255
    OBVIOUS
  <2>1. Laws!Weights[m] \in {128, 64, 32, 16, 8, 4, 2}
    BY WeightOf
  <2> QED
    BY <2>1 DEF Laws!TopBits
<1>2. \A k \in 1 .. w : ~(8 * k <= n) /\ 8 * (k - 1) < n => n - 8 * (k - 1) \in 1 .. 7
  OBVIOUS
<1>3. \A k \in 1 .. w : (IF 8 * k <= n THEN 255
                         ELSE IF 8 * (k - 1) < n THEN Laws!TopBits(n - 8 * (k - 1)) ELSE 0) \in 0 .. 255
  BY <1>1, <1>2
<1> QED
  BY <1>3 DEF Laws!MaskBytes, Laws!Bytes

\* The mask of a length, for either type
LEMMA MaskIs ==
  ASSUME NEW type \in {"v4", "v6"}, NEW length \in Nat,
         NEW n, n = Laws!AtMost(length, 8 * Laws!Width(type)),
         NEW mask, mask = Laws!mask_from_length(type, length)
  PROVE  /\ n \in 0 .. 8 * Laws!Width(type)
         /\ mask.type = type /\ mask.bytes = Laws!MaskBytes(n, Laws!Width(type))
BY DEF Laws!AtMost, Laws!Width, Laws!mask_from_length, Laws!V4, Laws!V6

\* A mask has the length that it was made of.
LEMMA LengthOfMask ==
  ASSUME NEW type \in {"v4", "v6"}, NEW mask, NEW n \in 0 .. 8 * Laws!Width(type),
         mask.type = type, mask.bytes = Laws!MaskBytes(n, Laws!Width(type))
  PROVE  Laws!mask_length(mask) = n
<1> DEFINE w == Laws!Width(type)
           L == Laws!mask_length(mask)
<1>1. w \in Nat
  BY DEF Laws!Width
<1>2. mask.bytes \in Laws!Bytes(w)
  BY <1>1, MaskBytesAre
<1>3. /\ L \in 0 .. 8 * w
      /\ \A i \in 1 .. L : Laws!Bit(mask.bytes, i) = 1
      /\ L = 8 * w \/ Laws!Bit(mask.bytes, L + 1) = 0
  BY <1>2, LengthCounts
<1>4. \A i \in 1 .. 8 * w : Laws!Bit(mask.bytes, i) = IF i <= n THEN 1 ELSE 0
  BY <1>1, MaskBit
<1>5. n \in 0 .. 8 * w
  OBVIOUS
<1> HIDE DEF L, w
<1>6. ASSUME L > n PROVE FALSE
  <2>1. n + 1 \in 1 .. L /\ n + 1 \in 1 .. 8 * w
    BY <1>1, <1>3, <1>5, <1>6
  <2> QED
    BY <1>3, <1>4, <1>5, <2>1
<1>7. ASSUME L < n PROVE FALSE
  <2>1. L + 1 \in 1 .. 8 * w /\ L # 8 * w /\ L + 1 <= n
    BY <1>1, <1>3, <1>5, <1>7
  <2> QED
    BY <1>3, <1>4, <2>1
<1> QED
  BY <1>3, <1>5, <1>6, <1>7 DEF L

\* Two addresses are of one network if the bits under its mask are the same.
LEMMA SameNetwork ==
  ASSUME NEW a, NEW b, NEW mask, NEW n \in 0 .. 8 * Laws!Width(a.type),
         a.type \in {"v4", "v6"}, b.type = a.type, mask.type = a.type,
         a.bytes \in Laws!Bytes(Laws!Width(a.type)), b.bytes \in Laws!Bytes(Laws!Width(a.type)),
         mask.bytes = Laws!MaskBytes(n, Laws!Width(a.type))
  PROVE  Laws!network_portions_equal(a, b, mask) <=>
           \A i \in 1 .. n : Laws!Bit(a.bytes, i) = Laws!Bit(b.bytes, i)
<1> DEFINE w == Laws!Width(a.type)
           Same(k, j) == Laws!BitOf(a.bytes[k], j) * Laws!BitOf(mask.bytes[k], j)
                           = Laws!BitOf(b.bytes[k], j) * Laws!BitOf(mask.bytes[k], j)
<1>1. /\ w \in Nat /\ n \in 0 .. 8 * w
      /\ \A k \in 1 .. w : a.bytes[k] \in 0 .. 255
      /\ \A k \in 1 .. w : b.bytes[k] \in 0 .. 255
  <2>1. w \in Nat
    BY DEF Laws!Width
  <2> HIDE DEF w
  <2>2. a.bytes \in [1 .. w -> 0 .. 255] /\ b.bytes \in [1 .. w -> 0 .. 255]
    BY DEF Laws!Bytes, w
  <2>3. n \in 0 .. 8 * w
    BY DEF w
  <2> QED
    BY <2>1, <2>2, <2>3
<1>2. Laws!network_portions_equal(a, b, mask) <=> \A k \in 1 .. w : \A j \in 1 .. 8 : Same(k, j)
  <2>1. \A x, y, m : Laws!Masked(x, m) = Laws!Masked(y, m) <=>
          \A j \in 1 .. 8 : Laws!BitOf(x, j) * Laws!BitOf(m, j) = Laws!BitOf(y, j) * Laws!BitOf(m, j)
    BY DEF Laws!Masked
  <2>2. a.type # "invalid"
    OBVIOUS
  <2>3. Laws!network_portions_equal(a, b, mask) <=>
          \A k \in 1 .. w : Laws!Masked(a.bytes[k], mask.bytes[k]) = Laws!Masked(b.bytes[k], mask.bytes[k])
    BY <2>2 DEF Laws!network_portions_equal
  <2> QED
    BY <2>1, <2>3
<1>3. \A k \in 1 .. w : \A j \in 1 .. 8 :
        Same(k, j) <=> (8 * (k - 1) + j <= n =>
                          Laws!Bit(a.bytes, 8 * (k - 1) + j) = Laws!Bit(b.bytes, 8 * (k - 1) + j))
  <2> SUFFICES ASSUME NEW k \in 1 .. w, NEW j \in 1 .. 8
               PROVE  Same(k, j) <=> (8 * (k - 1) + j <= n =>
                        Laws!Bit(a.bytes, 8 * (k - 1) + j) = Laws!Bit(b.bytes, 8 * (k - 1) + j))
    OBVIOUS
  <2>1. a.bytes[k] \in 0 .. 255 /\ b.bytes[k] \in 0 .. 255
    BY <1>1
  <2>2. Laws!BitOf(a.bytes[k], j) \in {0, 1} /\ Laws!BitOf(b.bytes[k], j) \in {0, 1}
    BY <2>1, BitIsBit
  <2> DEFINE i == 8 * (k - 1) + j
  <2> HIDE DEF w
  <2>3. /\ i \in 1 .. 8 * w
        /\ Laws!Bit(a.bytes, i) = Laws!BitOf(a.bytes[k], j)
        /\ Laws!Bit(b.bytes, i) = Laws!BitOf(b.bytes[k], j)
        /\ Laws!Bit(mask.bytes, i) = Laws!BitOf(mask.bytes[k], j)
    BY <1>1, BitAt, SMTT(60)
  <2>4. Laws!Bit(mask.bytes, i) = IF i <= n THEN 1 ELSE 0
    <3> HIDE DEF i
    <3>1. mask.bytes = Laws!MaskBytes(n, w)
      BY DEF w
    <3> QED
      BY <1>1, <2>3, <3>1, MaskBit
  <2> HIDE DEF i
  <2>5. Same(k, j) <=> (i <= n => Laws!Bit(a.bytes, i) = Laws!Bit(b.bytes, i))
    BY <2>2, <2>3, <2>4
  <2> QED
    BY <2>5 DEF i
<1> HIDE DEF Same, w
<1>4. ASSUME \A k \in 1 .. w : \A j \in 1 .. 8 : Same(k, j), NEW i \in 1 .. n
      PROVE  Laws!Bit(a.bytes, i) = Laws!Bit(b.bytes, i)
  <2>1. i \in 1 .. 8 * w /\ i <= n
    BY <1>1
  <2>2. PICK k \in 1 .. w : \E j \in 1 .. 8 : i = 8 * (k - 1) + j
    BY <1>1, <2>1, PlaceOf
  <2> QED
    BY <1>3, <1>4, <2>1, <2>2
<1>5. ASSUME \A i \in 1 .. n : Laws!Bit(a.bytes, i) = Laws!Bit(b.bytes, i),
             NEW k \in 1 .. w, NEW j \in 1 .. 8
      PROVE  Same(k, j)
  <2>1. 8 * (k - 1) + j <= n => 8 * (k - 1) + j \in 1 .. n
    BY <1>1
  <2> QED
    BY <1>3, <1>5, <2>1
<1> QED
  BY <1>2, <1>4, <1>5

LEMMA MasksHold ==
  ASSUME Laws!InetAssumption, question \in Laws!Questions
  PROVE  Laws!MasksCount
<1> DEFINE a == question.a
           b == question.b
           length == question.length
           n == Laws!AtMost(length, 8 * Laws!Width(a.type))
           mask == Laws!mask_from_length(a.type, length)
<1> SUFFICES ASSUME Laws!About("mask"), a.type # "invalid"
             PROVE  /\ Laws!mask_length(mask) = n
                    /\ a.type = b.type =>
                         (Laws!network_portions_equal(a, b, mask) <=>
                            \A i \in 1 .. n : Laws!Bit(a.bytes, i) = Laws!Bit(b.bytes, i))
                    /\ \A i \in 1 .. Laws!mask_length(a) : Laws!Bit(a.bytes, i) = 1
  BY Zenon DEF Laws!MasksCount
<1>1. a \in Laws!AllAddresses /\ b \in Laws!AllAddresses /\ length \in Nat
  BY DEF Laws!InetAssumption, Laws!Questions, Laws!About
<1>2. a.type \in {"v4", "v6"} /\ a.bytes \in Laws!Bytes(Laws!Width(a.type))
  BY <1>1, AddressFacts
<1>3. b.type = a.type => b.bytes \in Laws!Bytes(Laws!Width(a.type))
  BY <1>1, <1>2, AddressFacts
<1>4. n \in 0 .. 8 * Laws!Width(a.type) /\ mask.type = a.type
      /\ mask.bytes = Laws!MaskBytes(n, Laws!Width(a.type))
  <2>1. n = Laws!AtMost(length, 8 * Laws!Width(a.type)) /\ mask = Laws!mask_from_length(a.type, length)
    BY Zenon
  <2> HIDE DEF a, length, n, mask
  <2>2. a.type \in {"v4", "v6"} /\ length \in Nat
    BY <1>1, <1>2
  <2> QED
    BY <2>1, <2>2, MaskIs
<1> HIDE DEF a, b, n, mask
<1>5. Laws!mask_length(mask) = n
  BY <1>2, <1>4, LengthOfMask
<1>6. \A i \in 1 .. Laws!mask_length(a) : Laws!Bit(a.bytes, i) = 1
  BY <1>2, LengthCounts
<1>7. a.type = b.type => (Laws!network_portions_equal(a, b, mask) <=>
                            \A i \in 1 .. n : Laws!Bit(a.bytes, i) = Laws!Bit(b.bytes, i))
  BY <1>2, <1>3, <1>4, SameNetwork
<1> QED
  BY <1>5, <1>6, <1>7

----
(***************************************************************************)
(* Kinds of addresses.                                                     *)
(***************************************************************************)
LEMMA KindsHold ==
  ASSUME Laws!InetAssumption, question \in Laws!Questions
  PROVE  Laws!KindsAreDistinct
<1> DEFINE ip == question.sa.ip
           link == Laws!is_link_local(ip)
           loop == Laws!is_loopback(ip)
           multi == Laws!is_multicast(ip)
           wild == Laws!is_wildcard(ip)
           kinds == {k \in 1 .. 4 : <<link, loop, multi, wild>>[k]}
<1> SUFFICES ASSUME Laws!About("name")
             PROVE  /\ \A k, l \in kinds : k = l
                    /\ wild <=> ip.type # "invalid" /\ Laws!ip_cmp(ip, Laws!set_wildcard(ip.type)) = 0
  BY Zenon DEF Laws!KindsAreDistinct
<1>1. ip \in Laws!AllAddresses
  BY DEF Laws!InetAssumption, Laws!Questions, Laws!About, Laws!SockAddrs
<1> HIDE DEF ip
<1>2. Laws!Zeros(4)[1] = 0 /\ Laws!Zeros(16)[1] = 0 /\ Laws!Zeros(16)[16] = 0
  BY DEF Laws!Zeros
<1>3. /\ [Laws!Zeros(16) EXCEPT ![16] = 1][1] = 0
      /\ [Laws!Zeros(16) EXCEPT ![16] = 1][16] = 1
  BY DEF Laws!Zeros
<1>4. /\ ~(link /\ loop) /\ ~(link /\ multi) /\ ~(link /\ wild)
      /\ ~(loop /\ multi) /\ ~(loop /\ wild) /\ ~(multi /\ wild)
  <2>1. CASE ip.type = "v4"
    <3>1. /\ link => ip.bytes[1] = 169
          /\ loop => ip.bytes[1] = 127
          /\ multi => ip.bytes[1] \in 224 .. 239
          /\ wild => ip.bytes[1] = 0
      BY <1>2, <2>1 DEF Laws!is_link_local, Laws!is_loopback, Laws!is_multicast, Laws!is_wildcard, Laws!Width
    <3> HIDE DEF link, loop, multi, wild
    <3> QED
      BY <3>1
  <2>2. CASE ip.type = "v6"
    <3>1. /\ link => ip.bytes[1] = 254
          /\ loop => ip.bytes[1] = 0 /\ ip.bytes[16] = 1
          /\ multi => ip.bytes[1] = 255
          /\ wild => ip.bytes[1] = 0 /\ ip.bytes[16] = 0
      BY <1>2, <1>3, <2>2
         DEF Laws!is_link_local, Laws!is_loopback, Laws!is_multicast, Laws!is_wildcard, Laws!Width
    <3> HIDE DEF link, loop, multi, wild
    <3> QED
      BY <3>1
  <2>3. CASE ip.type = "invalid"
    BY <2>3 DEF Laws!is_link_local, Laws!is_loopback, Laws!is_multicast, Laws!is_wildcard
  <2> QED
    BY <1>1, <2>1, <2>2, <2>3, AddressFacts
<1>5. \A k \in 1 .. 4 : k \in kinds <=> \/ k = 1 /\ link
                                        \/ k = 2 /\ loop
                                        \/ k = 3 /\ multi
                                        \/ k = 4 /\ wild
  <2>1. link \in BOOLEAN /\ loop \in BOOLEAN /\ multi \in BOOLEAN /\ wild \in BOOLEAN
    BY DEF Laws!is_link_local, Laws!is_loopback, Laws!is_multicast, Laws!is_wildcard
  <2> HIDE DEF link, loop, multi, wild
  <2>2. \A k \in 1 .. 4 : k = 1 \/ k = 2 \/ k = 3 \/ k = 4
    OBVIOUS
  <2>3. (1 \in kinds <=> link) /\ (2 \in kinds <=> loop) /\ (3 \in kinds <=> multi)
        /\ (4 \in kinds <=> wild)
    BY <2>1
  <2> HIDE DEF kinds
  <2> QED
    BY <2>1, <2>2, <2>3
<1>6. wild <=> ip.type # "invalid" /\ Laws!ip_cmp(ip, Laws!set_wildcard(ip.type)) = 0
  <2>1. Laws!V4(Laws!Zeros(4)) \in Unscoped /\ Laws!V6(Laws!Zeros(16), 0) \in Unscoped
    BY SomeAreUnscoped
  <2>2. CASE ip.type = "v4"
    <3>1. Laws!set_wildcard(ip.type) = Laws!V4(Laws!Zeros(4))
      BY <2>2 DEF Laws!set_wildcard
    <3>2. Laws!ip_cmp(ip, Laws!V4(Laws!Zeros(4))) = 0 <=> ip.bytes = Laws!Zeros(4)
      BY <1>1, <2>1, <2>2, IpCompares DEF Unscoped, Laws!V4
    <3> QED
      BY <2>2, <3>1, <3>2 DEF Laws!is_wildcard, Laws!Width
  <2>3. CASE ip.type = "v6"
    <3>1. Laws!set_wildcard(ip.type) = Laws!V6(Laws!Zeros(16), 0)
      BY <2>3 DEF Laws!set_wildcard
    <3>2. Laws!ip_cmp(ip, Laws!V6(Laws!Zeros(16), 0)) = 0 <=> ip.bytes = Laws!Zeros(16)
      BY <1>1, <2>1, <2>3, IpCompares DEF Unscoped, Laws!V6
    <3> QED
      BY <2>3, <3>1, <3>2 DEF Laws!is_wildcard, Laws!Width
  <2>4. CASE ip.type = "invalid"
    BY <2>4 DEF Laws!is_wildcard
  <2> QED
    BY <1>1, <2>2, <2>3, <2>4, AddressFacts
<1>7. \A k, l \in kinds : k = l
  <2>1. \A k \in kinds : k \in 1 .. 4
    OBVIOUS
  <2> HIDE DEF kinds, link, loop, multi, wild
  <2> QED
    BY <1>4, <1>5, <2>1
<1> QED
  BY <1>6, <1>7

----
(***************************************************************************)
(* Addresses that go to the system or into text, and come back.            *)
(***************************************************************************)

\* Swapping the bytes twice changes nothing.
LEMMA SwappedBack ==
  ASSUME NEW host, NEW n \in Nat, NEW value \in Laws!Bytes(n)
  PROVE  Laws!Swapped(host, Laws!Swapped(host, value)) = value
<1>1. value \in Seq(0 .. 255) /\ Len(value) = n /\ value = [i \in 1 .. n |-> value[i]]
  BY DEF Laws!Bytes
<1> DEFINE turned == [i \in 1 .. Len(value) |-> value[(Len(value) - i) + 1]]
<1>2. Laws!Sx!Reverse(value) = turned
  BY DEF Laws!Sx!Reverse
<1>3. turned \in Seq(0 .. 255) /\ Len(turned) = n /\ \A i \in 1 .. n : turned[i] = value[(n - i) + 1]
  <2>1. \A i \in 1 .. n : (n - i) + 1 \in 1 .. n
    OBVIOUS
  <2>2. \A i \in 1 .. n : value[i] \in 0 .. 255
    BY DEF Laws!Bytes
  <2>3. turned = [i \in 1 .. n |-> value[(n - i) + 1]]
    BY <1>1
  <2>4. turned \in [1 .. n -> 0 .. 255]
    BY <2>1, <2>2, <2>3
  <2> QED
    BY <2>3, <2>4
<1> HIDE DEF turned
<1>4. Laws!Sx!Reverse(turned) = [i \in 1 .. n |-> turned[(n - i) + 1]]
  BY <1>3 DEF Laws!Sx!Reverse
<1>5. \A i \in 1 .. n : turned[(n - i) + 1] = value[i]
  <2> SUFFICES ASSUME NEW i \in 1 .. n PROVE turned[(n - i) + 1] = value[i]
    OBVIOUS
  <2>1. (n - i) + 1 \in 1 .. n /\ (n - ((n - i) + 1)) + 1 = i
    OBVIOUS
  <2> QED
    BY <1>3, <2>1
<1>6. Laws!Sx!Reverse(turned) = value
  BY <1>1, <1>4, <1>5
<1> QED
  BY <1>2, <1>6 DEF Laws!Swapped

LEMMA OrderedBack ==
  ASSUME NEW host, NEW n \in Nat, NEW value \in Laws!Bytes(n)
  PROVE  Laws!NetworkOrder(host, Laws!NetworkOrder(host, value)) = value
BY SwappedBack DEF Laws!NetworkOrder

\* A remainder is what is divided, if that is less than the divisor.
LEMMA Remains ==
  ASSUME NEW n \in Nat \ {0}, NEW m \in Nat
  PROVE  m % n \in Nat /\ (m < n => m % n = m)
<1>1. m % n \in Nat
  OBVIOUS
<1>2. m < n => m % n = m
  OBVIOUS
<1> QED
  BY <1>1, <1>2

\* A scope id comes back if the system has room for it.
LEMMA ScopeBack ==
  ASSUME Laws!InetAssumption, NEW host, NEW scope \in Nat
  PROVE  /\ Laws!ScopeFromOs(host, Laws!ScopeToOs(host, scope)) \in Nat
         /\ Laws!ScopeFits(host, scope) => Laws!ScopeFromOs(host, Laws!ScopeToOs(host, scope)) = scope
<1>1. CASE host.port # "mqx"
  <2>1. ScopeLimit \in Nat \ {0}
    BY DEF Laws!InetAssumption
  <2> QED
    BY <1>1, <2>1, Remains DEF Laws!ScopeFromOs, Laws!ScopeToOs, Laws!ScopeFits
<1>2. CASE host.port = "mqx" /\ scope \notin DOMAIN ScopeIds
  BY <1>2 DEF Laws!ScopeFromOs, Laws!ScopeToOs, Laws!ScopeFits
<1>3. CASE host.port = "mqx" /\ scope \in DOMAIN ScopeIds
  <2>1. Laws!ScopeToOs(host, scope) = ScopeIds[scope]
    BY <1>3 DEF Laws!ScopeToOs
  <2>2. /\ ScopeIds[scope] # 0
        /\ \A j \in DOMAIN ScopeIds : ScopeIds[j] = ScopeIds[scope] => j = scope
        /\ \A j \in 1 .. scope - 1 : j \in DOMAIN ScopeIds
    BY <1>3 DEF Laws!InetAssumption
  <2>3. \A j \in 1 .. scope - 1 : ScopeIds[j] # ScopeIds[scope]
    BY <2>2
  <2>4. Laws!ScopeFromOs(host, ScopeIds[scope]) =
          CHOOSE i \in DOMAIN ScopeIds :
            ScopeIds[i] = ScopeIds[scope] /\ \A j \in 1 .. i - 1 : ScopeIds[j] # ScopeIds[scope]
    BY <1>3, <2>2, Zenon DEF Laws!ScopeFromOs
  <2>5. (CHOOSE i \in DOMAIN ScopeIds :
           ScopeIds[i] = ScopeIds[scope] /\ \A j \in 1 .. i - 1 : ScopeIds[j] # ScopeIds[scope]) = scope
    BY <1>3, <2>2, <2>3
  <2> QED
    BY <2>1, <2>4, <2>5
<1> QED
  BY <1>1, <1>2, <1>3

LEMMA NamesHold ==
  ASSUME Laws!InetAssumption, question \in Laws!Questions
  PROVE  Laws!NamesSurvive
<1> DEFINE host == question.host
           sa == question.sa
           ip == sa.ip
           os == Laws!sockaddr_etcpal_to_os(host, sa)
           back == Laws!sockaddr_os_to_etcpal(host, os)
           seen(value) == IF host.port = "mqx" THEN value ELSE Laws!Swapped(host, value)
<1> SUFFICES ASSUME Laws!About("name")
             PROVE  IF ip.type = "invalid" THEN os = None
                    ELSE /\ back.port = sa.port
                         /\ back.ip.type = ip.type /\ back.ip.bytes = ip.bytes
                         /\ Laws!ScopeFits(host, ip.scope) => back = sa
                         /\ ip.type = "v4" => seen(os.ip.addr) = ip.bytes
                         /\ seen(os.port) = sa.port
  BY Zenon DEF Laws!NamesSurvive
<1>1. ip \in Laws!AllAddresses /\ sa.port \in Laws!Bytes(2) /\ sa = [ip |-> ip, port |-> sa.port]
  BY DEF Laws!InetAssumption, Laws!Questions, Laws!About, Laws!SockAddrs
<1>2. None \notin Laws!AllAddresses
  BY DEF Laws!InetAssumption
<1>3. CASE ip.type = "invalid"
  BY <1>3 DEF Laws!sockaddr_etcpal_to_os
<1>4. ASSUME ip.type # "invalid"
      PROVE  os = [ip |-> Laws!ip_etcpal_to_os(host, ip), port |-> Laws!NetworkOrder(host, sa.port)]
  BY <1>4 DEF Laws!sockaddr_etcpal_to_os
<1>5. \A n \in Nat : \A value \in Laws!Bytes(n) : seen(Laws!NetworkOrder(host, value)) = value
  BY SwappedBack DEF Laws!NetworkOrder
<1>6. Laws!NetworkOrder(host, Laws!NetworkOrder(host, sa.port)) = sa.port
  BY <1>1, OrderedBack
<1> DEFINE kept == Laws!ScopeFromOs(host, Laws!ScopeToOs(host, ip.scope))
<1>7. ip = [type |-> ip.type, bytes |-> ip.bytes, scope |-> ip.scope]
  BY <1>1, AddressFacts
<1>8. CASE ip.type = "v4"
  <2>1. ip.bytes \in Laws!Bytes(4) /\ ip.scope = 0
    BY <1>1, <1>8, AddressFacts
  <2>2. Laws!ip_etcpal_to_os(host, ip)
          = [family |-> "inet", addr |-> Laws!NetworkOrder(host, ip.bytes), scope |-> 0]
    BY <1>8 DEF Laws!ip_etcpal_to_os
  <2>3. Laws!NetworkOrder(host, Laws!NetworkOrder(host, ip.bytes)) = ip.bytes
    BY <2>1, OrderedBack
  <2>4. Laws!ip_os_to_etcpal(host, Laws!ip_etcpal_to_os(host, ip)) = Laws!V4(ip.bytes)
    BY <2>2, <2>3 DEF Laws!ip_os_to_etcpal
  <2>5. ip = Laws!V4(ip.bytes)
    BY <1>7, <1>8, <2>1 DEF Laws!V4
  <2>6. Laws!V4(ip.bytes) \in Laws!AllAddresses
    BY <2>1 DEF Laws!V4, Laws!AllAddresses
  <2>7. back = [ip |-> Laws!V4(ip.bytes), port |-> sa.port]
    BY <1>2, <1>4, <1>6, <1>8, <2>4, <2>6 DEF Laws!sockaddr_os_to_etcpal
  <2>8. back = sa
    BY <1>1, <2>5, <2>7
  <2>9. seen(os.ip.addr) = ip.bytes /\ seen(os.port) = sa.port
    BY <1>1, <1>4, <1>5, <1>8, <2>1, <2>2
  <2> QED
    BY <1>8, <2>8, <2>9
<1>9. CASE ip.type = "v6"
  <2>1. ip.bytes \in Laws!Bytes(16) /\ ip.scope \in Nat
    BY <1>1, <1>9, AddressFacts
  <2>2. Laws!ip_etcpal_to_os(host, ip)
          = [family |-> "inet6", addr |-> ip.bytes, scope |-> Laws!ScopeToOs(host, ip.scope)]
    BY <1>9 DEF Laws!ip_etcpal_to_os
  <2>3. Laws!ip_os_to_etcpal(host, Laws!ip_etcpal_to_os(host, ip)) = Laws!V6(ip.bytes, kept)
    BY <2>2 DEF Laws!ip_os_to_etcpal
  <2>4. kept \in Nat /\ (Laws!ScopeFits(host, ip.scope) => kept = ip.scope)
    BY <2>1, ScopeBack
  <2>5. Laws!V6(ip.bytes, kept) \in Laws!AllAddresses
    BY <2>1, <2>4 DEF Laws!V6, Laws!AllAddresses
  <2>6. back = [ip |-> Laws!V6(ip.bytes, kept), port |-> sa.port]
    BY <1>2, <1>4, <1>6, <1>9, <2>3, <2>5 DEF Laws!sockaddr_os_to_etcpal
  <2>7. /\ back.port = sa.port /\ back.ip.type = ip.type /\ back.ip.bytes = ip.bytes
        /\ Laws!ScopeFits(host, ip.scope) => back = sa
    BY <1>1, <1>7, <1>9, <2>4, <2>6 DEF Laws!V6
  <2>8. seen(os.port) = sa.port
    BY <1>1, <1>4, <1>5, <1>9
  <2> QED
    BY <1>9, <2>7, <2>8
<1> QED
  BY <1>1, <1>3, <1>8, <1>9, AddressFacts

\* A text is read as the family that it is of.
LEMMA TextsHold ==
  ASSUME Laws!InetAssumption, question \in Laws!Questions
  PROVE  Laws!TextsAreRead
<1> DEFINE ip == question.sa.ip
           text == Laws!ip_to_string(ip)
<1> SUFFICES ASSUME Laws!About("name")
             PROVE  Laws!FromString(text) = [ip EXCEPT !.scope = 0]
  BY Zenon DEF Laws!TextsAreRead
<1>1. ip \in Laws!AllAddresses
  BY DEF Laws!InetAssumption, Laws!Questions, Laws!About, Laws!SockAddrs
<1>2. /\ None \notin Laws!AllAddresses
      /\ None \notin [family : {"v4", "v6"}, bytes : Laws!Bytes(4) \cup Laws!Bytes(16)]
  BY DEF Laws!InetAssumption
<1>3. [ip EXCEPT !.scope = 0] = [type |-> ip.type, bytes |-> ip.bytes, scope |-> 0]
  BY <1>1, AddressFacts
<1> HIDE DEF ip
<1>4. CASE ip.type = "v4"
  <2>1. ip.bytes \in Laws!Bytes(4)
    BY <1>1, <1>4, AddressFacts
  <2>2. text = [family |-> "v4", bytes |-> ip.bytes] /\ text # None
    BY <1>2, <1>4, <2>1 DEF Laws!ip_to_string
  <2>3. Laws!string_to_ip("v4", text) = Laws!V4(ip.bytes)
    BY <2>2 DEF Laws!string_to_ip
  <2>4. Laws!V4(ip.bytes) # None
    BY <1>2, <2>1 DEF Laws!V4, Laws!AllAddresses
  <2> QED
    BY <1>3, <1>4, <2>3, <2>4 DEF Laws!FromString, Laws!V4
<1>5. CASE ip.type = "v6"
  <2>1. ip.bytes \in Laws!Bytes(16)
    BY <1>1, <1>5, AddressFacts
  <2>2. text = [family |-> "v6", bytes |-> ip.bytes] /\ text # None
    BY <1>2, <1>5, <2>1 DEF Laws!ip_to_string
  <2>3. Laws!string_to_ip("v4", text) = None /\ Laws!string_to_ip("v6", text) = Laws!V6(ip.bytes, 0)
    BY <2>2 DEF Laws!string_to_ip
  <2>4. Laws!V6(ip.bytes, 0) # None
    BY <1>2, <2>1 DEF Laws!V6, Laws!AllAddresses
  <2> QED
    BY <1>3, <1>5, <2>3, <2>4 DEF Laws!FromString, Laws!V6
<1>6. CASE ip.type = "invalid"
  <2>1. text = None /\ ip.bytes = << >>
    BY <1>1, <1>6, AddressFacts DEF Laws!ip_to_string
  <2> QED
    BY <1>3, <1>6, <2>1 DEF Laws!FromString, Laws!string_to_ip, Laws!Invalid
<1> QED
  BY <1>1, <1>4, <1>5, <1>6, AddressFacts

----
(***************************************************************************)
(* MAC addresses.  Nibble k of a text that is written with its colons is   *)
(* at Place(k).  A text that goes wrong at cut is read up to there: a      *)
(* nibble behind it is nowhere, or at cut itself.                          *)
(***************************************************************************)

\* Where the next nibble is, if this one is at before
After(text, before) ==
  IF before = 0 \/ Laws!Char(text, before) > 15 THEN 0
  ELSE IF Laws!Char(text, before + 1) = Laws!COLON THEN before + 2 ELSE before + 1

Place(k) == k + ((k - 1) \div 2)

\* There are places for twelve nibbles, and they decide what is read.
LEMMA WalkOver ==
  ASSUME NEW text
  PROVE  \E at : /\ at[1] = 1
                 /\ \A k \in 2 .. 12 : at[k] = After(text, at[k - 1])
                 /\ Laws!string_to_mac(text) =
                      IF at[12] = 0 \/ Laws!Char(text, at[12]) > 15 THEN None
                      ELSE [i \in 1 .. 6 |-> 16 * text[at[2 * i - 1]] + text[at[2 * i]]]
<1> DEFINE Walks(at) == at = [k \in 1 .. 12 |-> IF k = 1 THEN 1 ELSE After(text, at[k - 1])]
           walk == CHOOSE at : Walks(at)
<1>1. \E at : Walks(at)
  <2> DEFINE v1 == 1
           v2 == After(text, v1)
           v3 == After(text, v2)
           v4 == After(text, v3)
           v5 == After(text, v4)
           v6 == After(text, v5)
           v7 == After(text, v6)
           v8 == After(text, v7)
           v9 == After(text, v8)
           v10 == After(text, v9)
           v11 == After(text, v10)
           v12 == After(text, v11)
             all == <<v1, v2, v3, v4, v5, v6, v7, v8, v9, v10, v11, v12>>
  <2>1. /\ v2 = After(text, v1)
        /\ v3 = After(text, v2)
        /\ v4 = After(text, v3)
        /\ v5 = After(text, v4)
        /\ v6 = After(text, v5)
        /\ v7 = After(text, v6)
        /\ v8 = After(text, v7)
        /\ v9 = After(text, v8)
        /\ v10 = After(text, v9)
        /\ v11 = After(text, v10)
        /\ v12 = After(text, v11)
    OBVIOUS
  <2>2. v1 = 1
    OBVIOUS
  <2> HIDE DEF v1, v2, v3, v4, v5, v6, v7, v8, v9, v10, v11, v12
  <2>3. /\ all[1] = v1
        /\ all[2] = v2
        /\ all[3] = v3
        /\ all[4] = v4
        /\ all[5] = v5
        /\ all[6] = v6
        /\ all[7] = v7
        /\ all[8] = v8
        /\ all[9] = v9
        /\ all[10] = v10
        /\ all[11] = v11
        /\ all[12] = v12
    OBVIOUS
  <2>4. all = [k \in 1 .. 12 |-> all[k]]
    OBVIOUS
  <2> HIDE DEF all
  <2>5. \A k \in 1 .. 12 : all[k] = IF k = 1 THEN 1 ELSE After(text, all[k - 1])
    <3>1. \A k \in 1 .. 12 : \/ k = 1 \/ k = 2 \/ k = 3 \/ k = 4 \/ k = 5 \/ k = 6 \/ k = 7
                             \/ k = 8 \/ k = 9 \/ k = 10 \/ k = 11 \/ k = 12
      OBVIOUS
    <3> QED
      BY <2>1, <2>2, <2>3, <3>1
  <2> QED
    BY <2>4, <2>5
<1>2. Walks(walk)
  BY <1>1
<1>3. Laws!string_to_mac(text) =
        IF walk[12] = 0 \/ Laws!Char(text, walk[12]) > 15 THEN None
        ELSE [i \in 1 .. 6 |-> 16 * text[walk[2 * i - 1]] + text[walk[2 * i]]]
  BY Zenon DEF Laws!string_to_mac, After
<1> HIDE DEF walk
<1>4. walk[1] = 1 /\ \A k \in 2 .. 12 : walk[k] = After(text, walk[k - 1])
  BY <1>2
<1> QED
  BY <1>3, <1>4

\* A text with a nibble at each of twelve places is read.
LEMMA TextIsRead ==
  ASSUME NEW text, NEW nibble \in [1 .. 12 -> 0 .. 15], NEW pos \in [1 .. 12 -> Nat \ {0}], pos[1] = 1,
         \A k \in 1 .. 12 : text[pos[k]] = nibble[k] /\ Laws!Char(text, pos[k]) = nibble[k],
         \A k \in 2 .. 12 : pos[k] = IF Laws!Char(text, pos[k - 1] + 1) = Laws!COLON
                                     THEN pos[k - 1] + 2 ELSE pos[k - 1] + 1
  PROVE  Laws!string_to_mac(text) = [i \in 1 .. 6 |-> 16 * nibble[2 * i - 1] + nibble[2 * i]]
<1>1. PICK at : /\ at[1] = 1
                /\ \A k \in 2 .. 12 : at[k] = After(text, at[k - 1])
                /\ Laws!string_to_mac(text) =
                     IF at[12] = 0 \/ Laws!Char(text, at[12]) > 15 THEN None
                     ELSE [i \in 1 .. 6 |-> 16 * text[at[2 * i - 1]] + text[at[2 * i]]]
  BY WalkOver
<1>2. \A k \in 1 .. 12 : pos[k] # 0 /\ ~(Laws!Char(text, pos[k]) > 15)
  BY SMT
<1>3. \A k \in 2 .. 12 : at[k - 1] = pos[k - 1] => at[k] = pos[k]
  <2> SUFFICES ASSUME NEW k \in 2 .. 12, at[k - 1] = pos[k - 1] PROVE at[k] = pos[k]
    OBVIOUS
  <2>1. k - 1 \in 1 .. 12
    OBVIOUS
  <2> QED
    BY <1>1, <1>2, <2>1 DEF After
<1>4. at[1] = pos[1]
  BY <1>1
<1>5. at[2] = pos[2]
  BY <1>3, <1>4
<1>6. at[3] = pos[3]
  BY <1>3, <1>5
<1>7. at[4] = pos[4]
  BY <1>3, <1>6
<1>8. at[5] = pos[5]
  BY <1>3, <1>7
<1>9. at[6] = pos[6]
  BY <1>3, <1>8
<1>10. at[7] = pos[7]
  BY <1>3, <1>9
<1>11. at[8] = pos[8]
  BY <1>3, <1>10
<1>12. at[9] = pos[9]
  BY <1>3, <1>11
<1>13. at[10] = pos[10]
  BY <1>3, <1>12
<1>14. at[11] = pos[11]
  BY <1>3, <1>13
<1>15. at[12] = pos[12]
  BY <1>3, <1>14
<1>16. \A k \in 1 .. 12 : at[k] = pos[k]
  <2>1. \A k \in 1 .. 12 : \/ k = 1 \/ k = 2 \/ k = 3 \/ k = 4 \/ k = 5 \/ k = 6 \/ k = 7
                           \/ k = 8 \/ k = 9 \/ k = 10 \/ k = 11 \/ k = 12
    OBVIOUS
  <2> QED
    BY <2>1, <1>4, <1>5, <1>6, <1>7, <1>8, <1>9, <1>10, <1>11, <1>12, <1>13, <1>14, <1>15
<1>17. \A i \in 1 .. 6 : 2 * i - 1 \in 1 .. 12 /\ 2 * i \in 1 .. 12
  OBVIOUS
<1>18. Laws!string_to_mac(text) = [i \in 1 .. 6 |-> 16 * text[at[2 * i - 1]] + text[at[2 * i]]]
  BY <1>1, <1>2, <1>16
<1>19. \A i \in 1 .. 6 : 16 * text[at[2 * i - 1]] + text[at[2 * i]] = 16 * nibble[2 * i - 1] + nibble[2 * i]
  BY <1>16, <1>17
<1> QED
  BY <1>18, <1>19

LEMMA HalvesOfByte ==
  ASSUME NEW x \in 0 .. 255
  PROVE  x \div 16 \in 0 .. 15 /\ x % 16 \in 0 .. 15 /\ 16 * (x \div 16) + (x % 16) = x
<1>1. x \div 16 \in 0 .. 15
  OBVIOUS
<1>2. x % 16 \in 0 .. 15
  OBVIOUS
<1>3. 16 * (x \div 16) + (x % 16) = x
  OBVIOUS
<1> QED
  BY <1>1, <1>2, <1>3

\* The nibbles of a MAC address
NibbleOf(mac, k) == IF k % 2 = 1 THEN mac[(k + 1) \div 2] \div 16 ELSE mac[k \div 2] % 16

LEMMA NibblesMakeBytes ==
  ASSUME NEW mac \in Laws!Bytes(6)
  PROVE  /\ \A k \in 1 .. 12 : NibbleOf(mac, k) \in 0 .. 15
         /\ mac = [i \in 1 .. 6 |-> 16 * NibbleOf(mac, 2 * i - 1) + NibbleOf(mac, 2 * i)]
<1>1. \A i \in 1 .. 6 : mac[i] \in 0 .. 255
  BY DEF Laws!Bytes
<1>2. \A x \in 0 .. 255 : x \div 16 \in 0 .. 15 /\ x % 16 \in 0 .. 15 /\ 16 * (x \div 16) + (x % 16) = x
  BY HalvesOfByte
<1>3. ASSUME NEW k \in 1 .. 12 PROVE NibbleOf(mac, k) \in 0 .. 15
  <2>1. CASE k % 2 = 1
    <3>1. (k + 1) \div 2 \in 1 .. 6
      BY <2>1
    <3> QED
      BY <1>1, <1>2, <2>1, <3>1 DEF NibbleOf
  <2>2. CASE k % 2 # 1
    <3>1. k \div 2 \in 1 .. 6
      BY <2>2
    <3> QED
      BY <1>1, <1>2, <2>2, <3>1 DEF NibbleOf
  <2> QED
    BY <2>1, <2>2
<1>4. ASSUME NEW i \in 1 .. 6
      PROVE  mac[i] = 16 * NibbleOf(mac, 2 * i - 1) + NibbleOf(mac, 2 * i)
  <2>1. /\ (2 * i - 1) % 2 = 1 /\ ((2 * i - 1) + 1) \div 2 = i
        /\ (2 * i) % 2 # 1 /\ (2 * i) \div 2 = i
    OBVIOUS
  <2>2. NibbleOf(mac, 2 * i - 1) = mac[i] \div 16 /\ NibbleOf(mac, 2 * i) = mac[i] % 16
    BY <2>1 DEF NibbleOf
  <2> QED
    BY <1>1, <1>2, <2>2
<1>5. mac = [i \in 1 .. 6 |-> mac[i]]
  BY DEF Laws!Bytes
<1> QED
  BY <1>3, <1>4, <1>5

\* The text of a MAC address
LEMMA TextOfMac ==
  ASSUME NEW mac \in Laws!Bytes(6), NEW text, text = Laws!mac_to_string(mac)
  PROVE  /\ text \in Seq(0 .. 16) /\ Len(text) = 17 /\ \A i \in 1 .. 17 : text[i] \in 0 .. 16
         /\ \A k \in 1 .. 12 : Place(k) \in 1 .. 17 /\ text[Place(k)] = NibbleOf(mac, k)
         /\ \A k \in 1 .. 11 : IF k % 2 = 1 THEN Place(k + 1) = Place(k) + 1
                               ELSE Place(k + 1) = Place(k) + 2 /\ text[Place(k) + 1] = 16
<1>1. \A i \in 1 .. 17 : text[i] = LET byte == mac[(i + 2) \div 3] IN
                                   CASE i % 3 = 1 -> byte \div 16 [] i % 3 = 2 -> byte % 16
                                     [] OTHER -> Laws!COLON
  BY DEF Laws!mac_to_string
<1>2. text = [i \in 1 .. 17 |-> text[i]]
  BY DEF Laws!mac_to_string
<1>3. \A i \in 1 .. 6 : mac[i] \in 0 .. 255
  BY DEF Laws!Bytes
<1>4. \A x \in 0 .. 255 : x \div 16 \in 0 .. 16 /\ x % 16 \in 0 .. 16
  OBVIOUS
<1>5. Laws!COLON = 16
  BY DEF Laws!COLON
<1>6. \A i \in 1 .. 17 : text[i] \in 0 .. 16
  <2> SUFFICES ASSUME NEW i \in 1 .. 17 PROVE text[i] \in 0 .. 16
    OBVIOUS
  <2>1. (i + 2) \div 3 \in 1 .. 6
    OBVIOUS
  <2>2. mac[(i + 2) \div 3] \div 16 \in 0 .. 16 /\ mac[(i + 2) \div 3] % 16 \in 0 .. 16
    BY <1>3, <1>4, <2>1
  <2> QED
    BY <1>1, <1>5, <2>2
<1>7. text \in Seq(0 .. 16) /\ Len(text) = 17
  <2>1. text \in [1 .. 17 -> 0 .. 16]
    BY <1>2, <1>6
  <2> QED
    BY <1>2, <2>1
<1>8. ASSUME NEW k \in 1 .. 12 PROVE Place(k) \in 1 .. 17 /\ text[Place(k)] = NibbleOf(mac, k)
  <2>1. CASE k % 2 = 1
    <3>1. /\ Place(k) \in 1 .. 17 /\ Place(k) % 3 = 1
          /\ (Place(k) + 2) \div 3 = (k + 1) \div 2
      BY <2>1 DEF Place
    <3> QED
      BY <1>1, <2>1, <3>1 DEF NibbleOf
  <2>2. CASE k % 2 # 1
    <3>1. /\ Place(k) \in 1 .. 17 /\ Place(k) % 3 = 2
          /\ (Place(k) + 2) \div 3 = k \div 2
      BY <2>2 DEF Place
    <3> QED
      BY <1>1, <2>2, <3>1 DEF NibbleOf
  <2> QED
    BY <2>1, <2>2
<1>9. ASSUME NEW k \in 1 .. 11
      PROVE  IF k % 2 = 1 THEN Place(k + 1) = Place(k) + 1
             ELSE Place(k + 1) = Place(k) + 2 /\ text[Place(k) + 1] = 16
  <2>1. CASE k % 2 = 1
    BY <2>1 DEF Place
  <2>2. CASE k % 2 # 1
    <3>1. /\ Place(k + 1) = Place(k) + 2 /\ Place(k) + 1 \in 1 .. 17
          /\ (Place(k) + 1) % 3 # 1 /\ (Place(k) + 1) % 3 # 2
      BY <2>2 DEF Place
    <3> QED
      BY <1>1, <1>5, <2>2, <3>1
  <2> QED
    BY <2>1, <2>2
<1> QED
  BY <1>6, <1>7, <1>8, <1>9

\* A text that is like one of a MAC address before place cut, and has neither a nibble nor a
\* colon there, is refused.
LEMMA TextIsRefused ==
  ASSUME NEW mac \in Laws!Bytes(6), NEW text, NEW cut \in 1 .. 17,
         \A i \in 1 .. cut - 1 : Laws!Char(text, i) = Laws!mac_to_string(mac)[i],
         Laws!Char(text, cut) \in {17, 18}
  PROVE  Laws!string_to_mac(text) = None
<1> DEFINE full == Laws!mac_to_string(mac)
<1>1. PICK at : /\ at[1] = 1
                /\ \A k \in 2 .. 12 : at[k] = After(text, at[k - 1])
                /\ Laws!string_to_mac(text) =
                     IF at[12] = 0 \/ Laws!Char(text, at[12]) > 15 THEN None
                     ELSE [i \in 1 .. 6 |-> 16 * text[at[2 * i - 1]] + text[at[2 * i]]]
  BY WalkOver
<1>2. /\ \A k \in 1 .. 12 : Place(k) \in 1 .. 17 /\ full[Place(k)] \in 0 .. 15
      /\ \A k \in 1 .. 11 : IF k % 2 = 1 THEN Place(k + 1) = Place(k) + 1
                            ELSE Place(k + 1) = Place(k) + 2 /\ full[Place(k) + 1] = 16
      /\ \A k \in 1 .. 11 : k % 2 = 1 => full[Place(k) + 1] \in 0 .. 15
  <2>1. /\ \A k \in 1 .. 12 : Place(k) \in 1 .. 17 /\ full[Place(k)] = NibbleOf(mac, k)
        /\ \A k \in 1 .. 11 : IF k % 2 = 1 THEN Place(k + 1) = Place(k) + 1
                              ELSE Place(k + 1) = Place(k) + 2 /\ full[Place(k) + 1] = 16
    BY TextOfMac
  <2>2. \A k \in 1 .. 12 : NibbleOf(mac, k) \in 0 .. 15
    BY NibblesMakeBytes
  <2> HIDE DEF full
  <2>3. \A k \in 1 .. 11 : k + 1 \in 1 .. 12
    OBVIOUS
  <2>4. \A k \in 1 .. 11 : k % 2 = 1 => full[Place(k) + 1] \in 0 .. 15
    BY <2>1, <2>2, <2>3
  <2> QED
    BY <2>1, <2>2, <2>4
<1> HIDE DEF full
<1> DEFINE Right(k) == IF Place(k) < cut THEN at[k] = Place(k) ELSE at[k] = 0 \/ at[k] = cut
<1>3. Laws!COLON = 16
  BY DEF Laws!COLON
<1>4. Laws!Char(text, cut) > 15 /\ Laws!Char(text, cut) # 16
  OBVIOUS
<1>5. \A i \in 1 .. cut - 1 : Laws!Char(text, i) = full[i]
  BY DEF full
<1>6. Right(1)
  BY <1>1 DEF Place
<1>7. \A k \in 2 .. 12 : Right(k - 1) => Right(k)
  <2> SUFFICES ASSUME NEW k \in 2 .. 12, Right(k - 1) PROVE Right(k)
    OBVIOUS
  <2> DEFINE j == k - 1
  <2>1. j \in 1 .. 11 /\ j \in 1 .. 12 /\ j + 1 = k
    OBVIOUS
  <2>2. at[k] = After(text, at[j])
    BY <1>1
  <2> HIDE DEF j
  <2>3. CASE Place(j) < cut
    <3>1. at[j] = Place(j) /\ Place(j) \in 1 .. 17 /\ Place(j) \in 1 .. cut - 1
      BY <1>2, <2>1, <2>3 DEF j
    <3>2. Laws!Char(text, Place(j)) \in 0 .. 15 /\ Place(j) # 0
      BY <1>2, <1>5, <2>1, <3>1
    <3>3. ~(Laws!Char(text, Place(j)) > 15)
      BY <3>2
    <3>4. at[k] = IF Laws!Char(text, Place(j) + 1) = 16 THEN Place(j) + 2 ELSE Place(j) + 1
      BY <1>3, <2>2, <3>1, <3>2, <3>3 DEF After
    <3>5. CASE Place(j) + 1 < cut
      <4>1. Laws!Char(text, Place(j) + 1) = full[Place(j) + 1]
        BY <1>5, <3>1, <3>5
      <4>2. CASE j % 2 = 1
        <5>1. full[Place(j) + 1] \in 0 .. 15 /\ Place(k) = Place(j) + 1
          BY <1>2, <2>1, <4>2
        <5>2. at[k] = Place(k)
          BY <3>4, <4>1, <5>1
        <5> QED
          BY <3>5, <5>1, <5>2
      <4>3. CASE j % 2 # 1
        <5>1. full[Place(j) + 1] = 16 /\ Place(k) = Place(j) + 2
          BY <1>2, <2>1, <4>3
        <5>2. at[k] = Place(k)
          BY <3>4, <4>1, <5>1
        <5> QED
          BY <3>1, <3>5, <5>1, <5>2
      <4> QED
        BY <4>2, <4>3
    <3>6. CASE Place(j) + 1 = cut
      <4>1. at[k] = cut
        BY <1>4, <3>4, <3>6
      <4>2. Place(k) = Place(j) + 1 \/ Place(k) = Place(j) + 2
        BY <1>2, <2>1
      <4>3. ~(Place(k) < cut)
        BY <3>1, <3>6, <4>2
      <4> QED
        BY <4>1, <4>3
    <3> QED
      BY <2>3, <3>1, <3>5, <3>6
  <2>4. CASE ~(Place(j) < cut)
    <3>1. at[j] = 0 \/ at[j] = cut
      BY <2>4 DEF j
    <3>2. at[k] = 0
      BY <1>4, <2>2, <3>1 DEF After
    <3>3. Place(j) \in 1 .. 17 /\ (Place(k) = Place(j) + 1 \/ Place(k) = Place(j) + 2)
      BY <1>2, <2>1
    <3>4. ~(Place(k) < cut)
      BY <2>4, <3>3
    <3> QED
      BY <3>2, <3>4
  <2> QED
    BY <2>3, <2>4
<1> HIDE DEF Right
<1>8. Right(2)
  BY <1>6, <1>7
<1>9. Right(3)
  BY <1>7, <1>8
<1>10. Right(4)
  BY <1>7, <1>9
<1>11. Right(5)
  BY <1>7, <1>10
<1>12. Right(6)
  BY <1>7, <1>11
<1>13. Right(7)
  BY <1>7, <1>12
<1>14. Right(8)
  BY <1>7, <1>13
<1>15. Right(9)
  BY <1>7, <1>14
<1>16. Right(10)
  BY <1>7, <1>15
<1>17. Right(11)
  BY <1>7, <1>16
<1>18. Right(12)
  BY <1>7, <1>17
<1>19. Place(12) = 17
  BY DEF Place
<1>20. at[12] = 0 \/ at[12] = cut
  <2>1. ~(Place(12) < cut)
    BY <1>19
  <2> QED
    BY <1>18, <2>1 DEF Right
<1> QED
  BY <1>1, <1>4, <1>20

LEMMA MacsHold ==
  ASSUME Laws!InetAssumption, question \in Laws!Questions
  PROVE  Laws!MacsAreRead
<1> DEFINE mac == question.mac
           cut == question.cut
           text == Laws!mac_to_string(mac)
           bare == [i \in 1 .. 12 |-> text[i + ((i - 1) \div 2)]]
           spoilt == [text EXCEPT ![cut] = Laws!OTHER_CHAR]
           short == SubSeq(text, 1, cut - 1)
<1> SUFFICES ASSUME Laws!About("mac")
             PROVE  /\ Laws!string_to_mac(text) = mac /\ Laws!string_to_mac(bare) = mac
                    /\ Laws!string_to_mac(short) = None /\ Laws!string_to_mac(spoilt) = None
  BY Zenon DEF Laws!MacsAreRead
<1>1. mac \in Laws!Bytes(6) /\ cut \in 1 .. 17
  BY DEF Laws!InetAssumption, Laws!Questions, Laws!About
<1> HIDE DEF mac, cut, text
<1> DEFINE nibble == [k \in 1 .. 12 |-> NibbleOf(mac, k)]
<1>2. /\ nibble \in [1 .. 12 -> 0 .. 15]
      /\ mac = [i \in 1 .. 6 |-> 16 * nibble[2 * i - 1] + nibble[2 * i]]
  <2>1. \A i \in 1 .. 6 : 2 * i - 1 \in 1 .. 12 /\ 2 * i \in 1 .. 12
    OBVIOUS
  <2> QED
    BY <1>1, <2>1, NibblesMakeBytes
<1>3. /\ text \in Seq(0 .. 16) /\ Len(text) = 17 /\ \A i \in 1 .. 17 : text[i] \in 0 .. 16
      /\ \A k \in 1 .. 12 : Place(k) \in 1 .. 17 /\ text[Place(k)] = nibble[k]
      /\ \A k \in 1 .. 11 : IF k % 2 = 1 THEN Place(k + 1) = Place(k) + 1
                            ELSE Place(k + 1) = Place(k) + 2 /\ text[Place(k) + 1] = 16
  BY <1>1, TextOfMac DEF text
<1>4. Laws!COLON = 16 /\ Laws!END = 18 /\ Laws!OTHER_CHAR = 17
  BY DEF Laws!COLON, Laws!END, Laws!OTHER_CHAR
<1>5. \A i \in 1 .. 17 : Laws!Char(text, i) = text[i] /\ text[i] \in 0 .. 16
  <2>1. \A i \in 1 .. 17 : text[i] \in 0 .. 16
    BY <1>3
  <2>2. \A i \in 1 .. 17 : Laws!Char(text, i) = text[i]
    BY <1>3 DEF Laws!Char
  <2> QED
    BY <2>1, <2>2
<1> HIDE DEF nibble
<1>6. Laws!string_to_mac(text) = mac
  <2> DEFINE pos == [k \in 1 .. 12 |-> Place(k)]
  <2>1. pos \in [1 .. 12 -> Nat \ {0}] /\ pos[1] = 1 /\ \A k \in 1 .. 12 : pos[k] = Place(k)
    BY <1>3 DEF Place
  <2>2. \A k \in 1 .. 12 : text[pos[k]] = nibble[k] /\ Laws!Char(text, pos[k]) = nibble[k]
    BY <1>3, <1>5, <2>1
  <2>3. \A k \in 2 .. 12 : pos[k] = IF Laws!Char(text, pos[k - 1] + 1) = Laws!COLON
                                    THEN pos[k - 1] + 2 ELSE pos[k - 1] + 1
    <3> SUFFICES ASSUME NEW k \in 2 .. 12
                 PROVE  pos[k] = IF Laws!Char(text, pos[k - 1] + 1) = Laws!COLON
                                 THEN pos[k - 1] + 2 ELSE pos[k - 1] + 1
      OBVIOUS
    <3> DEFINE j == k - 1
    <3>1. j \in 1 .. 11 /\ j \in 1 .. 12 /\ j + 1 = k /\ k \in 1 .. 12
      OBVIOUS
    <3> HIDE DEF j, pos
    <3>2. pos[j] = Place(j) /\ pos[k] = Place(k) /\ Place(j) \in 1 .. 17 /\ Place(k) \in 1 .. 17
      BY <1>3, <2>1, <3>1
    <3>3. Place(j + 1) = Place(k)
      BY <3>1
    <3>4. CASE j % 2 = 1
      <4>1. pos[k] = pos[j] + 1 /\ text[pos[j] + 1] = nibble[k] /\ nibble[k] \in 0 .. 15
        <5>1. Place(j + 1) = Place(j) + 1
          BY <1>3, <3>1, <3>4
        <5>2. text[Place(k)] = nibble[k]
          BY <1>3, <3>1
        <5>3. nibble[k] \in 0 .. 15
          BY <1>2, <3>1
        <5> QED
          BY <3>2, <3>3, <5>1, <5>2, <5>3
      <4>2. Laws!Char(text, pos[j] + 1) # 16
        BY <1>5, <3>2, <4>1
      <4> QED
        BY <1>4, <4>1, <4>2 DEF j
    <3>5. CASE j % 2 # 1
      <4>1. pos[k] = pos[j] + 2 /\ text[pos[j] + 1] = 16
        BY <1>3, <3>1, <3>2, <3>5, <3>3
      <4>2. Laws!Char(text, pos[j] + 1) = 16
        BY <1>5, <3>2, <4>1
      <4> QED
        BY <1>4, <4>1, <4>2 DEF j
    <3> QED
      BY <3>4, <3>5
  <2> HIDE DEF pos
  <2> QED
    BY <1>2, <2>1, <2>2, <2>3, TextIsRead
<1>7. Laws!string_to_mac(bare) = mac
  <2> DEFINE pos == [k \in 1 .. 12 |-> k]
  <2>1. pos \in [1 .. 12 -> Nat \ {0}] /\ pos[1] = 1 /\ \A k \in 1 .. 12 : pos[k] = k
    OBVIOUS
  <2>2. \A k \in 1 .. 12 : bare[k] = nibble[k]
    BY <1>3 DEF Place
  <2>3. bare \in Seq(0 .. 16) /\ Len(bare) = 12
    <3>1. \A k \in 1 .. 12 : nibble[k] \in 0 .. 16
      BY <1>2
    <3>2. bare \in [1 .. 12 -> 0 .. 16]
      BY <2>2, <3>1
    <3> QED
      BY <3>2
  <2> HIDE DEF bare, pos
  <2>4. \A i \in 1 .. 13 : Laws!Char(bare, i) = IF i <= 12 THEN nibble[i] ELSE 18
    BY <1>4, <2>2, <2>3 DEF Laws!Char
  <2>5. \A k \in 1 .. 12 : bare[pos[k]] = nibble[k] /\ Laws!Char(bare, pos[k]) = nibble[k]
    BY <2>1, <2>2, <2>4
  <2>6. \A i \in 1 .. 13 : Laws!Char(bare, i) # 16
    BY <1>2, <2>4
  <2>7. \A k \in 2 .. 12 : pos[k] = IF Laws!Char(bare, pos[k - 1] + 1) = Laws!COLON
                                    THEN pos[k - 1] + 2 ELSE pos[k - 1] + 1
    BY <1>4, <2>1, <2>6
  <2> QED
    BY <1>2, <2>1, <2>5, <2>7, TextIsRead
<1>8. Laws!string_to_mac(short) = None
  <2>1. cut - 1 \in 0 .. 16
    BY <1>1
  <2>2. Len(short) = cut - 1 /\ \A i \in 1 .. cut - 1 : short[i] = text[i]
    BY <1>1, <1>3, <2>1
  <2> HIDE DEF short
  <2>3. \A i \in 1 .. cut - 1 : Laws!Char(short, i) = text[i]
    BY <2>1, <2>2 DEF Laws!Char
  <2>4. Laws!Char(short, cut) = 18
    BY <1>1, <1>4, <2>2 DEF Laws!Char
  <2> QED
    BY <1>1, <2>3, <2>4, TextIsRefused DEF text
<1>9. Laws!string_to_mac(spoilt) = None
  <2>1. Len(spoilt) = 17 /\ spoilt[cut] = 17 /\ \A i \in 1 .. cut - 1 : spoilt[i] = text[i]
    BY <1>1, <1>3, <1>4
  <2> HIDE DEF spoilt
  <2>2. \A i \in 1 .. cut - 1 : Laws!Char(spoilt, i) = text[i]
    BY <1>1, <2>1 DEF Laws!Char
  <2>3. Laws!Char(spoilt, cut) = 17
    BY <1>1, <2>1 DEF Laws!Char
  <2> QED
    BY <1>1, <2>2, <2>3, TextIsRefused DEF text
<1> QED
  BY <1>6, <1>7, <1>8, <1>9

----
(***************************************************************************)
(* The theorems.                                                           *)
(***************************************************************************)

\* The question stays what it is.
LEMMA QuestionStays == Laws!Spec => [](question \in Laws!Questions)
<1>1. Laws!Init => question \in Laws!Questions
  BY DEF Laws!Init
<1>2. question \in Laws!Questions /\ [UNCHANGED question]_question => (question \in Laws!Questions)'
  OBVIOUS
<1> QED
  BY <1>1, <1>2, PTL DEF Laws!Spec

\* Whatever address and port are given to the system come back the same, on every port of
\* os_inet.c and in either order of bytes, and name to the system what they named to the
\* application; a scope id comes back if it fits the 32 bits of the system's, and on MQX if
\* it is of one of its devices; MAC addresses and IP addresses come back from their texts,
\* and a text that breaks off or is spoilt is refused.
THEOREM AddressesAlwaysSurvive ==
  ASSUME Laws!InetAssumption PROVE Laws!Spec => []AddressesSurvive
<1>1. question \in Laws!Questions => AddressesSurvive
  BY NamesHold, MacsHold, TextsHold, Zenon DEF AddressesSurvive, Laws!AddressesSurvive
<1> QED
  BY <1>1, QuestionStays, PTL

\* The operators order all addresses, socket addresses, MAC addresses and interfaces totally,
\* equal ones hash alike, a mask counts the bits it was made of and compares just those, and
\* an address is of one kind.
THEOREM AddressesAlwaysCompare ==
  ASSUME Laws!InetAssumption PROVE Laws!Spec => []AddressesCompare
<1>1. question \in Laws!Questions => AddressesCompare
  BY OrdersHold, MasksHold, KindsHold, Zenon DEF AddressesCompare, Laws!AddressesCompare
<1> QED
  BY <1>1, QuestionStays, PTL

LEMMA BufSizeAdds ==
  ASSUME NEW pdus, NEW n \in Nat
  PROVE  Acn!buf_size(pdus)[n]
           = IF n = 0 THEN 0 ELSE Acn!buf_size(pdus)[n - 1] + Acn!WholeSize(pdus[n])
<1> DEFINE w == [k \in Nat |-> Acn!WholeSize(pdus[k])]
<1>1. PICK f : f = [k \in Nat |-> IF k = 0 THEN 0 ELSE f[k - 1] + w[k]]
  BY SumsExist
<1>2. f = [k \in Nat |-> IF k = 0 THEN 0 ELSE f[k - 1] + Acn!WholeSize(pdus[k])]
  BY <1>1
<1>3. Acn!buf_size(pdus)
        = [k \in Nat |-> IF k = 0 THEN 0 ELSE Acn!buf_size(pdus)[k - 1] + Acn!WholeSize(pdus[k])]
  BY <1>2 DEF Acn!buf_size
<1> QED
  BY <1>3

LEMMA PduFacts ==
  ASSUME Acn!AcnAssumption, NEW p \in Acn!Pdus
  PROVE  /\ p.vector \in Vectors /\ p.cid \in Cids /\ p.data \in Datas
         /\ p.vector # None /\ p.cid # None /\ p.data # None
         /\ p.data.len \in Nat /\ p.data.len + 23 <= Acn!LONG_MOST
         /\ p.data = [len |-> p.data.len, bytes |-> p.data.bytes]
         /\ p = [vector |-> p.vector, cid |-> p.cid, data |-> p.data]
<1>1. /\ p.vector \in Vectors /\ p.cid \in Cids /\ p.data \in Datas
      /\ p = [vector |-> p.vector, cid |-> p.cid, data |-> p.data]
  BY DEF Acn!Pdus
<1>2. p.vector # None /\ p.cid # None /\ p.data # None
  BY <1>1 DEF Acn!AcnAssumption
<1>3. /\ p.data.len \in Nat /\ p.data.len + 3 + 4 + 16 <= Acn!LONG_MOST
      /\ p.data = [len |-> p.data.len, bytes |-> p.data.bytes]
  BY <1>1 DEF Acn!AcnAssumption, Acn!VECTOR_SIZE, Acn!HEADER_SIZE
<1>4. Acn!LONG_MOST \in Nat
  BY SMT DEF Acn!LONG_MOST
<1>5. p.data.len + 3 + 4 + 16 = p.data.len + 23
  BY <1>3
<1> QED
  BY <1>1, <1>2, <1>3, <1>5

LEMMA WholeSizeType ==
  ASSUME Acn!AcnAssumption, NEW p \in Acn!Pdus
  PROVE  Acn!WholeSize(p) \in Nat
<1>1. p.data.len \in Nat
  BY PduFacts
<1>2. p.data.len + 23 \in Nat /\ p.data.len + 22 \in Nat
  BY <1>1
<1> QED
  BY <1>2, Zenon DEF Acn!WholeSize

LEMMA BufSizeGrows ==
  ASSUME Acn!AcnAssumption, NEW pdus \in Seq(Acn!Pdus), NEW n \in 0 .. Len(pdus)
  PROVE  /\ Acn!buf_size(pdus)[n] \in Nat
         /\ \A m \in 0 .. n : Acn!buf_size(pdus)[m] <= Acn!buf_size(pdus)[n]
<1> DEFINE grows(k) == /\ Acn!buf_size(pdus)[k] \in Nat
                       /\ \A m \in 0 .. k : Acn!buf_size(pdus)[m] <= Acn!buf_size(pdus)[k]
           T == {k \in 0 .. Len(pdus) : ~ grows(k)}
<1>1. SUFFICES ASSUME n \in T PROVE FALSE
  OBVIOUS
<1>2. PICK k \in T : \A j \in T : k <= j
  <2> HIDE DEF T
  <2>1. T \subseteq Nat
    BY DEF T
  <2> QED
    BY <1>1, <2>1, HasLeast
<1>3. CASE k = 0
  <2>1. Acn!buf_size(pdus)[0] = 0
    BY BufSizeAdds
  <2>2. grows(k)
    BY <1>3, <2>1
  <2> QED
    BY <1>2, <2>2
<1>4. CASE k # 0
  <2>1. k \in 1 .. Len(pdus) /\ k - 1 \in 0 .. Len(pdus) /\ k - 1 \notin T
    BY <1>2, <1>4
  <2>2. grows(k - 1)
    BY <2>1
  <2>3. Acn!buf_size(pdus)[k] = Acn!buf_size(pdus)[k - 1] + Acn!WholeSize(pdus[k])
    BY <2>1, BufSizeAdds
  <2>4. Acn!WholeSize(pdus[k]) \in Nat
    BY <2>1, WholeSizeType
  <2>5. ASSUME NEW m \in 0 .. k PROVE Acn!buf_size(pdus)[m] <= Acn!buf_size(pdus)[k]
    <3>1. m = k \/ m \in 0 .. k - 1
      BY <2>1
    <3>2. CASE m \in 0 .. k - 1
      <4>1. Acn!buf_size(pdus)[m] <= Acn!buf_size(pdus)[k - 1]
        BY <2>2, <3>2
      <4>2. Acn!buf_size(pdus)[m] \in Nat
        BY <1>2, <2>1, <3>2
      <4> QED
        BY <2>2, <2>3, <2>4, <4>1, <4>2
    <3> QED
      BY <2>2, <2>3, <2>4, <3>1, <3>2
  <2>6. grows(k)
    BY <2>2, <2>3, <2>4, <2>5
  <2> QED
    BY <1>2, <2>6
<1> QED
  BY <1>3, <1>4

----
(***************************************************************************)
(* Blocks of PDUs.                                                         *)
(***************************************************************************)
Inheritances == [vector : BOOLEAN, header : BOOLEAN, data : BOOLEAN]

Entries == [at : Nat, size : Nat, ext : BOOLEAN, length : Nat,
            vector : Vectors \cup {None}, cid : Cids \cup {None}, data : Datas \cup {None}]

\* The length field has the size, or less than any PDU has; it is long where it must be.
LengthTells(e) ==
  /\ e.length = e.size \/ e.length < Acn!MinLength(e)
  /\ e.size <= Acn!MaxLength(e.ext) => e.length = e.size
  /\ e.vector \in LongVectors => e.ext

\* What is left out is None, the size is that of the parts that are there, no more than
\* is counted for the PDU, and the length field tells it.
LEMMA EncodedFacts ==
  ASSUME Acn!AcnAssumption, NEW p \in Acn!Pdus, NEW at \in Nat, NEW inherit \in Inheritances,
         NEW e, e = Acn!Encoded(at, p, inherit)
  PROVE  /\ e \in Entries /\ e.at = at
         /\ e.vector = IF inherit.vector THEN None ELSE p.vector
         /\ e.cid = IF inherit.header THEN None ELSE p.cid
         /\ e.data = IF inherit.data THEN None ELSE p.data
         /\ Acn!LengthSize(e) \in 2 .. 3 /\ Acn!MinLength(e) \in Nat
         /\ Acn!LengthSize(e) <= Acn!MinLength(e)
         /\ e.size = Acn!MinLength(e) + (IF inherit.data THEN 0 ELSE p.data.len)
         /\ e.size <= Acn!WholeSize(p)
         /\ LengthTells(e)
<1> DEFINE data_len == IF inherit.data THEN 0 ELSE p.data.len
           vector_len == IF inherit.vector THEN 0 ELSE Acn!VECTOR_SIZE
           header_len == IF inherit.header THEN 0 ELSE Acn!HEADER_SIZE
           extended == Acn!EXTENDED_LENGTH(inherit.vector, inherit.header, data_len)
           ext == p.vector \in LongVectors \/ extended
           length_len == IF ext THEN 3 ELSE 2
           size == length_len + vector_len + header_len + data_len
           length == size % (Acn!MaxLength(ext) + 1)
<1>1. /\ p.vector \in Vectors /\ p.cid \in Cids /\ p.data \in Datas
      /\ p.vector # None /\ p.cid # None /\ p.data # None
      /\ p.data.len \in Nat /\ p.data.len + 23 <= Acn!LONG_MOST
  BY PduFacts
<1>2. inherit.vector \in BOOLEAN /\ inherit.header \in BOOLEAN /\ inherit.data \in BOOLEAN
  BY DEF Inheritances
<1>3. e = [at |-> at, size |-> size, ext |-> ext, length |-> length,
           vector |-> IF inherit.vector THEN None ELSE p.vector,
           cid |-> IF inherit.header THEN None ELSE p.cid,
           data |-> IF inherit.data THEN None ELSE p.data]
  BY DEF Acn!Encoded
<1>4. data_len \in 0 .. p.data.len /\ vector_len \in {0, 4} /\ header_len \in {0, 16}
  BY <1>1, <1>2 DEF Acn!VECTOR_SIZE, Acn!HEADER_SIZE
<1>5. extended \in BOOLEAN /\ (extended <=> data_len + vector_len + header_len > 4095)
  BY <1>4, SMT DEF Acn!EXTENDED_LENGTH
<1>6. ext \in BOOLEAN /\ (~ext => data_len + vector_len + header_len <= 4095)
  <2>1. data_len + vector_len + header_len \in Nat
    BY <1>1, <1>4
  <2> HIDE DEF extended, data_len, vector_len, header_len
  <2> QED
    BY <1>5, <2>1
<1>7. length_len = (IF ext THEN 3 ELSE 2) /\ length_len \in 2 .. 3
  <2> HIDE DEF ext
  <2> QED
    BY <1>6
<1>8. Acn!LengthSize(e) = length_len
  <2> HIDE DEF ext
  <2> QED
    BY <1>3, <1>6 DEF Acn!LengthSize
<1>9. Acn!MinLength(e) = length_len + vector_len + header_len
  <2> HIDE DEF ext, size, length, length_len
  <2>1. (IF e.vector = None THEN 0 ELSE Acn!VECTOR_SIZE) = vector_len
    BY <1>1, <1>2, <1>3
  <2>2. (IF e.cid = None THEN 0 ELSE Acn!HEADER_SIZE) = header_len
    BY <1>1, <1>2, <1>3
  <2> QED
    BY <1>8, <2>1, <2>2 DEF Acn!MinLength
<1>10. e.size <= Acn!WholeSize(p)
  <2>1. size <= p.data.len + 20 + length_len
    <3> HIDE DEF data_len, vector_len, header_len, length_len
    <3> QED
      BY <1>1, <1>4, <1>7
  <2>2. ext => p.vector \in LongVectors \/ Acn!EXTENDED_LENGTH(FALSE, FALSE, p.data.len)
    <3>1. ASSUME extended PROVE Acn!EXTENDED_LENGTH(FALSE, FALSE, p.data.len)
      <4>1. p.data.len + 4 + 16 > 4095
        <5> HIDE DEF data_len, vector_len, header_len, extended
        <5> QED
          BY <1>1, <1>4, <1>5, <3>1, SMT
      <4> QED
        BY <1>1, <4>1, SMT DEF Acn!EXTENDED_LENGTH, Acn!VECTOR_SIZE, Acn!HEADER_SIZE
    <3> QED
      BY <3>1
  <2>3. p.data.len + 20 + 3 = p.data.len + 23 /\ p.data.len + 20 + 2 = p.data.len + 22
        /\ p.data.len + 22 <= p.data.len + 23
    BY <1>1
  <2>4. e.size = size
    BY <1>3
  <2>5. p.data.len + 20 + length_len <= Acn!WholeSize(p)
    <3> HIDE DEF ext
    <3>1. CASE p.vector \in LongVectors \/ Acn!EXTENDED_LENGTH(FALSE, FALSE, p.data.len)
      <4>1. Acn!WholeSize(p) = p.data.len + 23
        BY <3>1, Zenon DEF Acn!WholeSize
      <4> HIDE DEF length_len
      <4> QED
        BY <1>1, <1>7, <4>1
    <3>2. CASE ~(p.vector \in LongVectors \/ Acn!EXTENDED_LENGTH(FALSE, FALSE, p.data.len))
      <4>1. Acn!WholeSize(p) = p.data.len + 22
        BY <3>2, Zenon DEF Acn!WholeSize
      <4>2. length_len = 2
        BY <2>2, <3>2
      <4> HIDE DEF length_len
      <4> QED
        BY <1>1, <4>1, <4>2
    <3> QED
      BY <3>1, <3>2
  <2> HIDE DEF size, length_len
  <2> QED
    <3>1. size \in Int /\ length_len \in Int
      BY <1>1, <1>4, <1>7 DEF size
    <3>2. Acn!WholeSize(p) \in Nat
      BY WholeSizeType
    <3> QED
      BY <1>1, <2>1, <2>4, <2>5, <3>1, <3>2
<1>11. /\ size \in Nat /\ size <= p.data.len + 23
       /\ ~ext => size <= 4097
       /\ size = Acn!MinLength(e) + data_len
       /\ length_len <= Acn!MinLength(e) /\ Acn!MinLength(e) \in Nat
  <2> HIDE DEF data_len, vector_len, header_len, length_len, ext
  <2> QED
    BY <1>1, <1>4, <1>6, <1>7, <1>9, SMT
<1>12. /\ length = size \/ (length < 2 /\ size > Acn!MaxLength(ext))
       /\ size <= Acn!MaxLength(ext) => length = size
       /\ length \in Nat
  <2>1. Acn!LONG_MOST = 1048575 /\ Acn!SHORT_MOST = 4095
    BY SMT DEF Acn!LONG_MOST, Acn!SHORT_MOST
  <2> DEFINE most == Acn!MaxLength(ext)
  <2>2. length = size % (most + 1)
    OBVIOUS
  <2>3. most = IF ext THEN Acn!LONG_MOST ELSE Acn!SHORT_MOST
    BY DEF Acn!MaxLength
  <2> HIDE DEF size, ext, length, most
  <2>4. CASE ext
    <3>1. most = 1048575 /\ size <= 1048575
      BY <1>1, <1>11, <2>1, <2>3, <2>4, SMT
    <3>2. length = size
      BY <1>11, <2>2, <3>1, SMT
    <3>3. length \in Nat
      BY <1>11, <2>1, <3>1, <3>2, SMT
    <3> QED
      BY <3>2, <3>3
  <2>5. CASE ~ext
    <3>1. most = 4095 /\ size <= 4097
      BY <1>11, <2>1, <2>3, <2>5, SMT
    <3>2. length = size % 4096
      BY <2>2, <3>1, SMT
    <3>3. /\ size <= 4095 => length = size
          /\ size > 4095 => length \in 0 .. 1
      BY <1>11, <3>1, <3>2, SMT
    <3>4. /\ length = size \/ (length < 2 /\ size > most)
          /\ size <= most => length = size
          /\ length \in Nat
      BY <1>11, <2>1, <3>1, <3>3, SMT
    <3> QED
      BY <3>4, Zenon DEF most
  <2> QED
    BY <2>4, <2>5, Zenon DEF most
<1> HIDE DEF data_len, vector_len, header_len, length_len, ext, size, length
<1>13. /\ e.at = at /\ e.size = size /\ e.ext = ext /\ e.length = length
       /\ e.vector = IF inherit.vector THEN None ELSE p.vector
       /\ e.cid = IF inherit.header THEN None ELSE p.cid
       /\ e.data = IF inherit.data THEN None ELSE p.data
  BY <1>3
<1>14. e \in Entries
  <2>1. /\ (IF inherit.vector THEN None ELSE p.vector) \in Vectors \cup {None}
        /\ (IF inherit.header THEN None ELSE p.cid) \in Cids \cup {None}
        /\ (IF inherit.data THEN None ELSE p.data) \in Datas \cup {None}
    BY <1>1
  <2> QED
    BY <1>3, <1>6, <1>11, <1>12, <2>1 DEF Entries
<1>15. e.vector \in LongVectors => e.ext
  BY <1>13 DEF ext, Acn!AcnAssumption
<1>16. /\ Acn!LengthSize(e) \in 2 .. 3 /\ Acn!MinLength(e) \in Nat
       /\ Acn!LengthSize(e) <= Acn!MinLength(e)
       /\ e.size = Acn!MinLength(e) + (IF inherit.data THEN 0 ELSE p.data.len)
  BY <1>7, <1>8, <1>11, <1>13 DEF data_len
<1>17. LengthTells(e)
  <2>1. length < 2 => length < Acn!MinLength(e)
    BY <1>7, <1>11, <1>12, SMT
  <2> QED
    BY <1>12, <1>13, <1>15, <2>1, Zenon DEF LengthTells
<1> QED
  BY <1>10, <1>13, <1>14, <1>16, <1>17

LEMMA LeftOutType ==
  ASSUME NEW i
  PROVE  Acn!LeftOut(i) \in Inheritances
BY DEF Acn!LeftOut, Acn!Inheritance, Acn!NoInheritance, Inheritances

\* PDU i as it is in the buffer
LEMMA PackedFacts ==
  ASSUME Acn!AcnAssumption, Acn!TypeOK, Acn!PackedInOrder, NEW i \in DOMAIN packed
  PROVE  LET e == packed[i]  p == block[i]  inherit == Acn!LeftOut(i) IN
         /\ i \in 1 .. Len(packed) /\ i \in 1 .. Len(block) /\ p \in Acn!Pdus
         /\ e \in Entries /\ Acn!EndOf(i) = e.at + e.size
         /\ inherit \in Inheritances
         /\ e.vector = IF inherit.vector THEN None ELSE p.vector
         /\ e.cid = IF inherit.header THEN None ELSE p.cid
         /\ e.data = IF inherit.data THEN None ELSE p.data
         /\ Acn!LengthSize(e) \in 2 .. 3 /\ Acn!MinLength(e) \in Nat
         /\ Acn!LengthSize(e) <= Acn!MinLength(e)
         /\ e.size = Acn!MinLength(e) + (IF inherit.data THEN 0 ELSE p.data.len)
         /\ Acn!LengthSize(e) <= e.size
         /\ LengthTells(e)
<1> DEFINE e == packed[i]
           p == block[i]
           inherit == Acn!LeftOut(i)
           at == packed[i].at
<1>1. packed \in Seq(Entries) /\ block \in Seq(Acn!Pdus) /\ Len(packed) <= Len(block)
  BY DEF Acn!TypeOK, Acn!PackedInOrder, Entries
<1>2. i \in 1 .. Len(packed) /\ i \in 1 .. Len(block) /\ p \in Acn!Pdus /\ e \in Entries
  BY <1>1
<1>3. e = Acn!Encoded(at, p, inherit)
  BY DEF Acn!PackedInOrder
<1>4. inherit \in Inheritances
  BY LeftOutType
<1>5. Acn!EndOf(i) = e.at + e.size
  BY DEF Acn!EndOf
<1>6. at \in Nat /\ e.size \in Nat /\ inherit.data \in BOOLEAN /\ p \in Acn!Pdus
  <2> HIDE DEF e
  <2> QED
    BY <1>2, <1>4 DEF Entries, Inheritances, e
<1> HIDE DEF e, p, inherit, at
<1>7. /\ e.vector = IF inherit.vector THEN None ELSE p.vector
      /\ e.cid = IF inherit.header THEN None ELSE p.cid
      /\ e.data = IF inherit.data THEN None ELSE p.data
      /\ Acn!LengthSize(e) \in 2 .. 3 /\ Acn!MinLength(e) \in Nat
      /\ Acn!LengthSize(e) <= Acn!MinLength(e)
      /\ e.size = Acn!MinLength(e) + (IF inherit.data THEN 0 ELSE p.data.len)
      /\ LengthTells(e)
  BY <1>3, <1>4, <1>6, EncodedFacts
<1>8. Acn!LengthSize(e) <= e.size
  <2>1. p.data.len \in Nat
    BY <1>2, PduFacts
  <2> QED
    BY <1>6, <1>7, <2>1
<1> QED
  BY <1>2, <1>4, <1>5, <1>7, <1>8, Zenon DEF e, p, inherit

----
(* Packing.                                                                *)
LEMMA PackKeepsOrder ==
  ASSUME Acn!AcnAssumption, Acn!AcnInv, Len(packed) < Len(block),
         Acn!Pack(Acn!LeftOut(Len(packed) + 1))
  PROVE  Acn!AcnInv'
<1>0. PICK n \in Nat : n = Len(packed)
  BY DEF Acn!AcnInv, Acn!TypeOK
<1> DEFINE e == Acn!Encoded(used, block[n + 1], Acn!LeftOut(n + 1))
<1>1. /\ packed' = Append(packed, e) /\ used' = used + e.size
      /\ UNCHANGED <<block, packer, acn_buflen, parser, last_pdu, parsed, over>>
  BY <1>0 DEF Acn!Pack
<1>2. /\ Acn!TypeOK /\ Acn!PackedInOrder /\ Acn!SentWhole /\ Acn!ParsedInOrder
      /\ packed \in Seq(Entries) /\ n = Len(packed) /\ n < Len(block)
      /\ block \in Seq(Acn!Pdus) /\ block[n + 1] \in Acn!Pdus /\ used \in Nat
  BY <1>0 DEF Acn!AcnInv, Acn!TypeOK, Entries
<1>3. acn_buflen = None /\ parsed = << >> /\ ~over /\ last_pdu = None
  BY <1>2 DEF Acn!SentWhole, Acn!ParsedInOrder
<1>4. e \in Entries /\ e.at = used /\ e.size \in Nat /\ e.size <= Acn!WholeSize(block[n + 1])
  <2> DEFINE p == block[n + 1]
             inherit == Acn!LeftOut(n + 1)
  <2> HIDE DEF e, p, inherit
  <2>1. e \in Entries /\ e.at = used /\ e.size <= Acn!WholeSize(block[n + 1])
    <3>1. e = Acn!Encoded(used, p, inherit) /\ p \in Acn!Pdus /\ used \in Nat
      BY <1>2 DEF e, p, inherit
    <3>2. inherit \in Inheritances
      BY LeftOutType DEF inherit
    <3>3. e \in Entries /\ e.at = used /\ e.size <= Acn!WholeSize(p)
      BY <3>1, <3>2, EncodedFacts
    <3> QED
      BY <3>3 DEF p
  <2> QED
    BY <2>1 DEF Entries
<1> HIDE DEF e
<1>5. /\ packed' \in Seq(Entries) /\ Len(packed') = n + 1
      /\ \A i \in 1 .. n : packed'[i] = packed[i]
      /\ packed'[n + 1] = e
      /\ DOMAIN packed' = 1 .. n + 1 /\ DOMAIN packed = 1 .. n
  BY <1>1, <1>2, <1>4
<1>6. \A i : Acn!LeftOut(i)' = Acn!LeftOut(i)
  BY <1>1 DEF Acn!LeftOut, Acn!Inheritance, Acn!NoInheritance
<1>7. /\ \A i \in 1 .. n : Acn!EndOf(i)' = Acn!EndOf(i) /\ Acn!EndOf(i) \in Nat
      /\ Acn!EndOf(n + 1)' = used + e.size
  <2>1. ASSUME NEW i \in 1 .. n
        PROVE  packed[i].at \in Nat /\ packed[i].size \in Nat
    <3>1. packed[i] \in Entries
      BY <1>2
    <3> QED
      BY <3>1 DEF Entries
  <2>2. Acn!EndOf(n + 1)' = e.at + e.size
    BY <1>5 DEF Acn!EndOf
  <2>3. ASSUME NEW i \in 1 .. n
        PROVE  Acn!EndOf(i)' = Acn!EndOf(i) /\ Acn!EndOf(i) \in Nat
    BY <1>5, <2>1 DEF Acn!EndOf
  <2> QED
    BY <1>4, <2>2, <2>3
<1>8. Acn!TypeOK'
  BY <1>1, <1>2, <1>4, <1>5 DEF Acn!TypeOK, Entries
<1>9. Acn!PackedInOrder'
  <2>0. /\ \A i \in 1 .. n : packed[i].at = IF i = 1 THEN 0 ELSE Acn!EndOf(i - 1)
        /\ \A i, j \in 1 .. n : i < j => Acn!EndOf(i) <= packed[j].at
        /\ \A i \in 1 .. n : Acn!EndOf(i) <= used
        /\ used = IF n = 0 THEN 0 ELSE Acn!EndOf(n)
    <3>1. DOMAIN packed = 1 .. n /\ (packed = << >> <=> n = 0)
      BY <1>2
    <3> QED
      BY <1>2, <3>1, Zenon DEF Acn!PackedInOrder
  <2>1. Len(packed') <= Len(block')
    BY <1>1, <1>2, <1>5
  <2>2. ASSUME NEW i \in 1 .. n + 1
        PROVE  packed'[i] = Acn!Encoded(packed'[i].at, block'[i], Acn!LeftOut(i)')
    <3>1. CASE i = n + 1
      BY <1>1, <1>4, <1>5, <1>6, <3>1 DEF e
    <3>2. CASE i # n + 1
      BY <1>1, <1>2, <1>5, <1>6, <3>2 DEF Acn!PackedInOrder
    <3> QED
      BY <3>1, <3>2
  <2>3. ASSUME NEW i \in 1 .. n + 1
        PROVE  packed'[i].at = IF i = 1 THEN 0 ELSE Acn!EndOf(i - 1)'
    <3>1. CASE i = n + 1
      BY <1>2, <1>4, <1>5, <1>7, <2>0, <3>1
    <3>2. CASE i # n + 1
      BY <1>2, <1>5, <1>7, <2>0, <3>2
    <3> QED
      BY <3>1, <3>2
  <2>4. ASSUME NEW i \in 1 .. n + 1, NEW j \in 1 .. n + 1, i < j
        PROVE  Acn!EndOf(i)' <= packed'[j].at
    <3>1. CASE j = n + 1
      BY <1>2, <1>4, <1>5, <1>7, <2>0, <2>4, <3>1, SMTT(30)
    <3>2. CASE j # n + 1
      <4>1. i \in 1 .. n /\ j \in 1 .. n
        BY <2>4, <3>2
      <4>2. Acn!EndOf(i)' = Acn!EndOf(i) /\ packed'[j] = packed[j]
        BY <1>5, <1>7, <4>1
      <4> QED
        BY <2>0, <2>4, <4>1, <4>2, Zenon
    <3> QED
      BY <3>1, <3>2
  <2>5. ASSUME NEW i \in 1 .. n + 1
        PROVE  Acn!EndOf(i)' <= used'
    <3>1. CASE i = n + 1
      BY <1>1, <1>2, <1>4, <1>7, <3>1
    <3>2. CASE i # n + 1
      BY <1>1, <1>2, <1>4, <1>5, <1>7, <2>0, <3>2, SMTT(30)
    <3> QED
      BY <3>1, <3>2
  <2>6. used' = IF packed' = << >> THEN 0 ELSE Acn!EndOf(Len(packed))'
    BY <1>1, <1>2, <1>5, <1>7
  <2>7. used' <= Acn!buf_size(block')[Len(packed')]
    <3>1. Acn!buf_size(block)[n + 1]
            = Acn!buf_size(block)[n] + Acn!WholeSize(block[n + 1])
      BY <1>2, BufSizeAdds
    <3>2. used <= Acn!buf_size(block)[n] /\ Acn!buf_size(block)[n] \in Nat
      BY <1>2, BufSizeGrows DEF Acn!PackedInOrder
    <3>3. Acn!WholeSize(block[n + 1]) \in Nat
      BY <1>2, WholeSizeType
    <3> QED
      BY <1>1, <1>2, <1>4, <1>5, <3>1, <3>2, <3>3
  <2> QED
    BY <1>5, <2>1, <2>2, <2>3, <2>4, <2>5, <2>6, <2>7 DEF Acn!PackedInOrder
<1>10. Acn!SentWhole' /\ Acn!ParsedInOrder'
  BY <1>1, <1>3, <1>5 DEF Acn!SentWhole, Acn!ParsedInOrder
<1> QED
  BY <1>1, <1>3, <1>8, <1>9, <1>10 DEF Acn!AcnInv
----
(* Parsing.                                                                *)
\* The places are those of different PDUs.
LEMMA PlacesDiffer ==
  ASSUME Acn!AcnAssumption, Acn!TypeOK, Acn!PackedInOrder,
         NEW i \in DOMAIN packed, NEW j \in DOMAIN packed, packed[i].at = packed[j].at
  PROVE  i = j
<1>1. /\ i \in Nat /\ j \in Nat
      /\ packed[i].at \in Nat /\ packed[j].at \in Nat
      /\ packed[i].at < Acn!EndOf(i) /\ packed[j].at < Acn!EndOf(j)
  <2>1. ASSUME NEW k \in DOMAIN packed
        PROVE  k \in Nat /\ packed[k].at \in Nat /\ packed[k].at < Acn!EndOf(k)
    <3>1. /\ k \in 1 .. Len(packed) /\ packed[k] \in Entries
          /\ Acn!EndOf(k) = packed[k].at + packed[k].size
          /\ Acn!LengthSize(packed[k]) \in 2 .. 3
          /\ Acn!LengthSize(packed[k]) <= packed[k].size
      BY PackedFacts
    <3>2. packed[k].at \in Nat /\ packed[k].size \in Nat
      BY <3>1 DEF Entries
    <3> QED
      BY <3>1, <3>2
  <2> QED
    BY <2>1
<1>2. /\ i < j => Acn!EndOf(i) <= packed[j].at
      /\ j < i => Acn!EndOf(j) <= packed[i].at
  BY DEF Acn!PackedInOrder
<1>3. Acn!EndOf(i) \in Nat /\ Acn!EndOf(j) \in Nat
  BY <1>1, PackedFacts DEF Entries
<1> QED
  BY <1>1, <1>2, <1>3

\* The parser stands at the first PDU that it has not read.
LEMMA StandsAtNext ==
  ASSUME Acn!AcnAssumption, Acn!AcnInv, acn_buflen # None,
         NEW n \in Nat, n = Len(parsed)
  PROVE  /\ Acn!this_pdu = IF n = 0 THEN 0 ELSE Acn!EndOf(n)
         /\ n < Len(packed) => packed[n + 1].at = Acn!this_pdu
         /\ n # 0 => last_pdu # None
         /\ Acn!Parsing => n < Len(packed) /\ Acn!Here = n + 1
<1>1. /\ Acn!TypeOK /\ Acn!PackedInOrder /\ Acn!SentWhole /\ Acn!ParsedInOrder
      /\ packed \in Seq(Entries) /\ parsed \in Seq(Acn!Pdus) /\ n <= Len(packed)
      /\ Len(packed) = Len(block) /\ Len(packed) # 0 /\ used \in Nat
  BY DEF Acn!AcnInv, Acn!TypeOK, Acn!SentWhole, Acn!ParsedInOrder, Entries
<1>2. /\ Acn!this_pdu = IF n = 0 THEN 0 ELSE Acn!EndOf(n)
      /\ n # 0 => last_pdu # None
  <2>1. CASE n = 0
    <3>1. last_pdu = None
      BY <1>1, <2>1 DEF Acn!ParsedInOrder
    <3> QED
      BY <2>1, <3>1 DEF Acn!this_pdu
  <2>2. CASE n # 0
    <3>1. last_pdu = [pdu |-> block[n], next |-> Acn!EndOf(n)]
      BY <1>1, <2>2 DEF Acn!ParsedInOrder
    <3>2. last_pdu # None
      <4>1. last_pdu \in [pdu : Acn!Pdus, next : Nat]
        <5>1. block[n] \in Acn!Pdus /\ n \in DOMAIN packed
          BY <1>1, <2>2 DEF Acn!TypeOK
        <5>2. Acn!EndOf(n) \in Nat
          BY <1>1, <5>1, PackedFacts DEF Entries
        <5> QED
          BY <3>1, <5>1, <5>2
      <4> QED
        BY <4>1 DEF Acn!AcnAssumption
    <3> QED
      BY <2>2, <3>1, <3>2 DEF Acn!this_pdu
  <2> QED
    BY <2>1, <2>2
<1>3. ASSUME n < Len(packed) PROVE packed[n + 1].at = Acn!this_pdu
  <2>1. n + 1 \in DOMAIN packed /\ n + 1 - 1 = n /\ (n + 1 = 1 <=> n = 0)
    BY <1>1, <1>3
  <2>2. packed[n + 1].at = IF n + 1 = 1 THEN 0 ELSE Acn!EndOf(n + 1 - 1)
    BY <1>1, <2>1 DEF Acn!PackedInOrder
  <2> QED
    BY <1>2, <2>1, <2>2
<1>4. ASSUME Acn!Parsing PROVE n < Len(packed)
  <2>1. Acn!this_pdu < acn_buflen /\ acn_buflen \in Nat /\ acn_buflen <= used
    BY <1>1, <1>4 DEF Acn!Parsing, Acn!SentWhole, Acn!TypeOK
  <2>2. used = Acn!EndOf(Len(packed))
    BY <1>1 DEF Acn!PackedInOrder
  <2>3. n # Len(packed)
    BY <1>1, <1>2, <2>1, <2>2
  <2> QED
    BY <1>1, <2>3
<1>5. ASSUME Acn!Parsing PROVE Acn!Here = n + 1
  <2>1. n + 1 \in DOMAIN packed /\ packed[n + 1].at = Acn!this_pdu
    BY <1>1, <1>3, <1>4, <1>5
  <2>2. \A i \in DOMAIN packed : packed[i].at = Acn!this_pdu => i = n + 1
    BY <1>1, <2>1, PlacesDiffer
  <2> QED
    BY <2>1, <2>2 DEF Acn!Here
<1> QED
  BY <1>2, <1>3, <1>4, <1>5

\* What PDU i leaves out is in the one before.
LEMMA LeftOutIsCommon ==
  ASSUME NEW i \in Nat
  PROVE  /\ Acn!LeftOut(i).vector => i # 1 /\ block[i].vector = block[i - 1].vector
         /\ Acn!LeftOut(i).header => i # 1 /\ block[i].cid = block[i - 1].cid
         /\ Acn!LeftOut(i).data => i # 1 /\ block[i].data = block[i - 1].data
BY DEF Acn!LeftOut, Acn!Inheritance, Acn!NoInheritance

\* A PDU whose length is not too small is read as it was packed.
LEMMA ReadBack ==
  ASSUME Acn!AcnAssumption, Acn!AcnInv, Acn!Parsing, NEW n \in Nat, n = Len(parsed),
         NEW e, e = packed[n + 1], e.length >= Acn!MinLength(e)
  PROVE  /\ e.length = e.size /\ e.size \in Nat
         /\ Acn!Filled(e) = block[n + 1]
         /\ Acn!this_pdu + Acn!MinLength(e) + (IF e.data = None THEN 0 ELSE Acn!DataOf(e).len)
              = Acn!EndOf(n + 1)
         /\ Acn!this_pdu + e.size = Acn!EndOf(n + 1)
<1> DEFINE p == block[n + 1]
           inherit == Acn!LeftOut(n + 1)
<1>1. /\ Acn!TypeOK /\ Acn!PackedInOrder /\ Acn!ParsedInOrder /\ acn_buflen # None
      /\ parsed \in Seq(Acn!Pdus) /\ packed \in Seq(Entries)
  BY DEF Acn!AcnInv, Acn!Parsing, Acn!TypeOK, Entries
<1>2. n + 1 \in DOMAIN packed /\ e.at = Acn!this_pdu
  BY <1>1, StandsAtNext
<1>3. /\ p \in Acn!Pdus /\ inherit \in Inheritances /\ e \in Entries
      /\ Acn!EndOf(n + 1) = e.at + e.size
      /\ e.vector = IF inherit.vector THEN None ELSE p.vector
      /\ e.cid = IF inherit.header THEN None ELSE p.cid
      /\ e.data = IF inherit.data THEN None ELSE p.data
      /\ Acn!MinLength(e) \in Nat
      /\ e.size = Acn!MinLength(e) + (IF inherit.data THEN 0 ELSE p.data.len)
      /\ LengthTells(e)
  BY <1>1, <1>2, PackedFacts
<1>4. /\ e.length \in Nat /\ e.size \in Nat
      /\ inherit.vector \in BOOLEAN /\ inherit.header \in BOOLEAN /\ inherit.data \in BOOLEAN
  <2> HIDE DEF inherit
  <2> QED
    BY <1>3 DEF Entries, Inheritances
<1>5. e.length = e.size
  BY <1>3, <1>4 DEF LengthTells
<1>6. /\ p.vector # None /\ p.cid # None /\ p.data # None /\ p.data.len \in Nat
      /\ p.data = [len |-> p.data.len, bytes |-> p.data.bytes]
      /\ p = [vector |-> p.vector, cid |-> p.cid, data |-> p.data]
  BY <1>3, PduFacts
<1>7. /\ inherit.vector => n # 0 /\ p.vector = block[n].vector
      /\ inherit.header => n # 0 /\ p.cid = block[n].cid
      /\ inherit.data => n # 0 /\ p.data = block[n].data
  <2>1. n + 1 - 1 = n /\ n + 1 \in Nat /\ (n + 1 # 1 => n # 0)
    OBVIOUS
  <2> QED
    BY <2>1, LeftOutIsCommon
<1>8. n # 0 => last_pdu.pdu = block[n]
  BY <1>1 DEF Acn!ParsedInOrder
<1> HIDE DEF p, inherit
<1>9. ~inherit.data => Acn!DataOf(e) = p.data /\ Acn!DataOf(e).len = p.data.len
  <2> SUFFICES ASSUME ~inherit.data PROVE Acn!DataOf(e) = p.data
    OBVIOUS
  <2>1. e.data = p.data
    BY <1>3, <1>4
  <2>2. e.length - Acn!MinLength(e) = p.data.len
    BY <1>3, <1>4, <1>5, <1>6
  <2>3. [p.data EXCEPT !.len = p.data.len] = p.data
    BY <1>6
  <2> QED
    BY <2>1, <2>2, <2>3 DEF Acn!DataOf
<1>10. Acn!Filled(e) = p
  <2>1. (IF e.vector = None THEN last_pdu.pdu.vector ELSE e.vector) = p.vector
    BY <1>3, <1>4, <1>6, <1>7, <1>8
  <2>2. (IF e.cid = None THEN last_pdu.pdu.cid ELSE e.cid) = p.cid
    BY <1>3, <1>4, <1>6, <1>7, <1>8
  <2>3. (IF e.data = None THEN last_pdu.pdu.data ELSE Acn!DataOf(e)) = p.data
    BY <1>3, <1>4, <1>6, <1>7, <1>8, <1>9
  <2> QED
    BY <1>6, <2>1, <2>2, <2>3 DEF Acn!Filled
<1>11. Acn!this_pdu + Acn!MinLength(e) + (IF e.data = None THEN 0 ELSE Acn!DataOf(e).len)
         = Acn!EndOf(n + 1)
  <2>1. (IF e.data = None THEN 0 ELSE Acn!DataOf(e).len)
          = (IF inherit.data THEN 0 ELSE p.data.len)
    BY <1>3, <1>4, <1>6, <1>9
  <2>2. e.at \in Nat
    BY <1>3 DEF Entries
  <2> QED
    BY <1>2, <1>3, <1>4, <1>6, <2>1, <2>2
<1> QED
  BY <1>2, <1>3, <1>4, <1>5, <1>10, <1>11 DEF p

LEMMA ReturnKeepsOrder ==
  ASSUME Acn!AcnAssumption, Acn!AcnInv, Acn!Parsing, NEW n \in Nat, n = Len(parsed),
         Acn!EndOf(n + 1) <= acn_buflen,
         last_pdu' = [pdu |-> block[n + 1], next |-> Acn!EndOf(n + 1)],
         parsed' = Append(parsed, block[n + 1]),
         UNCHANGED <<block, packer, packed, used, acn_buflen, parser, over>>
  PROVE  Acn!AcnInv'
<1>1. /\ Acn!TypeOK /\ Acn!PackedInOrder /\ Acn!SentWhole /\ Acn!ParsedInOrder
      /\ acn_buflen # None /\ ~over
      /\ parsed \in Seq(Acn!Pdus) /\ block \in Seq(Acn!Pdus) /\ packed \in Seq(Entries)
  BY DEF Acn!AcnInv, Acn!Parsing, Acn!TypeOK, Entries
<1>2. n < Len(packed) /\ n + 1 \in DOMAIN packed
  BY <1>1, StandsAtNext
<1>3. block[n + 1] \in Acn!Pdus /\ Acn!EndOf(n + 1) \in Nat
  BY <1>1, <1>2, PackedFacts DEF Entries
<1>4. /\ Len(parsed') = n + 1 /\ parsed' \in Seq(Acn!Pdus) /\ parsed' # << >>
      /\ DOMAIN parsed' = 1 .. n + 1 /\ DOMAIN parsed = 1 .. n
  BY <1>1, <1>3
<1>5. Acn!TypeOK'
  BY <1>1, <1>3, <1>4 DEF Acn!TypeOK
<1>6. /\ \A i : Acn!EndOf(i)' = Acn!EndOf(i)
      /\ \A i : Acn!LeftOut(i)' = Acn!LeftOut(i)
  BY DEF Acn!EndOf, Acn!LeftOut, Acn!Inheritance, Acn!NoInheritance
<1>7. Acn!PackedInOrder'
  BY <1>1, <1>6 DEF Acn!PackedInOrder
<1>8. Acn!SentWhole'
  BY <1>1 DEF Acn!SentWhole
<1>9. Acn!ParsedInOrder'
  <2>1. parsed' = SubSeq(block, 1, n + 1)
    <3>1. n < Len(block) /\ parsed = SubSeq(block, 1, n)
      BY <1>1, <1>2 DEF Acn!ParsedInOrder, Acn!PackedInOrder
    <3>2. Append(SubSeq(block, 1, n), block[n + 1]) = SubSeq(block, 1, n + 1)
      BY <1>1, <3>1
    <3> QED
      BY <3>1, <3>2
  <2>2. \A i \in 1 .. n + 1 : Acn!EndOf(i) <= acn_buflen
    <3>1. \A i \in 1 .. n : Acn!EndOf(i) <= acn_buflen
      BY <1>1, <1>4 DEF Acn!ParsedInOrder
    <3> QED
      BY <3>1
  <2>3. Len(parsed') <= Len(packed')
    BY <1>1, <1>2, <1>4
  <2> QED
    BY <1>4, <1>6, <2>1, <2>2, <2>3 DEF Acn!ParsedInOrder
<1> QED
  BY <1>1, <1>5, <1>7, <1>8, <1>9 DEF Acn!AcnInv

LEMMA AcnStarts ==
  ASSUME Acn!AcnAssumption, Acn!Init
  PROVE  Acn!AcnInv
<1>1. /\ packer \in {"block", "header"} /\ parser \in {"block", "header"}
      /\ packed = << >> /\ used = 0 /\ acn_buflen = None
      /\ last_pdu = None /\ parsed = << >> /\ over = FALSE
  BY DEF Acn!Init
<1>2. block \in Seq(Acn!Pdus) /\ Len(block) # 0 /\ block # << >>
  <2>1. PICK n \in 1 .. MaxPdus : block \in [1 .. n -> Acn!Pdus]
    BY DEF Acn!Init
  <2>2. n \in Nat /\ n # 0
    BY <2>1 DEF Acn!AcnAssumption
  <2> QED
    BY <2>1, <2>2
<1>3. Acn!TypeOK
  <2>1. packed \in Seq(Entries) /\ parsed \in Seq(Acn!Pdus) /\ {packer, parser} \subseteq {"block", "header"}
    BY <1>1
  <2> QED
    BY <1>1, <1>2, <2>1 DEF Acn!TypeOK, Entries
<1>4. Acn!PackedInOrder
  <2>1. Acn!buf_size(block)[0] = 0
    BY BufSizeAdds
  <2>2. Len(packed) = 0 /\ DOMAIN packed = {}
    BY <1>1
  <2> QED
    BY <1>1, <1>2, <2>1, <2>2 DEF Acn!PackedInOrder
<1>5. SubSeq(block, 1, Len(parsed)) = << >> /\ Len(parsed) = 0 /\ DOMAIN parsed = {}
  BY <1>1, <1>2
<1>6. Acn!ParsedInOrder
  BY <1>1, <1>2, <1>5 DEF Acn!ParsedInOrder
<1>7. Acn!SentWhole
  BY <1>1 DEF Acn!SentWhole
<1> QED
  BY <1>1, <1>3, <1>4, <1>6, <1>7 DEF Acn!AcnInv

LEMMA BlockIsSent ==
  ASSUME Acn!AcnAssumption, Acn!AcnInv, Acn!Packed, acn_buflen' \in Nat,
         acn_buflen' = used \/ (parser = "block" /\ acn_buflen' = used - 1),
         UNCHANGED <<block, packer, packed, used, parser, last_pdu, parsed, over>>
  PROVE  Acn!AcnInv'
<1>1. /\ Acn!TypeOK /\ Acn!PackedInOrder /\ Acn!SentWhole /\ Acn!ParsedInOrder
      /\ Len(packed) = Len(block) /\ acn_buflen = None
  BY DEF Acn!AcnInv, Acn!Packed
<1>2. parsed = << >> /\ ~over
  BY <1>1 DEF Acn!SentWhole
<1>3. Acn!TypeOK'
  BY <1>1 DEF Acn!TypeOK
<1>4. /\ \A i : Acn!EndOf(i)' = Acn!EndOf(i)
      /\ \A i : Acn!LeftOut(i)' = Acn!LeftOut(i)
  BY DEF Acn!EndOf, Acn!LeftOut, Acn!Inheritance, Acn!NoInheritance
<1>5. Acn!PackedInOrder'
  BY <1>1, <1>4 DEF Acn!PackedInOrder
<1>6. acn_buflen' # None
  BY DEF Acn!AcnAssumption
<1>7. Acn!SentWhole'
  BY <1>1, <1>6 DEF Acn!SentWhole
<1>8. Acn!ParsedInOrder'
  <2>1. DOMAIN parsed' = {}
    BY <1>2
  <2> QED
    BY <1>1, <1>2, <1>4, <2>1 DEF Acn!ParsedInOrder
<1> QED
  BY <1>2, <1>3, <1>5, <1>7, <1>8 DEF Acn!AcnInv

\* Where the parser stops, no PDU is left that came whole.
LEMMA StopsAtEnd ==
  ASSUME Acn!AcnAssumption, Acn!AcnInv, acn_buflen # None, ~Acn!Unrepresentable,
         ~over, Acn!Parsing => ~(IF parser = "block" THEN Acn!Accepted(packed[Acn!Here])
                                ELSE Acn!HeaderAccepted(packed[Acn!Here]))
  PROVE  DOMAIN parsed = Acn!Received
<1>1. /\ Acn!TypeOK /\ Acn!PackedInOrder /\ Acn!SentWhole /\ Acn!ParsedInOrder
      /\ parsed \in Seq(Acn!Pdus) /\ packed \in Seq(Entries)
      /\ used \in Nat /\ acn_buflen \in Nat /\ parser \in {"block", "header"}
  BY DEF Acn!AcnInv, Acn!TypeOK, Entries
<1>2. PICK n \in Nat : n = Len(parsed)
  BY <1>1
<1>3. PICK m \in Nat : m = Len(packed)
  BY <1>1
<1>4. /\ n <= m /\ m # 0 /\ DOMAIN parsed = 1 .. n /\ DOMAIN packed = 1 .. m
      /\ used = Acn!EndOf(m) /\ acn_buflen \in {used, used - 1}
  <2>1. m # 0 /\ packed # << >>
    BY <1>1, <1>3 DEF Acn!TypeOK, Acn!SentWhole
  <2> QED
    BY <1>1, <1>2, <1>3, <2>1 DEF Acn!PackedInOrder, Acn!ParsedInOrder, Acn!SentWhole
<1>5. ASSUME NEW i \in 1 .. m
      PROVE  /\ Acn!EndOf(i) \in Nat /\ packed[i].at \in Nat /\ packed[i].size \in Nat
             /\ Acn!EndOf(i) = packed[i].at + packed[i].size /\ packed[i].size >= 2
  <2>1. /\ packed[i] \in Entries /\ Acn!EndOf(i) = packed[i].at + packed[i].size
        /\ Acn!LengthSize(packed[i]) \in 2 .. 3
        /\ Acn!LengthSize(packed[i]) <= packed[i].size
    BY <1>1, <1>4, PackedFacts
  <2>2. packed[i].at \in Nat /\ packed[i].size \in Nat
    BY <2>1 DEF Entries
  <2> QED
    BY <2>1, <2>2
<1>6. \A i \in 1 .. n : Acn!EndOf(i) <= acn_buflen
  BY <1>1, <1>4 DEF Acn!ParsedInOrder
<1>7. Acn!this_pdu = IF n = 0 THEN 0 ELSE Acn!EndOf(n)
  BY <1>1, <1>2, StandsAtNext
<1>8. n < m => packed[n + 1].at = Acn!this_pdu
  BY <1>1, <1>2, <1>3, StandsAtNext
<1>9. \A i \in n + 1 .. m : Acn!EndOf(n + 1) <= Acn!EndOf(i)
  <2> SUFFICES ASSUME NEW i \in n + 1 .. m, i # n + 1
               PROVE  Acn!EndOf(n + 1) <= Acn!EndOf(i)
    BY <1>5
  <2>1. n + 1 \in 1 .. m /\ i \in 1 .. m /\ n + 1 < i
    BY <1>4
  <2>2. Acn!EndOf(n + 1) <= packed[i].at
    BY <1>1, <1>4, <2>1 DEF Acn!PackedInOrder
  <2> QED
    BY <1>5, <2>1, <2>2
<1>10. ASSUME n < m PROVE Acn!EndOf(n + 1) > acn_buflen
  <2>1. SUFFICES ASSUME Acn!EndOf(n + 1) <= acn_buflen PROVE FALSE
    BY <1>1, <1>5, <1>10
  <2> DEFINE e == packed[n + 1]
  <2>2. n + 1 \in 1 .. m /\ e.at = Acn!this_pdu
    BY <1>8, <1>10
  <2>3. Acn!this_pdu \in Nat /\ Acn!this_pdu + e.size <= acn_buflen /\ e.size >= 2
    BY <1>5, <2>1, <2>2
  <2>4. Acn!Parsing
    <3>1. Acn!this_pdu < acn_buflen
      BY <1>1, <1>5, <2>2, <2>3
    <3> QED
      BY <3>1, Zenon DEF Acn!Parsing
  <2>5. Acn!Here = n + 1
    BY <1>1, <1>2, <2>4, StandsAtNext
  <2>6. /\ e \in Entries /\ LengthTells(e)
        /\ Acn!LengthSize(e) \in 2 .. 3 /\ Acn!LengthSize(e) <= e.size
        /\ Acn!MinLength(e) \in Nat /\ Acn!MinLength(e) <= e.size
        /\ Acn!Inherits(e) => n # 0
    <3> DEFINE p == block[n + 1]
               inherit == Acn!LeftOut(n + 1)
    <3>1. /\ p \in Acn!Pdus /\ inherit \in Inheritances /\ e \in Entries
          /\ e.vector = IF inherit.vector THEN None ELSE p.vector
          /\ e.cid = IF inherit.header THEN None ELSE p.cid
          /\ e.data = IF inherit.data THEN None ELSE p.data
          /\ Acn!LengthSize(e) \in 2 .. 3 /\ Acn!MinLength(e) \in Nat
          /\ Acn!LengthSize(e) <= e.size
          /\ e.size = Acn!MinLength(e) + (IF inherit.data THEN 0 ELSE p.data.len)
          /\ LengthTells(e)
      BY <1>1, <1>4, <2>2, PackedFacts
    <3>2. p.vector # None /\ p.cid # None /\ p.data # None /\ p.data.len \in Nat
      BY <3>1, PduFacts
    <3>3. inherit.data \in BOOLEAN
      <4> HIDE DEF inherit
      <4> QED
        BY <3>1 DEF Inheritances
    <3>4. Acn!Inherits(e) => n # 0
      <4>1. Acn!Inherits(e) => inherit.vector \/ inherit.header \/ inherit.data
        BY <3>1, <3>2 DEF Acn!Inherits
      <4>2. n + 1 \in Nat /\ (n + 1 # 1 => n # 0)
        OBVIOUS
      <4> QED
        BY <4>1, <4>2, LeftOutIsCommon
    <3> HIDE DEF inherit, p
    <3>5. Acn!MinLength(e) <= e.size
      BY <3>1, <3>2, <3>3
    <3> QED
      BY <3>1, <3>4, <3>5
  <2>7. e.length = e.size
    <3>1. ~(e.size > Acn!MaxLength(e.ext))
      BY <1>4, <2>2 DEF Acn!Unrepresentable
    <3>2. Acn!MaxLength(e.ext) \in Nat
      BY SMT DEF Acn!MaxLength, Acn!LONG_MOST, Acn!SHORT_MOST
    <3>3. e.size <= Acn!MaxLength(e.ext)
      BY <1>5, <2>2, <3>1, <3>2
    <3> QED
      BY <2>6, <3>3 DEF LengthTells
  <2>8. Acn!LengthIsThere(e)
    <3>1. CASE e.size # Acn!LengthSize(e)
      <4>1. Acn!this_pdu + Acn!LengthSize(e) < acn_buflen
        BY <1>1, <1>5, <2>2, <2>3, <2>6, <3>1, SMTT(30)
      <4> QED
        BY <4>1 DEF Acn!LengthIsThere
    <3>2. CASE e.size = Acn!LengthSize(e)
      <4>1. n + 1 # m
        BY <1>3, <3>2 DEF Acn!Unrepresentable
      <4>2. n + 1 \in 1 .. m /\ n + 2 \in 1 .. m /\ n + 1 < n + 2
        BY <1>10, <4>1
      <4>3. Acn!EndOf(n + 1) <= packed[n + 2].at /\ Acn!EndOf(n + 2) <= used
        BY <1>1, <1>4, <4>2 DEF Acn!PackedInOrder
      <4>4. Acn!this_pdu + Acn!LengthSize(e) = Acn!EndOf(n + 1)
        BY <1>5, <2>2, <3>2
      <4>5. Acn!EndOf(n + 1) + 2 <= used /\ Acn!EndOf(n + 1) \in Nat
        <5>1. /\ Acn!EndOf(n + 2) = packed[n + 2].at + packed[n + 2].size
              /\ packed[n + 2].at \in Nat /\ packed[n + 2].size \in Nat
              /\ packed[n + 2].size >= 2 /\ Acn!EndOf(n + 1) \in Nat
          BY <1>5, <4>2
        <5> QED
          BY <1>1, <4>3, <5>1
      <4>6. Acn!this_pdu + Acn!LengthSize(e) < acn_buflen
        BY <1>1, <1>4, <4>4, <4>5
      <4> QED
        BY <4>6 DEF Acn!LengthIsThere
    <3> QED
      BY <3>1, <3>2
  <2>9. Acn!Inherits(e) => last_pdu # None
    BY <1>1, <1>2, <2>6, StandsAtNext
  <2>10. e.length >= Acn!MinLength(e) /\ Acn!this_pdu + e.length <= acn_buflen
    BY <1>5, <2>2, <2>3, <2>6, <2>7
  <2>11. Acn!Accepted(e) /\ Acn!HeaderAccepted(e)
    BY <2>6, <2>8, <2>9, <2>10, Zenon DEF Acn!Accepted, Acn!HeaderAccepted, LengthTells
  <2> QED
    BY <2>4, <2>5, <2>11
<1>11. Acn!Received = 1 .. n
  BY <1>4, <1>5, <1>6, <1>9, <1>10 DEF Acn!Received
<1> QED
  BY <1>4, <1>11

\* acn_rlp.c:124, 223, 370 -- whatever the calls and wherever the block is cut, the
\* buffer holds the PDUs of the block in order, each with what it left out because the one
\* before it has the same, and the parser has got back the first of them, in order, and not
\* one more than arrived.
THEOREM AcnInvariant ==
  ASSUME Acn!AcnAssumption PROVE Acn!Spec => []Acn!AcnInv
<1>1. Acn!Init => Acn!AcnInv
  BY AcnStarts
<1>2. Acn!AcnInv /\ [Acn!Next]_(Acn!vars) => Acn!AcnInv'
  <2> SUFFICES ASSUME Acn!AcnInv, [Acn!Next]_(Acn!vars) PROVE Acn!AcnInv'
    OBVIOUS
  <2>1. /\ Acn!TypeOK /\ Acn!PackedInOrder /\ Acn!SentWhole /\ Acn!ParsedInOrder
        /\ packed \in Seq(Entries) /\ parsed \in Seq(Acn!Pdus)
        /\ parser \in {"block", "header"} /\ used \in Nat
    BY DEF Acn!AcnInv, Acn!TypeOK, Entries
  <2>2. PICK n \in Nat : n = Len(parsed)
    BY <2>1
  <2>3. CASE Acn!PackBlock
    <3>1. Acn!LeftOut(Len(packed) + 1) = Acn!Inheritance(Len(packed) + 1)
      BY <2>3 DEF Acn!PackBlock, Acn!LeftOut
    <3> QED
      BY <2>3, <3>1, PackKeepsOrder DEF Acn!PackBlock
  <2>4. CASE Acn!PackHeader
    <3>1. Acn!LeftOut(Len(packed) + 1) = Acn!NoInheritance
      BY <2>4 DEF Acn!PackHeader, Acn!LeftOut
    <3> QED
      BY <2>4, <3>1, PackKeepsOrder DEF Acn!PackHeader
  <2>5. CASE Acn!SendOnStream
    BY <2>1, <2>5, BlockIsSent DEF Acn!SendOnStream
  <2>6. CASE Acn!SendDatagram
    <3>1. PICK datagram_len \in {Acn!PREAMBLE_SIZE + used, Acn!PREAMBLE_SIZE + used - 1} :
            datagram_len > Acn!PREAMBLE_SIZE /\ acn_buflen' = datagram_len - Acn!PREAMBLE_SIZE
      BY <2>6 DEF Acn!SendDatagram
    <3>2. acn_buflen' \in Nat /\ acn_buflen' \in {used, used - 1}
      BY <2>1, <3>1 DEF Acn!PREAMBLE_SIZE
    <3> QED
      BY <2>6, <3>2, BlockIsSent DEF Acn!SendDatagram
  <2>7. CASE Acn!ParsePdu
    <3> DEFINE e == packed[Acn!Here]
               next == Acn!this_pdu + Acn!MinLength(e)
                         + (IF e.data = None THEN 0 ELSE Acn!DataOf(e).len)
    <3>1. Acn!Parsing /\ Acn!Accepted(e) /\ Acn!Return(e, next)
      BY <2>7 DEF Acn!ParsePdu
    <3>2. Acn!Here = n + 1
      BY <2>2, <3>1, StandsAtNext DEF Acn!Parsing
    <3>3. /\ e.length = e.size /\ e.size \in Nat /\ Acn!Filled(e) = block[n + 1]
          /\ next = Acn!EndOf(n + 1)
          /\ Acn!this_pdu + e.size = Acn!EndOf(n + 1)
      BY <2>2, <3>1, <3>2, ReadBack DEF Acn!Accepted
    <3>4. Acn!EndOf(n + 1) <= acn_buflen
      BY <3>1, <3>3 DEF Acn!Accepted
    <3> QED
      BY <2>2, <3>1, <3>3, <3>4, ReturnKeepsOrder DEF Acn!Return
  <2>8. CASE Acn!ParseHeader
    <3> DEFINE e == packed[Acn!Here]
    <3>1. /\ Acn!Parsing /\ parser = "header" /\ Acn!HeaderAccepted(e)
          /\ Acn!Return(e, Acn!this_pdu + e.length)
      BY <2>8 DEF Acn!ParseHeader
    <3>2. Acn!Here = n + 1 /\ n < Len(packed)
      BY <2>2, <3>1, StandsAtNext DEF Acn!Parsing
    <3>3. /\ e.length = e.size /\ Acn!Filled(e) = block[n + 1]
          /\ Acn!this_pdu + e.size = Acn!EndOf(n + 1)
      BY <2>2, <3>1, <3>2, ReadBack DEF Acn!HeaderAccepted
    <3>4. Acn!EndOf(n + 1) <= acn_buflen
      <4>1. acn_buflen = used
        BY <2>1, <3>1 DEF Acn!SentWhole, Acn!Parsing
      <4>2. n + 1 \in DOMAIN packed
        BY <2>1, <3>2
      <4> QED
        BY <2>1, <4>1, <4>2 DEF Acn!PackedInOrder
    <3> QED
      BY <2>2, <3>1, <3>3, <3>4, ReturnKeepsOrder DEF Acn!Return
  <2>9. CASE Acn!ParseFails
    <3>1. UNCHANGED <<block, packer, packed, used, acn_buflen, parser, last_pdu, parsed>>
      BY <2>9 DEF Acn!ParseFails
    <3>2. ~Acn!Unrepresentable => DOMAIN parsed = Acn!Received
      BY <2>9, StopsAtEnd DEF Acn!ParseFails
    <3>3. /\ \A i : Acn!EndOf(i)' = Acn!EndOf(i)
          /\ \A i : Acn!LeftOut(i)' = Acn!LeftOut(i)
      BY <3>1 DEF Acn!EndOf, Acn!LeftOut, Acn!Inheritance, Acn!NoInheritance
    <3>4. Acn!PackedInOrder' /\ Acn!ParsedInOrder'
      BY <2>1, <3>1, <3>3 DEF Acn!PackedInOrder, Acn!ParsedInOrder
    <3>5. Acn!TypeOK' /\ Acn!SentWhole'
      BY <2>1, <2>9, <3>1 DEF Acn!TypeOK, Acn!SentWhole, Acn!ParseFails
    <3>6. Acn!Unrepresentable' = Acn!Unrepresentable /\ Acn!Received' = Acn!Received
      BY <3>1, <3>3 DEF Acn!Unrepresentable, Acn!Received
    <3> QED
      BY <3>1, <3>2, <3>4, <3>5, <3>6 DEF Acn!AcnInv
  <2>10. CASE Acn!Done \/ UNCHANGED Acn!vars
    <3>1. UNCHANGED Acn!vars
      BY <2>10 DEF Acn!Done
    <3>2. /\ \A i : Acn!EndOf(i)' = Acn!EndOf(i)
          /\ \A i : Acn!LeftOut(i)' = Acn!LeftOut(i)
      BY <3>1 DEF Acn!vars, Acn!EndOf, Acn!LeftOut, Acn!Inheritance, Acn!NoInheritance
    <3>3. Acn!PackedInOrder' /\ Acn!ParsedInOrder'
      BY <2>1, <3>1, <3>2 DEF Acn!vars, Acn!PackedInOrder, Acn!ParsedInOrder
    <3>4. Acn!TypeOK' /\ Acn!SentWhole'
      BY <2>1, <3>1 DEF Acn!vars, Acn!TypeOK, Acn!SentWhole
    <3>5. Acn!Unrepresentable' = Acn!Unrepresentable /\ Acn!Received' = Acn!Received
      BY <3>1, <3>2 DEF Acn!vars, Acn!Unrepresentable, Acn!Received
    <3> QED
      BY <3>1, <3>3, <3>4, <3>5 DEF Acn!vars, Acn!AcnInv
  <2> QED
    BY <2>3, <2>4, <2>5, <2>6, <2>7, <2>8, <2>9, <2>10 DEF Acn!Next
<1> QED
  BY <1>1, <1>2, PTL DEF Acn!Spec

\* acn_rlp.c:223, 304, 370 -- for every block of PDUs, every length of data that the 20 bits
\* can tell and every place where the block is cut: it fits the buffer that was asked for,
\* and what is parsed is what was packed, with everything inherited from the right PDU.
THEOREM BlocksAlwaysRoundTrip ==
  ASSUME Acn!AcnAssumption PROVE Acn!Spec => []BlockRoundTrips
<1>1. Acn!AcnInv => BlockRoundTrips
  <2> SUFFICES ASSUME Acn!AcnInv PROVE Acn!BlockRoundTrips
    BY DEF BlockRoundTrips
  <2>1. /\ Acn!TypeOK /\ Acn!PackedInOrder /\ Acn!ParsedInOrder
        /\ block \in Seq(Acn!Pdus) /\ packed \in Seq(Entries) /\ used \in Nat
    BY DEF Acn!AcnInv, Acn!TypeOK, Entries
  <2>2. Len(packed) \in 0 .. Len(block) /\ Len(block) \in 0 .. Len(block)
    BY <2>1 DEF Acn!PackedInOrder
  <2>3. used <= Acn!buf_size(block)[Len(block)]
    <3>1. /\ used <= Acn!buf_size(block)[Len(packed)]
          /\ Acn!buf_size(block)[Len(packed)] \in Nat
          /\ Acn!buf_size(block)[Len(block)] \in Nat
          /\ Acn!buf_size(block)[Len(packed)] <= Acn!buf_size(block)[Len(block)]
      BY <2>1, <2>2, BufSizeGrows DEF Acn!PackedInOrder
    <3> QED
      BY <2>1, <3>1
  <2>4. Len(parsed) <= Len(block) /\ parsed = SubSeq(block, 1, Len(parsed))
    BY <2>1 DEF Acn!PackedInOrder, Acn!ParsedInOrder, Acn!TypeOK
  <2> QED
    BY <2>3, <2>4 DEF Acn!AcnInv, Acn!BlockRoundTrips
<1> QED
  BY <1>1, AcnInvariant, PTL

----
(***************************************************************************)
(* UUIDs.                                                                  *)
(***************************************************************************)
\* The operators that an instance brings along are those of FiniteSets.
LEMMA IdsCount ==
  \A S : Ids!Cardinality(S) = Cardinality(S)
BY DEF Ids!IsFiniteSet, IsFiniteSet, Ids!Cardinality, Cardinality

LEMMA AscendingNth ==
  ASSUME NEW n \in Nat, NEW f, Ascends(f, n), NEW k \in 1 .. n
  PROVE  Ids!Nth({f[i] : i \in 1 .. n}, k) = f[k]
<1> DEFINE S == {f[i] : i \in 1 .. n}
<1>1. \A m \in 1 .. n : Cardinality({j \in S : j <= f[m]}) = m
  BY AscendingRanks
<1>2. \A x \in S : \E m \in 1 .. n : x = f[m]
  OBVIOUS
<1>3. f[k] \in S
  OBVIOUS
<1> HIDE DEF S
<1> DEFINE upto(x) == Ids!Cardinality({j \in S : j <= x})
<1>4. Ids!Nth(S, k) = CHOOSE x \in S : upto(x) = k
  BY DEF Ids!Nth
<1>5. \A m \in 1 .. n : upto(f[m]) = m
  BY <1>1, IdsCount
<1> HIDE DEF upto
<1>6. \A x \in S : upto(x) = k => x = f[k]
  BY <1>2, <1>5
<1>7. Ids!Nth(S, k) = f[k]
  BY <1>3, <1>4, <1>5, <1>6
<1> QED
  BY <1>7 DEF S

----
(* Text.                                                                   *)
Uuid == Ids!Bytes(16)

LEMMA NibblesFacts ==
  ASSUME NEW uuid \in Uuid
  PROVE  /\ DOMAIN Ids!Nibbles(uuid) = 1 .. 32
         /\ \A k \in 1 .. 32 : Ids!Nibbles(uuid)[k] \in 0 .. 15
         /\ \A i \in 1 .. 16 : /\ 2 * i - 1 \in 1 .. 32 /\ 2 * i \in 1 .. 32
                               /\ 16 * Ids!Nibbles(uuid)[2 * i - 1] + Ids!Nibbles(uuid)[2 * i]
                                    = uuid[i]
<1> DEFINE at(k) == IF k % 2 = 1 THEN uuid[(k + 1) \div 2] \div 16 ELSE uuid[k \div 2] % 16
<1>1. Ids!Nibbles(uuid) = [k \in 1 .. 32 |-> at(k)]
  <2>1. 1 .. 2 * Ids!UUID_BYTES = 1 .. 32
    BY DEF Ids!UUID_BYTES
  <2> QED
    BY <2>1, Zenon DEF Ids!Nibbles
<1>2. \A i \in 1 .. 16 : uuid[i] \in 0 .. 255
  BY DEF Uuid, Ids!Bytes
<1>3. ASSUME NEW k \in 1 .. 32 PROVE at(k) \in 0 .. 15
  <2>1. CASE k % 2 = 1
    <3>1. (k + 1) \div 2 \in 1 .. 16
      OBVIOUS
    <3> QED
      BY <1>2, <2>1, <3>1, HalvesOfByte
  <2>2. CASE k % 2 # 1
    <3>1. k \div 2 \in 1 .. 16
      BY <2>2
    <3> QED
      BY <1>2, <2>2, <3>1, HalvesOfByte
  <2> QED
    BY <2>1, <2>2
<1>4. ASSUME NEW i \in 1 .. 16
      PROVE  /\ 2 * i - 1 \in 1 .. 32 /\ 2 * i \in 1 .. 32
             /\ at(2 * i - 1) = uuid[i] \div 16 /\ at(2 * i) = uuid[i] % 16
             /\ 16 * (uuid[i] \div 16) + (uuid[i] % 16) = uuid[i]
  <2>1. /\ 2 * i - 1 \in 1 .. 32 /\ 2 * i \in 1 .. 32
        /\ (2 * i - 1) % 2 = 1 /\ (2 * i) % 2 = 0
        /\ ((2 * i - 1) + 1) \div 2 = i /\ (2 * i) \div 2 = i
    OBVIOUS
  <2>2. 16 * (uuid[i] \div 16) + (uuid[i] % 16) = uuid[i]
    <3>1. uuid[i] \in 0 .. 255
      BY <1>2
    <3> QED
      BY <3>1, HalvesOfByte, Zenon
  <2> QED
    BY <2>1, <2>2
<1> HIDE DEF at
<1>5. DOMAIN Ids!Nibbles(uuid) = 1 .. 32 /\ \A k \in 1 .. 32 : Ids!Nibbles(uuid)[k] = at(k)
  BY <1>1
<1>6. ASSUME NEW i \in 1 .. 16
      PROVE  16 * Ids!Nibbles(uuid)[2 * i - 1] + Ids!Nibbles(uuid)[2 * i] = uuid[i]
  <2>1. /\ Ids!Nibbles(uuid)[2 * i - 1] = uuid[i] \div 16
        /\ Ids!Nibbles(uuid)[2 * i] = uuid[i] % 16
    BY <1>4, <1>5
  <2>2. 16 * (uuid[i] \div 16) + (uuid[i] % 16) = uuid[i]
    <3>1. uuid[i] \in 0 .. 255
      BY <1>2
    <3> QED
      BY <3>1, HalvesOfByte, Zenon
  <2> QED
    BY <2>1, <2>2, Zenon
<1> QED
  BY <1>3, <1>4, <1>5, <1>6

\* A text is read whose digits are those of the UUID, wherever they stand.
LEMMA DigitsAreRead ==
  ASSUME NEW uuid \in Uuid, NEW str, NEW f, Ascends(f, 32),
         {k \in DOMAIN str : Ids!IsDigit(str[k])} = {f[k] : k \in 1 .. 32},
         \A k \in 1 .. 32 : Ids!Digit(str[f[k]]) = Ids!Nibbles(uuid)[k]
  PROVE  Ids!etcpal_string_to_uuid(str) = uuid
<1> DEFINE digits == {k \in DOMAIN str : Ids!IsDigit(str[k])}
           nibble(n) == Ids!Digit(str[Ids!Nth(digits, n)])
           read == [i \in 1 .. Ids!UUID_BYTES |-> 16 * nibble(2 * i - 1) + nibble(2 * i)]
<1>0. Ids!etcpal_string_to_uuid(str)
        = IF Ids!Cardinality(digits) < 2 * Ids!UUID_BYTES THEN None ELSE read
  BY Zenon DEF Ids!etcpal_string_to_uuid
<1>1. Cardinality({f[k] : k \in 1 .. 32}) = 32
  BY AscendingCounts
<1>2. \A n \in 1 .. 32 : nibble(n) = Ids!Nibbles(uuid)[n]
  <2>1. \A n \in 1 .. 32 : Ids!Nth({f[k] : k \in 1 .. 32}, n) = f[n]
    BY AscendingNth
  <2> QED
    BY <2>1
<1>3. \A i \in 1 .. 16 : 16 * nibble(2 * i - 1) + nibble(2 * i) = uuid[i]
  BY <1>2, NibblesFacts
<1>4. uuid = [i \in 1 .. 16 |-> uuid[i]]
  BY DEF Uuid, Ids!Bytes
<1>5. digits = {f[k] : k \in 1 .. 32}
  OBVIOUS
<1> HIDE DEF digits, nibble
<1>6. Ids!etcpal_string_to_uuid(str) = [i \in 1 .. 16 |-> 16 * nibble(2 * i - 1) + nibble(2 * i)]
  BY <1>0, <1>1, <1>5, IdsCount DEF Ids!UUID_BYTES
<1> QED
  BY <1>3, <1>4, <1>6

LEMMA PlacesAscend ==
  /\ Ascends(Ids!Place, 32) /\ DOMAIN Ids!Place = 1 .. 32
  /\ \A k \in 1 .. 32 : Ids!Place[k] \in 1 .. 36
  /\ \A k \in 1 .. 31 : Ids!Place[k] < 36
  /\ Ids!Place[32] = 36
BY DEF Ids!Place, Ids!UUID_BYTES, Ascends

LEMMA TextFacts ==
  ASSUME NEW uuid \in Uuid, NEW text, text = Ids!etcpal_uuid_to_string(uuid)
  PROVE  /\ DOMAIN text = 1 .. 36 /\ text = [p \in 1 .. 36 |-> text[p]]
         /\ \A k \in 1 .. 32 : text[Ids!Place[k]] = Ids!Nibbles(uuid)[k]
         /\ \A p \in 1 .. 36 : p \notin {Ids!Place[k] : k \in 1 .. 32} => text[p] = Ids!HYPHEN
<1>1. text = [p \in 1 .. 36 |-> IF \E k \in 1 .. 32 : Ids!Place[k] = p
                               THEN Ids!Nibbles(uuid)[CHOOSE k \in 1 .. 32 : Ids!Place[k] = p]
                               ELSE Ids!HYPHEN]
  BY PlacesAscend, Zenon DEF Ids!etcpal_uuid_to_string
<1>2. ASSUME NEW k \in 1 .. 32 PROVE text[Ids!Place[k]] = Ids!Nibbles(uuid)[k]
  <2>1. \A j \in 1 .. 32 : Ids!Place[j] = Ids!Place[k] => j = k
    BY PlacesAscend, SMTT(30) DEF Ascends
  <2>2. (CHOOSE j \in 1 .. 32 : Ids!Place[j] = Ids!Place[k]) = k
    BY <2>1
  <2>3. Ids!Place[k] \in 1 .. 36
    BY PlacesAscend
  <2> QED
    BY <1>1, <2>2, <2>3
<1>3. DOMAIN text = 1 .. 36 /\ text = [p \in 1 .. 36 |-> text[p]]
  BY <1>1
<1> QED
  BY <1>1, <1>2, <1>3, ZenonT(60)

\* A tuple of n members is a sequence.
LEMMA TuplesAreSequences ==
  ASSUME NEW n \in Nat, NEW S, NEW s \in [1 .. n -> S]
  PROVE  s \in Seq(S) /\ Len(s) = n
<1>1. s \in Seq(S)
  OBVIOUS
<1> QED
  BY <1>1

LEMMA MemberOfSeq ==
  ASSUME NEW S, NEW s \in Seq(S), NEW n \in 1 .. Len(s)
  PROVE  s[n] \in S
OBVIOUS

LEMMA FirstPart ==
  ASSUME NEW S, NEW s \in Seq(S), NEW m \in 0 .. Len(s)
  PROVE  DOMAIN SubSeq(s, 1, m) = 1 .. m /\ \A p \in 1 .. m : SubSeq(s, 1, m)[p] = s[p]
OBVIOUS

LEMMA DigitsOfText ==
  ASSUME NEW uuid \in Uuid, NEW text, text = Ids!etcpal_uuid_to_string(uuid)
  PROVE  /\ {p \in 1 .. 36 : Ids!IsDigit(text[p])} = {Ids!Place[k] : k \in 1 .. 32}
         /\ \A k \in 1 .. 32 : Ids!Digit(text[Ids!Place[k]]) = Ids!Nibbles(uuid)[k]
<1>1. ASSUME NEW k \in 1 .. 32
      PROVE  Ids!IsDigit(text[Ids!Place[k]]) /\ Ids!Digit(text[Ids!Place[k]]) = Ids!Nibbles(uuid)[k]
  <2>1. text[Ids!Place[k]] = Ids!Nibbles(uuid)[k] /\ Ids!Nibbles(uuid)[k] \in 0 .. 15
    BY TextFacts, NibblesFacts
  <2> QED
    BY <2>1 DEF Ids!IsDigit, Ids!Digit
<1>2. ~Ids!IsDigit(Ids!HYPHEN)
  BY DEF Ids!IsDigit, Ids!HYPHEN
<1>3. \A p \in 1 .. 36 : p \notin {Ids!Place[k] : k \in 1 .. 32} => ~Ids!IsDigit(text[p])
  <2>1. \A p \in 1 .. 36 : p \notin {Ids!Place[k] : k \in 1 .. 32} => text[p] = Ids!HYPHEN
    BY TextFacts
  <2> QED
    BY <1>2, <2>1
<1>4. \A k \in 1 .. 32 : Ids!Place[k] \in 1 .. 36
  BY PlacesAscend
<1> DEFINE S == {Ids!Place[k] : k \in 1 .. 32}
<1>5. \A p \in S : p \in 1 .. 36 /\ Ids!IsDigit(text[p])
  BY <1>1, <1>4
<1> HIDE DEF S
<1>6. {p \in 1 .. 36 : Ids!IsDigit(text[p])} = S
  BY <1>3, <1>5 DEF S
<1> QED
  BY <1>1, <1>6 DEF S

LEMMA TextsReadHold ==
  ASSUME Ids!UuidAssumption, uuid_question \in Ids!Questions
  PROVE  Ids!TextsAreRead
<1> SUFFICES ASSUME Ids!About("text") PROVE Ids!TextsAreRead
  BY DEF Ids!TextsAreRead
<1> DEFINE uuid == uuid_question.uuid
           text == Ids!etcpal_uuid_to_string(uuid)
           cut == SubSeq(text, 1, uuid_question.cut)
<1>1. uuid \in Uuid /\ uuid_question.cut \in 0 .. 36
  BY DEF Ids!About, Ids!Questions, Ids!UuidAssumption, Uuid
<1>2. None \notin Uuid
  BY DEF Ids!UuidAssumption, Uuid
<1> HIDE DEF uuid
<1>3. /\ DOMAIN text = 1 .. 36
      /\ {p \in 1 .. 36 : Ids!IsDigit(text[p])} = {Ids!Place[k] : k \in 1 .. 32}
      /\ \A k \in 1 .. 32 : Ids!Digit(text[Ids!Place[k]]) = Ids!Nibbles(uuid)[k]
      /\ \A k \in 1 .. 32 : text[Ids!Place[k]] = Ids!Nibbles(uuid)[k]
      /\ \A p \in 1 .. 36 : p \notin {Ids!Place[k] : k \in 1 .. 32} => text[p] = Ids!HYPHEN
  BY <1>1, TextFacts, DigitsOfText
<1>4. /\ Ascends(Ids!Place, 32) /\ \A k \in 1 .. 32 : Ids!Place[k] \in 1 .. 36
      /\ \A k \in 1 .. 31 : Ids!Place[k] < 36
      /\ Ids!Place[32] = 36
  BY PlacesAscend
<1> HIDE DEF text, cut
<1>5. Ids!FromString(text) = uuid
  <2>1. Ids!etcpal_string_to_uuid(text) = uuid
    BY <1>1, <1>3, <1>4, DigitsAreRead
  <2> QED
    BY <1>1, <1>2, <2>1 DEF Ids!FromString, Ids!OrNull
<1>6. Ids!FromString(Ids!Upper(text)) = uuid
  <2>1. DOMAIN Ids!Upper(text) = 1 .. 36
    BY <1>3 DEF Ids!Upper
  <2>2. ASSUME NEW p \in 1 .. 36
        PROVE  /\ Ids!IsDigit(Ids!Upper(text)[p]) <=> Ids!IsDigit(text[p])
               /\ Ids!IsDigit(text[p]) => Ids!Digit(Ids!Upper(text)[p]) = Ids!Digit(text[p])
    <3>1. Ids!Upper(text)[p] = IF text[p] \in 10 .. 15 THEN text[p] + 16 ELSE text[p]
      BY <1>3 DEF Ids!Upper
    <3> QED
      BY <3>1 DEF Ids!IsDigit, Ids!Digit
  <2>3. {p \in DOMAIN Ids!Upper(text) : Ids!IsDigit(Ids!Upper(text)[p])}
          = {Ids!Place[k] : k \in 1 .. 32}
    BY <1>3, <2>1, <2>2
  <2>4. \A k \in 1 .. 32 : Ids!Digit(Ids!Upper(text)[Ids!Place[k]]) = Ids!Nibbles(uuid)[k]
    BY <1>3, <1>4, <2>2
  <2>5. Ids!etcpal_string_to_uuid(Ids!Upper(text)) = uuid
    BY <1>1, <1>4, <2>3, <2>4, DigitsAreRead
  <2> QED
    BY <1>1, <1>2, <2>5 DEF Ids!FromString, Ids!OrNull
<1>7. Ids!FromString(Ids!Nibbles(uuid)) = uuid
  <2> DEFINE all == [k \in 1 .. 32 |-> k]
  <2>1. Ascends(all, 32)
    BY DEF Ascends
  <2>2. /\ DOMAIN Ids!Nibbles(uuid) = 1 .. 32
        /\ \A k \in 1 .. 32 : Ids!Nibbles(uuid)[k] \in 0 .. 15
    BY <1>1, NibblesFacts
  <2>3. {k \in DOMAIN Ids!Nibbles(uuid) : Ids!IsDigit(Ids!Nibbles(uuid)[k])} = {all[k] : k \in 1 .. 32}
    BY <2>2 DEF Ids!IsDigit
  <2>4. \A k \in 1 .. 32 : Ids!Digit(Ids!Nibbles(uuid)[all[k]]) = Ids!Nibbles(uuid)[k]
    BY <2>2 DEF Ids!Digit
  <2> HIDE DEF all
  <2>5. Ids!etcpal_string_to_uuid(Ids!Nibbles(uuid)) = uuid
    BY <1>1, <2>1, <2>3, <2>4, DigitsAreRead
  <2> QED
    BY <1>1, <1>2, <2>5 DEF Ids!FromString, Ids!OrNull
<1>8. ASSUME uuid_question.cut < 36
      PROVE  Ids!etcpal_string_to_uuid(cut) = None /\ Ids!IsNull(Ids!FromString(cut))
  <2> DEFINE digits == {k \in DOMAIN cut : Ids!IsDigit(cut[k])}
             early == {[k \in 1 .. 31 |-> Ids!Place[k]][i] : i \in 1 .. 31}
  <2>1. DOMAIN cut = 1 .. uuid_question.cut /\ \A p \in DOMAIN cut : cut[p] = text[p]
    <3>1. text \in [1 .. 36 -> {text[p] : p \in 1 .. 36}]
      BY <1>1, TextFacts DEF text
    <3>2. text \in Seq({text[p] : p \in 1 .. 36}) /\ Len(text) = 36
      BY <3>1, TuplesAreSequences
    <3>3. uuid_question.cut \in 0 .. Len(text)
      BY <1>1, <3>2
    <3>4. /\ DOMAIN cut = 1 .. uuid_question.cut
          /\ \A p \in 1 .. uuid_question.cut : cut[p] = text[p]
      BY <3>2, <3>3, FirstPart, ZenonT(40) DEF cut
    <3> QED
      BY <3>4
  <2>2. digits \subseteq early
    <3>1. ASSUME NEW p \in DOMAIN cut, Ids!IsDigit(cut[p]) PROVE p \in early
      <4>1. p \in 1 .. 36 /\ p < 36 /\ Ids!IsDigit(text[p])
        <5>1. p \in 1 .. uuid_question.cut /\ cut[p] = text[p]
          BY <2>1
        <5> QED
          BY <1>1, <1>8, <3>1, <5>1
      <4>2. PICK k \in 1 .. 32 : p = Ids!Place[k]
        BY <1>3, <4>1, ZenonT(60)
      <4>3. k \in 1 .. 31
        BY <1>4, <4>1, <4>2
      <4> QED
        BY <4>2, <4>3
    <3> QED
      BY <3>1
  <2>3. IsFiniteSet(early) /\ Cardinality(early) = 31
    <3> DEFINE g == [k \in 1 .. 31 |-> Ids!Place[k]]
    <3>1. \A i, j \in 1 .. 31 : i < j => Ids!Place[i] < Ids!Place[j]
      BY <1>4 DEF Ascends
    <3>2. Ascends(g, 31)
      <4>1. \A i \in 1 .. 31 : i \in 1 .. 32 /\ Ids!Place[i] \in Nat
        BY <1>4
      <4>2. g \in [1 .. 31 -> Nat]
        BY <4>1
      <4>3. \A i, j \in 1 .. 31 : i < j => g[i] < g[j]
        BY <3>1
      <4> QED
        BY <4>2, <4>3 DEF Ascends
    <3>3. early = {g[i] : i \in 1 .. 31}
      OBVIOUS
    <3> HIDE DEF g, early
    <3> QED
      BY <3>2, <3>3, AscendingCounts, ZenonT(60)
  <2> HIDE DEF digits, early
  <2>4. Cardinality(digits) \in Nat /\ Cardinality(digits) <= 31
    BY <2>2, <2>3, FS_Subset, FS_CardinalityType
  <2>5. Ids!etcpal_string_to_uuid(cut) = None
    <3>1. Ids!Cardinality(digits) < 2 * Ids!UUID_BYTES
      BY <2>4, IdsCount DEF Ids!UUID_BYTES
    <3> QED
      BY <3>1, Zenon DEF Ids!etcpal_string_to_uuid, digits
  <2> QED
    BY <2>5 DEF Ids!FromString, Ids!OrNull, Ids!IsNull
<1>9. Ids!TimeLow(uuid) \o Ids!TimeMid(uuid) \o Ids!TimeHiAndVersion(uuid)
        \o Ids!ClockSeqAndNode(uuid) = uuid
  <2>1. uuid \in Seq(0 .. 255) /\ Len(uuid) = 16
    <3>1. uuid \in [1 .. 16 -> 0 .. 255]
      BY <1>1 DEF Uuid, Ids!Bytes
    <3> QED
      BY <3>1, TuplesAreSequences, ZenonT(40)
  <2> QED
    BY <2>1 DEF Ids!TimeLow, Ids!TimeMid, Ids!TimeHiAndVersion, Ids!ClockSeqAndNode
<1> QED
  BY <1>5, <1>6, <1>7, <1>8, <1>9, Zenon DEF Ids!TextsAreRead, uuid, text, cut

----
(* Versions.                                                               *)
LEMMA FlagsTell ==
  ASSUME NEW hash \in Seq(0 .. 255), Len(hash) >= 16, NEW v \in {3, 5}
  PROVE  Ids!Version(Ids!WithFlags(hash, v)) = v /\ Ids!IsRfc4122(Ids!WithFlags(hash, v))
<1>1. hash[7] \in 0 .. 255 /\ hash[9] \in 0 .. 255
  <2>1. 7 \in 1 .. Len(hash) /\ 9 \in 1 .. Len(hash)
    OBVIOUS
  <2> QED
    BY <2>1, MemberOfSeq
<1>2. \A h \in 0 .. 255 : (16 * v + (h % 16)) \div 16 = v /\ (128 + (h % 64)) \div 64 = 2
  OBVIOUS
<1>3. /\ Ids!WithFlags(hash, v)[7] = 16 * v + (hash[7] % 16)
      /\ Ids!WithFlags(hash, v)[9] = 128 + (hash[9] % 64)
  BY DEF Ids!WithFlags, Ids!UUID_BYTES
<1>4. Ids!WithFlags(hash, v)[7] \div 16 = v /\ Ids!WithFlags(hash, v)[9] \div 64 = 2
  <2>1. (16 * v + (hash[7] % 16)) \div 16 = v /\ (128 + (hash[9] % 64)) \div 64 = 2
    BY <1>1, <1>2, Zenon
  <2> QED
    BY <1>3, <2>1
<1> QED
  BY <1>4 DEF Ids!Version, Ids!IsRfc4122

LEMMA NullHasNoVersion ==
  Ids!Version(Ids!OrNull(None)) = "unknown" /\ Ids!IsNull(Ids!OrNull(None))
<1>1. Ids!OrNull(None) = [i \in 1 .. 16 |-> 0]
  BY DEF Ids!OrNull, Ids!kEtcPalNullUuid, Ids!UUID_BYTES
<1>2. Ids!OrNull(None)[7] \div 16 \notin 1 .. 5
  BY <1>1
<1> QED
  BY <1>2 DEF Ids!Version, Ids!IsNull, Ids!OrNull

\* A UUID comes back from the fields of Windows as it was.
LEMMA GuidKeeps ==
  ASSUME NEW uuid \in Uuid
  PROVE  Ids!FromGuid(Ids!Guid(uuid)) = uuid
<1> DEFINE back == Ids!FromGuid(Ids!Guid(uuid))
<1>1. back = [i \in 1 .. 16 |-> back[i]]
  BY DEF Ids!FromGuid, Ids!UUID_BYTES
<1>2. ASSUME NEW i \in 1 .. 16 PROVE back[i] = uuid[i]
  <2>1. CASE i <= 4
    BY <2>1 DEF Ids!FromGuid, Ids!Guid, Ids!UUID_BYTES
  <2>2. CASE i \in 5 .. 6
    BY <2>2 DEF Ids!FromGuid, Ids!Guid, Ids!UUID_BYTES
  <2>3. CASE i \in 7 .. 8
    BY <2>3 DEF Ids!FromGuid, Ids!Guid, Ids!UUID_BYTES
  <2>4. CASE i > 8
    BY <2>4 DEF Ids!FromGuid, Ids!Guid, Ids!UUID_BYTES
  <2> QED
    BY <2>1, <2>2, <2>3, <2>4
<1>3. uuid = [i \in 1 .. 16 |-> uuid[i]]
  BY DEF Uuid, Ids!Bytes
<1> HIDE DEF back
<1>4. back = uuid
  BY <1>1, <1>2, <1>3
<1> QED
  BY <1>4 DEF back

\* What the systems generate is handed on as it is, or refused.
LEMMA SystemsGenerate ==
  ASSUME Ids!UuidAssumption, NEW port, NEW status, NEW given \in Generated,
         NEW v1, v1 = Ids!etcpal_generate_v1_uuid(port, status, given),
         NEW v4, v4 = Ids!etcpal_generate_v4_uuid(port, status, given),
         NEW preferred, preferred = Ids!etcpal_generate_os_preferred_uuid(port, status, given)
  PROVE  IF Ids!HasGenerators(port) /\ (port = "windows" => status = "RPC_S_OK")
         THEN /\ {v1, v4, preferred} \subseteq {given[generator] : generator \in Ids!Generators}
              /\ Ids!Version(v1) = 1 /\ Ids!Version(v4) = 4
         ELSE v1 = None /\ v4 = None /\ preferred = None
<1>1. /\ \A generator \in Ids!Generators : given[generator] \in Uuid
      /\ Ids!Version(given["uuid_generate_time"]) = 1
      /\ Ids!Version(given["UuidCreateSequential"]) = 1
      /\ Ids!Version(given["uuid_generate_random"]) = 4
      /\ Ids!Version(given["UuidCreate"]) = 4
  BY DEF Ids!UuidAssumption, Uuid
<1>2. /\ "uuid_generate_time" \in Ids!Generators /\ "uuid_generate_random" \in Ids!Generators
      /\ "uuid_generate" \in Ids!Generators /\ "UuidCreateSequential" \in Ids!Generators
      /\ "UuidCreate" \in Ids!Generators
  BY DEF Ids!Generators
<1>3. \A generator \in Ids!Generators :
        Ids!FromGuid(Ids!Guid(given[generator])) = given[generator]
  BY <1>1, GuidKeeps
<1>4. CASE port = "windows" /\ status = "RPC_S_OK"
  <2>1. v1 = given["UuidCreateSequential"] /\ v4 = given["UuidCreate"] /\ preferred = v4
    BY <1>2, <1>3, <1>4 DEF Ids!etcpal_generate_v1_uuid, Ids!etcpal_generate_v4_uuid,
         Ids!etcpal_generate_os_preferred_uuid, Ids!os_uuid_generate, Ids!HasGenerators
  <2> QED
    BY <1>1, <1>2, <1>4, <2>1, Zenon DEF Ids!HasGenerators
<1>5. CASE port # "windows" /\ Ids!HasGenerators(port)
  <2>1. v1 = given["uuid_generate_time"] /\ v4 = given["uuid_generate_random"]
        /\ preferred = given["uuid_generate"]
    BY <1>5 DEF Ids!etcpal_generate_v1_uuid, Ids!etcpal_generate_v4_uuid,
         Ids!etcpal_generate_os_preferred_uuid, Ids!os_uuid_generate
  <2> QED
    BY <1>1, <1>2, <1>5, <2>1
<1>6. CASE ~(Ids!HasGenerators(port) /\ (port = "windows" => status = "RPC_S_OK"))
  <2>2. \A os_uuid : Ids!os_uuid_generate(port, status, os_uuid) = None
    BY <1>6 DEF Ids!os_uuid_generate
  <2>3. v1 = None
    BY <2>2 DEF Ids!etcpal_generate_v1_uuid
  <2>4. Ids!etcpal_generate_v4_uuid(port, status, given) = None
    BY <2>2 DEF Ids!etcpal_generate_v4_uuid
  <2>5. preferred = None
    BY <2>2, <2>4 DEF Ids!etcpal_generate_os_preferred_uuid
  <2> QED
    BY <1>6, <2>3, <2>4, <2>5
<1> QED
  BY <1>4, <1>5, <1>6

LEMMA VersionsHold ==
  ASSUME Ids!UuidAssumption, uuid_question \in Ids!Questions
  PROVE  Ids!VersionsAreAsAsked
<1>1. \A digest \in Digests : digest \in Seq(0 .. 255) /\ Len(digest) >= 16
  BY DEF Ids!UuidAssumption, Ids!UUID_BYTES
<1>2. Ids!About("name") => uuid_question.digest \in Digests
  BY DEF Ids!About, Ids!Questions
<1>3. ASSUME NEW hash \in Digests, NEW name, name # << >>
      PROVE  /\ Ids!Version(Ids!etcpal_generate_v3_uuid(hash, name)) = 3
             /\ Ids!IsRfc4122(Ids!etcpal_generate_v3_uuid(hash, name))
             /\ Ids!Version(Ids!etcpal_generate_v5_uuid(hash, name)) = 5
             /\ Ids!IsRfc4122(Ids!etcpal_generate_v5_uuid(hash, name))
  <2>1. /\ Ids!etcpal_generate_v3_uuid(hash, name) = Ids!WithFlags(hash, 3)
        /\ Ids!etcpal_generate_v5_uuid(hash, name) = Ids!WithFlags(hash, 5)
    BY <1>3 DEF Ids!etcpal_generate_v3_uuid, Ids!etcpal_generate_v5_uuid
  <2>2. hash \in Seq(0 .. 255) /\ Len(hash) >= 16
    BY <1>1
  <2> QED
    BY <2>1, <2>2, FlagsTell
<1>4. ASSUME Ids!About("name"), NEW v \in {3, 5},
             NEW uuid, uuid = IF v = 3
                              THEN Ids!etcpal_generate_v3_uuid(uuid_question.digest, uuid_question.name)
                              ELSE Ids!etcpal_generate_v5_uuid(uuid_question.digest, uuid_question.name)
      PROVE  IF uuid_question.name = << >> THEN Ids!Version(Ids!OrNull(uuid)) = "unknown"
             ELSE Ids!Version(uuid) = v /\ Ids!IsRfc4122(uuid)
  <2>1. CASE uuid_question.name = << >>
    <3>1. uuid = None
      BY <1>4, <2>1 DEF Ids!etcpal_generate_v3_uuid, Ids!etcpal_generate_v5_uuid
    <3> QED
      BY <2>1, <3>1, NullHasNoVersion
  <2>2. CASE uuid_question.name # << >>
    BY <1>2, <1>3, <1>4, <2>2
  <2> QED
    BY <2>1, <2>2
<1>6. Ids!IsNull(Ids!OrNull(None))
  BY NullHasNoVersion
<1>7. \A dev, digest : digest \in Digests =>
        Ids!Version(Ids!etcpal_generate_device_uuid(digest, dev[1], dev[2], dev[3])) = 5
  <2> SUFFICES ASSUME NEW dev, NEW digest \in Digests
               PROVE  Ids!Version(Ids!etcpal_generate_device_uuid(digest, dev[1], dev[2], dev[3])) = 5
    OBVIOUS
  <2> DEFINE name == Ids!DeviceName(dev[1], dev[2], dev[3])
  <2>1. name # << >>
    <3>1. DOMAIN name = 1 .. 42
      BY DEF Ids!DeviceName, Ids!DEV_STR_MAX_LEN
    <3>2. DOMAIN << >> = {} /\ 1 \in 1 .. 42
      OBVIOUS
    <3> HIDE DEF name
    <3> QED
      BY <3>1, <3>2
  <2> HIDE DEF name
  <2>2. Ids!Version(Ids!etcpal_generate_v5_uuid(digest, name)) = 5
    BY <1>3, <2>1
  <2> QED
    BY <2>2 DEF Ids!etcpal_generate_device_uuid, name
<1> DEFINE q == uuid_question
           v1 == Ids!etcpal_generate_v1_uuid(q.port, q.status, q.given)
           v4 == Ids!etcpal_generate_v4_uuid(q.port, q.status, q.given)
           preferred == Ids!etcpal_generate_os_preferred_uuid(q.port, q.status, q.given)
<1>8. Ids!About("system") =>
        IF Ids!HasGenerators(q.port) /\ (q.port = "windows" => q.status = "RPC_S_OK")
        THEN /\ {v1, v4, preferred} \subseteq {q.given[generator] : generator \in Ids!Generators}
             /\ Ids!Version(v1) = 1 /\ Ids!Version(v4) = 4
        ELSE \A uuid \in {v1, v4, preferred} : uuid = None /\ Ids!IsNull(Ids!OrNull(uuid))
  <2>1. Ids!About("system") => q.given \in Generated
    BY DEF Ids!About, Ids!Questions
  <2> HIDE DEF v1, v4, preferred
  <2>2. Ids!About("system") =>
          IF Ids!HasGenerators(q.port) /\ (q.port = "windows" => q.status = "RPC_S_OK")
          THEN /\ {v1, v4, preferred} \subseteq {q.given[generator] : generator \in Ids!Generators}
               /\ Ids!Version(v1) = 1 /\ Ids!Version(v4) = 4
          ELSE v1 = None /\ v4 = None /\ preferred = None
    BY <2>1, SystemsGenerate DEF v1, v4, preferred
  <2> QED
    BY <1>6, <2>2
<1> QED
  BY <1>4, <1>7, <1>8, Zenon DEF Ids!VersionsAreAsAsked

----
(* Devices.                                                                *)
Padded(str, i) == IF i <= Len(str) THEN str[i] ELSE 0

Most(str) == IF Len(str) < 32 THEN Len(str) ELSE 32

Counted(str) == SubSeq(str, 1, Most(str))

\* What counts of a string is what its padding shows, and no character is a zero.
EndsInZeros(str) ==
  /\ Most(str) \in 0 .. 32
  /\ Counted(str) = [i \in 1 .. Most(str) |-> str[i]]
  /\ \A i \in 1 .. Most(str) : str[i] # 0
  /\ \A i \in 1 .. 32 : Padded(str, i) = IF i <= Most(str) THEN str[i] ELSE 0

LEMMA Capped ==
  ASSUME NEW n \in Nat, NEW m, m = IF n < 32 THEN n ELSE 32
  PROVE  m \in 0 .. 32 /\ m \in 0 .. n /\ (m < 32 => m = n)
OBVIOUS

LEMMA LengthsTell ==
  ASSUME NEW m \in Nat, NEW n \in Nat, 1 .. m = 1 .. n
  PROVE  m = n
<1>1. CASE m < n
  <2>1. n \in 1 .. n /\ n \notin 1 .. m
    BY <1>1
  <2> QED
    BY <2>1
<1>2. CASE n < m
  <2>1. m \in 1 .. m /\ m \notin 1 .. n
    BY <1>2
  <2> QED
    BY <2>1
<1> QED
  BY <1>1, <1>2

LEMMA StringsEndInZeros ==
  ASSUME NEW str \in Seq(1 .. 255)
  PROVE  EndsInZeros(str)
<1>1. PICK n \in Nat : n = Len(str)
  OBVIOUS
<1>2. PICK m : m = Most(str)
  OBVIOUS
<1>3. m \in 0 .. 32 /\ m \in 0 .. n /\ (m < 32 => m = n)
  <2>1. m = IF n < 32 THEN n ELSE 32
    BY <1>1, <1>2 DEF Most
  <2> QED
    BY <1>1, <2>1, Capped
<1>4. Counted(str) = [i \in 1 .. m |-> str[i]]
  <2>1. /\ DOMAIN SubSeq(str, 1, m) = 1 .. m
        /\ \A i \in 1 .. m : SubSeq(str, 1, m)[i] = str[i]
    BY <1>1, <1>3, FirstPart
  <2>2. SubSeq(str, 1, m) = [i \in 1 .. m |-> SubSeq(str, 1, m)[i]]
    BY <1>3
  <2> QED
    BY <1>2, <2>1, <2>2 DEF Counted
<1>5. ASSUME NEW i \in 1 .. m PROVE str[i] # 0
  <2>1. i \in 1 .. Len(str)
    BY <1>1, <1>3
  <2>2. str[i] \in 1 .. 255
    BY <2>1, MemberOfSeq
  <2>3. 0 \notin 1 .. 255
    OBVIOUS
  <2> QED
    BY <2>2, <2>3, Zenon
<1>6. \A i \in 1 .. 32 : Padded(str, i) = IF i <= m THEN str[i] ELSE 0
  BY <1>1, <1>3 DEF Padded
<1> QED
  BY <1>2, <1>3, <1>4, <1>5, <1>6 DEF EndsInZeros

LEMMA PaddingTells ==
  ASSUME NEW s, NEW t, EndsInZeros(s), EndsInZeros(t)
  PROVE  (\A i \in 1 .. 32 : Padded(s, i) = Padded(t, i)) <=> Counted(s) = Counted(t)
<1>1. ASSUME NEW x, NEW y, EndsInZeros(x), EndsInZeros(y), Most(x) < Most(y),
             \A i \in 1 .. 32 : Padded(x, i) = Padded(y, i)
      PROVE  FALSE
  <2>1. PICK i : i = Most(x) + 1
    OBVIOUS
  <2>2. i \in 1 .. 32 /\ i \in 1 .. Most(y) /\ ~(i <= Most(x)) /\ i <= Most(y)
    <3>1. Most(x) \in 0 .. 32 /\ Most(y) \in 0 .. 32
      BY <1>1 DEF EndsInZeros
    <3> QED
      BY <1>1, <2>1, <3>1
  <2>3. Padded(x, i) = 0 /\ Padded(y, i) = y[i] /\ y[i] # 0
    BY <1>1, <2>2 DEF EndsInZeros
  <2> QED
    BY <1>1, <2>2, <2>3
<1>0. Most(s) \in 0 .. 32 /\ Most(t) \in 0 .. 32
  BY DEF EndsInZeros
<1>2. ASSUME \A i \in 1 .. 32 : Padded(s, i) = Padded(t, i)
      PROVE  Counted(s) = Counted(t)
  <2>1. Most(s) = Most(t)
    <3>1. ~(Most(s) < Most(t)) /\ ~(Most(t) < Most(s))
      BY <1>1, <1>2
    <3> QED
      BY <1>0, <3>1
  <2>2. ASSUME NEW i \in 1 .. Most(s) PROVE s[i] = t[i]
    <3>1. i \in 1 .. 32 /\ i <= Most(s) /\ i <= Most(t)
      BY <1>0, <2>1
    <3> QED
      BY <1>2, <3>1 DEF EndsInZeros
  <2> QED
    BY <2>1, <2>2 DEF EndsInZeros
<1>3. ASSUME Counted(s) = Counted(t), NEW i \in 1 .. 32
      PROVE  Padded(s, i) = Padded(t, i)
  <2>1. Most(s) = Most(t)
    <3>1. 1 .. Most(s) = 1 .. Most(t)
      BY <1>3 DEF EndsInZeros
    <3>2. Most(s) \in Nat /\ Most(t) \in Nat
      BY <1>0
    <3> QED
      BY <3>1, <3>2, LengthsTell
  <2>2. i <= Most(s) => s[i] = t[i]
    <3>1. [k \in 1 .. Most(s) |-> s[k]] = [k \in 1 .. Most(t) |-> t[k]]
      BY <1>3 DEF EndsInZeros
    <3> QED
      BY <1>0, <2>1, <3>1
  <2> QED
    BY <2>1, <2>2 DEF EndsInZeros
<1> QED
  BY <1>2, <1>3

LEMMA NameIs ==
  ASSUME NEW str, NEW mac, NEW number, NEW name, name = Ids!DeviceName(str, mac, number)
  PROVE  /\ name = [i \in 1 .. 42 |-> name[i]]
         /\ \A i \in 1 .. 32 : name[i] = Padded(str, i)
         /\ \A i \in 1 .. 6 : name[32 + i] = mac[i]
         /\ \A i \in 1 .. 4 : name[38 + i] = number[5 - i]
<1>1. name = [i \in 1 .. 42 |->
                CASE i <= 32 -> Padded(str, i)
                  [] i \in 33 .. 38 -> mac[i - 32]
                  [] i > 38 -> Ids!etcpal_pack_u32l(number)[i - 38]]
  BY DEF Ids!DeviceName, Ids!DEV_STR_MAX_LEN, Padded
<1>2. \A i \in 1 .. 4 : Ids!etcpal_pack_u32l(number)[i] = number[5 - i]
  BY DEF Ids!etcpal_pack_u32l
<1>3. \A i \in 1 .. 32 : name[i] = Padded(str, i)
  BY <1>1
<1>4. \A i \in 1 .. 6 : name[32 + i] = mac[i]
  BY <1>1
<1>5. \A i \in 1 .. 4 : name[38 + i] = number[5 - i]
  BY <1>1, <1>2
<1> QED
  BY <1>1, <1>3, <1>4, <1>5

\* The parts of the name stand where they do, whatever they are.
LEMMA NamesDiffer ==
  ASSUME NEW s \in Seq(1 .. 255), NEW t \in Seq(1 .. 255),
         NEW macs \in Ids!Bytes(6), NEW mact \in Ids!Bytes(6),
         NEW nums \in Ids!Bytes(4), NEW numt \in Ids!Bytes(4)
  PROVE  Ids!DeviceName(s, macs, nums) = Ids!DeviceName(t, mact, numt)
           <=> Counted(s) = Counted(t) /\ macs = mact /\ nums = numt
<1> DEFINE one == Ids!DeviceName(s, macs, nums)
           other == Ids!DeviceName(t, mact, numt)
<1>1. /\ one = [i \in 1 .. 42 |-> one[i]]
      /\ \A i \in 1 .. 32 : one[i] = Padded(s, i)
      /\ \A i \in 1 .. 6 : one[32 + i] = macs[i]
      /\ \A i \in 1 .. 4 : one[38 + i] = nums[5 - i]
  BY NameIs
<1>2. /\ other = [i \in 1 .. 42 |-> other[i]]
      /\ \A i \in 1 .. 32 : other[i] = Padded(t, i)
      /\ \A i \in 1 .. 6 : other[32 + i] = mact[i]
      /\ \A i \in 1 .. 4 : other[38 + i] = numt[5 - i]
  BY NameIs
<1> HIDE DEF one, other
<1>3. (macs = mact) <=> \A i \in 1 .. 6 : macs[i] = mact[i]
  <2>1. macs = [i \in 1 .. 6 |-> macs[i]] /\ mact = [i \in 1 .. 6 |-> mact[i]]
    BY DEF Ids!Bytes
  <2> QED
    BY <2>1
<1>4. (nums = numt) <=> \A i \in 1 .. 4 : nums[i] = numt[i]
  <2>1. nums = [i \in 1 .. 4 |-> nums[i]] /\ numt = [i \in 1 .. 4 |-> numt[i]]
    BY DEF Ids!Bytes
  <2> QED
    BY <2>1
<1>5. ASSUME one = other
      PROVE  Counted(s) = Counted(t) /\ macs = mact /\ nums = numt
  <2>1. \A i \in 1 .. 32 : Padded(s, i) = Padded(t, i)
    BY <1>1, <1>2, <1>5
  <2>2. \A i \in 1 .. 6 : macs[i] = mact[i]
    BY <1>1, <1>2, <1>5
  <2>3. ASSUME NEW i \in 1 .. 4 PROVE nums[i] = numt[i]
    <3>1. 5 - i \in 1 .. 4 /\ 5 - (5 - i) = i
      OBVIOUS
    <3>2. /\ one[38 + (5 - i)] = nums[5 - (5 - i)]
          /\ other[38 + (5 - i)] = numt[5 - (5 - i)]
      BY <1>1, <1>2, <3>1, Zenon
    <3> QED
      BY <1>5, <3>1, <3>2
  <2> QED
    BY <1>3, <1>4, <2>1, <2>2, <2>3, PaddingTells, StringsEndInZeros
<1>6. ASSUME Counted(s) = Counted(t), macs = mact, nums = numt
      PROVE  one = other
  <2>1. \A i \in 1 .. 32 : Padded(s, i) = Padded(t, i)
    BY <1>6, PaddingTells, StringsEndInZeros
  <2>2. ASSUME NEW i \in 1 .. 42 PROVE one[i] = other[i]
    <3>1. CASE i \in 1 .. 32
      BY <1>1, <1>2, <2>1, <3>1, ZenonT(60)
    <3>2. CASE i \in 33 .. 38
      <4>1. i - 32 \in 1 .. 6 /\ 32 + (i - 32) = i
        BY <3>2
      <4> QED
        BY <1>1, <1>2, <1>6, <4>1, ZenonT(60)
    <3>3. CASE i \in 39 .. 42
      <4>1. i - 38 \in 1 .. 4 /\ 38 + (i - 38) = i
        BY <3>3
      <4>2. /\ one[38 + (i - 38)] = nums[5 - (i - 38)]
            /\ other[38 + (i - 38)] = numt[5 - (i - 38)]
        BY <1>1, <1>2, <4>1, Zenon
      <4> QED
        BY <1>6, <4>1, <4>2
    <3> QED
      BY <3>1, <3>2, <3>3
  <2> QED
    BY <1>1, <1>2, <2>2
<1> QED
  BY <1>5, <1>6 DEF one, other

LEMMA DevicesDifferHold ==
  ASSUME Ids!UuidAssumption, uuid_question \in Ids!Questions
  PROVE  Ids!DevicesDiffer
<1> SUFFICES ASSUME Ids!About("device") PROVE Ids!DevicesDiffer
  BY DEF Ids!DevicesDiffer
<1> DEFINE a == uuid_question.a
           b == uuid_question.b
<1>1. a \in Strings \X Macs \X Numbers /\ b \in Strings \X Macs \X Numbers
  BY DEF Ids!About, Ids!Questions
<1>2. /\ Strings \subseteq Seq(1 .. 255) /\ Macs \subseteq Ids!Bytes(6)
      /\ Numbers \subseteq Ids!Bytes(4)
  BY DEF Ids!UuidAssumption
<1> HIDE DEF a, b
<1>3. /\ a[1] \in Seq(1 .. 255) /\ a[2] \in Ids!Bytes(6) /\ a[3] \in Ids!Bytes(4)
      /\ b[1] \in Seq(1 .. 255) /\ b[2] \in Ids!Bytes(6) /\ b[3] \in Ids!Bytes(4)
  BY <1>1, <1>2
<1>4. Ids!DeviceName(a[1], a[2], a[3]) = Ids!DeviceName(b[1], b[2], b[3])
        <=> Counted(a[1]) = Counted(b[1]) /\ a[2] = b[2] /\ a[3] = b[3]
  BY <1>3, NamesDiffer
<1> QED
  BY <1>4, Zenon DEF Ids!DevicesDiffer, Ids!DEV_STR_MAX_LEN, Counted, Most, a, b

----
(* Order.                                                                  *)
LEMMA CmpIsFirstDifference ==
  ASSUME NEW a \in Uuid, NEW b \in Uuid
  PROVE  Ids!ETCPAL_UUID_CMP(a, b) = Laws!FirstDifference([i \in 1 .. 16 |-> a[i] - b[i]])
<1> DEFINE differ == {i \in 1 .. Ids!UUID_BYTES : a[i] # b[i]}
           first == CHOOSE i \in differ : \A j \in differ : i <= j
           r == [i \in 1 .. 16 |-> a[i] - b[i]]
<1>1. \A i \in 1 .. 16 : a[i] \in Int /\ b[i] \in Int
  BY SMTT(30) DEF Uuid, Ids!Bytes
<1>2. r \in [1 .. 16 -> Int] /\ \A i \in 1 .. 16 : r[i] = a[i] - b[i]
  BY <1>1
<1>3. ASSUME NEW i \in 1 .. 16 PROVE (r[i] = 0) <=> (a[i] = b[i])
  <2>1. a[i] \in Int /\ b[i] \in Int /\ r[i] = a[i] - b[i]
    BY <1>1, <1>2
  <2> HIDE DEF r
  <2> QED
    BY <2>1
<1>4. Ids!ETCPAL_UUID_CMP(a, b) = IF differ = {} THEN 0 ELSE a[first] - b[first]
  BY Zenon DEF Ids!ETCPAL_UUID_CMP
<1>5. differ = {i \in 1 .. 16 : a[i] # b[i]}
  BY DEF Ids!UUID_BYTES
<1> HIDE DEF r
<1>6. \/ Laws!FirstDifference(r) = 0 /\ \A j \in 1 .. 16 : r[j] = 0
      \/ \E i \in 1 .. 16 : /\ r[i] # 0 /\ \A j \in 1 .. i - 1 : r[j] = 0
                            /\ Laws!FirstDifference(r) = r[i]
  BY <1>2, FirstDifferenceOf
<1>7. ASSUME Laws!FirstDifference(r) = 0, \A j \in 1 .. 16 : r[j] = 0
      PROVE  Ids!ETCPAL_UUID_CMP(a, b) = Laws!FirstDifference(r)
  <2>1. differ = {}
    BY <1>3, <1>5, <1>7
  <2> QED
    BY <1>4, <1>7, <2>1
<1>8. ASSUME NEW i \in 1 .. 16, r[i] # 0, \A j \in 1 .. i - 1 : r[j] = 0,
             Laws!FirstDifference(r) = r[i]
      PROVE  Ids!ETCPAL_UUID_CMP(a, b) = Laws!FirstDifference(r)
  <2>1. i \in differ
    BY <1>3, <1>5, <1>8
  <2>2. \A j \in differ : j \in 1 .. 16 /\ i <= j
    <3> SUFFICES ASSUME NEW j \in 1 .. 16, a[j] # b[j] PROVE i <= j
      BY <1>5
    <3>1. r[j] # 0
      BY <1>3
    <3> QED
      BY <1>8, <3>1
  <2> HIDE DEF differ
  <2>3. first = i
    <3>1. \A j \in differ : (\A k \in differ : j <= k) => j = i
      BY <2>1, <2>2
    <3> QED
      BY <2>1, <2>2, <3>1
  <2> HIDE DEF first
  <2>4. Ids!ETCPAL_UUID_CMP(a, b) = a[first] - b[first]
    BY <1>4, <2>1
  <2> QED
    BY <1>2, <1>8, <2>3, <2>4
<1>9. Ids!ETCPAL_UUID_CMP(a, b) = Laws!FirstDifference(r)
  BY <1>6, <1>7, <1>8
<1> QED
  BY <1>9 DEF r

LEMMA UuidsCompare ==
  ASSUME NEW a \in Uuid, NEW b \in Uuid, NEW c \in Uuid
  PROVE  /\ Ids!ETCPAL_UUID_CMP(a, b) \in Int
         /\ Ids!ETCPAL_UUID_CMP(a, b) = 0 <=> a = b
         /\ Opposite(Ids!ETCPAL_UUID_CMP(a, b), Ids!ETCPAL_UUID_CMP(b, a))
         /\ Chained(Ids!ETCPAL_UUID_CMP(a, b), Ids!ETCPAL_UUID_CMP(b, c),
                    Ids!ETCPAL_UUID_CMP(a, c))
<1> DEFINE Less(x, y) == [i \in 1 .. 16 |-> x[i] - y[i]]
<1>1. \A x \in Uuid : \A i \in 1 .. 16 : x[i] \in Int
  BY DEF Uuid, Ids!Bytes
<1>2. /\ Less(a, b) \in [1 .. 16 -> Int] /\ Less(b, a) \in [1 .. 16 -> Int]
      /\ Less(b, c) \in [1 .. 16 -> Int] /\ Less(a, c) \in [1 .. 16 -> Int]
  BY <1>1
<1>3. ASSUME NEW i \in 1 .. 16
      PROVE  /\ Less(a, b)[i] = 0 <=> a[i] = b[i]
             /\ Opposite(Less(a, b)[i], Less(b, a)[i])
             /\ Chained(Less(a, b)[i], Less(b, c)[i], Less(a, c)[i])
  <2>1. a[i] \in Int /\ b[i] \in Int /\ c[i] \in Int
    BY <1>1
  <2>2. /\ Less(a, b)[i] = a[i] - b[i] /\ Less(b, a)[i] = b[i] - a[i]
        /\ Less(b, c)[i] = b[i] - c[i] /\ Less(a, c)[i] = a[i] - c[i]
    OBVIOUS
  <2> HIDE DEF Less
  <2> QED
    BY <2>1, <2>2 DEF Opposite, Chained
<1>4. /\ Ids!ETCPAL_UUID_CMP(a, b) = Laws!FirstDifference(Less(a, b))
      /\ Ids!ETCPAL_UUID_CMP(b, a) = Laws!FirstDifference(Less(b, a))
      /\ Ids!ETCPAL_UUID_CMP(b, c) = Laws!FirstDifference(Less(b, c))
      /\ Ids!ETCPAL_UUID_CMP(a, c) = Laws!FirstDifference(Less(a, c))
  BY CmpIsFirstDifference
<1> HIDE DEF Less
<1>5. Laws!FirstDifference(Less(a, b)) = 0 <=> a = b
  <2>1. a = b <=> \A i \in 1 .. 16 : a[i] = b[i]
    BY SMTT(30) DEF Uuid, Ids!Bytes
  <2>2. Laws!FirstDifference(Less(a, b)) = 0 <=> \A i \in 1 .. 16 : Less(a, b)[i] = 0
    BY <1>2, FirstDifferenceOf
  <2> QED
    BY <1>3, <2>1, <2>2
<1>6. /\ Laws!FirstDifference(Less(a, b)) \in Int
      /\ Opposite(Laws!FirstDifference(Less(a, b)), Laws!FirstDifference(Less(b, a)))
  BY <1>2, <1>3, FirstDifferenceIsInt, FirstDifferenceOpposes
<1>7. Chained(Laws!FirstDifference(Less(a, b)), Laws!FirstDifference(Less(b, c)),
              Laws!FirstDifference(Less(a, c)))
  BY <1>2, <1>3, FirstDifferenceChains
<1> QED
  BY <1>4, <1>5, <1>6, <1>7

LEMMA OrderOfUuidsHolds ==
  ASSUME Ids!UuidAssumption, uuid_question \in Ids!Questions
  PROVE  Ids!UuidsAreOrdered
<1> SUFFICES ASSUME Ids!About("order") PROVE Ids!UuidsAreOrdered
  BY DEF Ids!UuidsAreOrdered
<1> DEFINE a == uuid_question.a
           b == uuid_question.b
           c == uuid_question.c
           Cmp(x, y) == Ids!ETCPAL_UUID_CMP(x, y)
<1>1. a \in Uuid /\ b \in Uuid /\ c \in Uuid
  BY DEF Ids!About, Ids!Questions, Ids!UuidAssumption, Uuid
<1> HIDE DEF a, b, c
<1>2. /\ Cmp(a, b) \in Int /\ Cmp(b, a) \in Int /\ Cmp(b, c) \in Int /\ Cmp(c, b) \in Int
      /\ Cmp(a, c) \in Int /\ Cmp(c, a) \in Int
      /\ Cmp(a, b) = 0 <=> a = b
      /\ Opposite(Cmp(a, b), Cmp(b, a)) /\ Opposite(Cmp(b, c), Cmp(c, b))
      /\ Opposite(Cmp(a, c), Cmp(c, a))
      /\ Chained(Cmp(a, b), Cmp(b, c), Cmp(a, c))
  BY <1>1, UuidsCompare
<1> HIDE DEF Cmp
<1>3. \A x, y : Ids!Relations(x, y)
        = [eq |-> Cmp(x, y) = 0, ne |-> ~(Cmp(x, y) = 0), lt |-> Cmp(x, y) < 0,
           gt |-> Cmp(y, x) < 0, le |-> ~(Cmp(y, x) < 0), ge |-> ~(Cmp(x, y) < 0)]
  BY Zenon DEF Ids!Relations, Cmp
<1>4. /\ (Cmp(a, b) = 0) <=> a = b
      /\ ~(Cmp(a, b) = 0) <=> (Cmp(a, b) < 0) # (Cmp(b, a) < 0)
      /\ ~(Cmp(b, a) < 0) <=> (Cmp(a, b) < 0) \/ (Cmp(a, b) = 0)
      /\ ~(Cmp(a, b) < 0) <=> (Cmp(b, a) < 0) \/ (Cmp(a, b) = 0)
      /\ ~(Cmp(b, a) < 0) /\ ~(Cmp(c, b) < 0) => ~(Cmp(c, a) < 0)
  BY <1>2 DEF Opposite, Chained
<1> QED
  BY <1>3, <1>4 DEF Ids!UuidsAreOrdered, a, b, c

LEMMA UuidQuestionStays == Ids!Spec => [](uuid_question \in Ids!Questions)
<1>1. Ids!Init => uuid_question \in Ids!Questions
  BY DEF Ids!Init
<1>2. uuid_question \in Ids!Questions /\ [UNCHANGED uuid_question]_uuid_question
        => (uuid_question \in Ids!Questions)'
  OBVIOUS
<1> QED
  BY <1>1, <1>2, PTL DEF Ids!Spec

\* A UUID comes back from text, whatever its case and hyphens, and from the fields of Windows;
\* one that is made from a name has the version and the variant asked for, one that a system
\* makes is the one it gave, of the version asked for if version 1 or 4 was, and where there is
\* no generator, or Windows refuses, the error leaves a null one; two devices share a name to
\* hash only if what counts of them is the same; and the operators order UUIDs totally.
THEOREM UuidsAlwaysKeepIdentity ==
  ASSUME Ids!UuidAssumption PROVE Ids!Spec => []UuidsKeepIdentity
<1>1. uuid_question \in Ids!Questions => UuidsKeepIdentity
  BY TextsReadHold, VersionsHold, DevicesDifferHold, OrderOfUuidsHolds, Zenon
  DEF UuidsKeepIdentity, Ids!UuidsKeepIdentity
<1> QED
  BY <1>1, UuidQuestionStays, PTL
====
