---------------------------- MODULE AddressProofs ----------------------------
(***************************************************************************)
(* Proofs about Values: every IPv4 and every IPv6 address is classified as *)
(* the documentation says, the text of every IPv6 address in Java denotes  *)
(* it, and every netmask has its prefix length.                            *)
(***************************************************************************)
EXTENDS Values, StackLemmas

-----------------------------------------------------------------------------
(* Prefixes. *)

\* All bits of an item are the same: the items are.
LEMMA AllBits ==
    ASSUME NEW n \in {8, 16}, NEW x \in Int, NEW y \in Int
    PROVE  SameBits(x, y, n, n) <=> x = y
  <1>1. 2^(8 - 8) = 1 /\ 2^(16 - 16) = 1
    OBVIOUS
  <1>2. x \div 1 = x /\ y \div 1 = y
    OBVIOUS
  <1>3. QED
    BY <1>1, <1>2 DEF SameBits

\* A network of whole items.
LEMMA WholeItems ==
    ASSUME NEW n \in {8, 16}, NEW len \in Int, NEW a, NEW network,
           \A i \in DOMAIN network :
               i \in Nat /\ len >= n * (i - 1) + n /\ a[i] \in Int /\ network[i] \in Int
    PROVE  Within(a, network, len, n) <=> \A i \in DOMAIN network : a[i] = network[i]
  <1>1. ASSUME NEW i \in DOMAIN network
        PROVE  len > n * (i - 1) /\ len >= n * (i - 1) + n
    <2>1. CASE n = 8
      BY <2>1
    <2>2. CASE n = 16
      BY <2>2
    <2>3. QED
      BY <2>1, <2>2
  <1>2. ASSUME NEW i \in DOMAIN network
        PROVE  SameBits(a[i], network[i], n, n) <=> a[i] = network[i]
    BY <1>2, AllBits
  <1>3. QED
    BY <1>1, <1>2 DEF Within

\* A network of k bits in its last item, the first or the second.
LEMMA PartOfFirst ==
    ASSUME NEW n \in {8, 16}, NEW len \in 1..(n - 1), NEW a, NEW y
    PROVE  Within(a, <<y>>, len, n) <=> SameBits(a[1], y, len, n)
  <1>1. DOMAIN <<y>> = {1} /\ <<y>>[1] = y
    OBVIOUS
  <1>2. n * (1 - 1) = 0 /\ len > 0 /\ ~(len >= 0 + n) /\ len - 0 = len
    OBVIOUS
  <1>3. QED
    BY <1>1, <1>2 DEF Within

LEMMA PartOfSecond ==
    ASSUME NEW n \in {8, 16}, NEW len \in (n + 1)..(n + n - 1), NEW a, NEW y \in Int, NEW z,
           a[1] \in Int
    PROVE  Within(a, <<y, z>>, len, n) <=> a[1] = y /\ SameBits(a[2], z, len - n, n)
  <1>1. DOMAIN <<y, z>> = {1, 2} /\ <<y, z>>[1] = y /\ <<y, z>>[2] = z
    OBVIOUS
  <1>2. n * (1 - 1) = 0 /\ len > 0 /\ len >= 0 + n
    OBVIOUS
  <1>3. n * (2 - 1) = n /\ len > n /\ ~(len >= n + n)
    OBVIOUS
  <1>4. SameBits(a[1], y, n, n) <=> a[1] = y
    BY AllBits
  <1>5. QED
    BY <1>1, <1>2, <1>3, <1>4 DEF Within

\* A network of one to four whole items.
LEMMA OneItem ==
    ASSUME NEW n \in {8, 16}, NEW len, len = n * 1, NEW a, a[1] \in Int,
           NEW p \in Int
    PROVE  Within(a, <<p>>, len, n) <=> a[1] = p
  <1> DEFINE net == <<p>>
  <1>1. DOMAIN net = 1..1 /\ net[1] = p
    OBVIOUS
  <1>2. \A i \in DOMAIN net :
           i \in Nat /\ len >= n * (i - 1) + n /\ a[i] \in Int /\ net[i] \in Int
    BY <1>1
  <1> HIDE DEF net
  <1>3. Within(a, net, len, n) <=> \A i \in DOMAIN net : a[i] = net[i]
    BY <1>2, WholeItems
  <1>4. (\A i \in DOMAIN net : a[i] = net[i]) <=> a[1] = p
    BY <1>1
  <1>5. QED
    BY <1>3, <1>4 DEF net

LEMMA TwoItems ==
    ASSUME NEW n \in {8, 16}, NEW len, len = n * 2, NEW a, a[1] \in Int, a[2] \in Int,
           NEW p \in Int, NEW q \in Int
    PROVE  Within(a, <<p, q>>, len, n) <=> a[1] = p /\ a[2] = q
  <1> DEFINE net == <<p, q>>
  <1>1. DOMAIN net = 1..2 /\ net[1] = p /\ net[2] = q
    OBVIOUS
  <1>2. \A i \in DOMAIN net :
           i \in Nat /\ len >= n * (i - 1) + n /\ a[i] \in Int /\ net[i] \in Int
    BY <1>1
  <1> HIDE DEF net
  <1>3. Within(a, net, len, n) <=> \A i \in DOMAIN net : a[i] = net[i]
    BY <1>2, WholeItems
  <1>4. (\A i \in DOMAIN net : a[i] = net[i]) <=> a[1] = p /\ a[2] = q
    BY <1>1
  <1>5. QED
    BY <1>3, <1>4 DEF net

LEMMA ThreeItems ==
    ASSUME NEW n \in {8, 16}, NEW len, len = n * 3, NEW a, a[1] \in Int, a[2] \in Int, a[3] \in Int,
           NEW p \in Int, NEW q \in Int, NEW r \in Int
    PROVE  Within(a, <<p, q, r>>, len, n) <=> a[1] = p /\ a[2] = q /\ a[3] = r
  <1> DEFINE net == <<p, q, r>>
  <1>1. DOMAIN net = 1..3 /\ net[1] = p /\ net[2] = q /\ net[3] = r
    OBVIOUS
  <1>2. \A i \in DOMAIN net :
           i \in Nat /\ len >= n * (i - 1) + n /\ a[i] \in Int /\ net[i] \in Int
    BY <1>1
  <1> HIDE DEF net
  <1>3. Within(a, net, len, n) <=> \A i \in DOMAIN net : a[i] = net[i]
    BY <1>2, WholeItems
  <1>4. (\A i \in DOMAIN net : a[i] = net[i]) <=> a[1] = p /\ a[2] = q /\ a[3] = r
    BY <1>1
  <1>5. QED
    BY <1>3, <1>4 DEF net

LEMMA FourItems ==
    ASSUME NEW n \in {8, 16}, NEW len, len = n * 4,
           NEW a, a[1] \in Int, a[2] \in Int, a[3] \in Int, a[4] \in Int,
           NEW p \in Int, NEW q \in Int, NEW r \in Int, NEW s \in Int
    PROVE  Within(a, <<p, q, r, s>>, len, n) <=> a[1] = p /\ a[2] = q /\ a[3] = r /\ a[4] = s
  <1> DEFINE net == <<p, q, r, s>>
  <1>1. DOMAIN net = 1..4 /\ net[1] = p /\ net[2] = q /\ net[3] = r /\ net[4] = s
    OBVIOUS
  <1>2. \A i \in DOMAIN net :
           i \in Nat /\ len >= n * (i - 1) + n /\ a[i] \in Int /\ net[i] \in Int
    BY <1>1
  <1> HIDE DEF net
  <1>3. Within(a, net, len, n) <=> \A i \in DOMAIN net : a[i] = net[i]
    BY <1>2, WholeItems
  <1>4. (\A i \in DOMAIN net : a[i] = net[i]) <=> a[1] = p /\ a[2] = q /\ a[3] = r /\ a[4] = s
    BY <1>1
  <1>5. QED
    BY <1>3, <1>4 DEF net

-----------------------------------------------------------------------------
(* Chains of tests. *)

\* The first test that holds decides.
LEMMA FirstDecides ==
    ASSUME NEW n \in Nat, NEW tests, DOMAIN tests = 1..n,
           NEW i \in 1..n, tests[i].holds, \A j \in 1..(i - 1) : ~tests[j].holds
    PROVE  FirstOf(tests) = tests[i].kind
  <1> DEFINE hits == {j \in DOMAIN tests : tests[j].holds}
  <1>1. i \in hits /\ \A j \in hits : i <= j
    OBVIOUS
  <1>2. \A k \in hits : (\A j \in hits : k <= j) => k = i
    BY <1>1
  <1>3. (CHOOSE k \in hits : \A j \in hits : k <= j) = i
    BY <1>1, <1>2
  <1>4. QED
    BY <1>1, <1>3 DEF FirstOf

\* If none holds, none does.
LEMMA NoneDecides ==
    ASSUME NEW n \in Nat, NEW tests, DOMAIN tests = 1..n, \A j \in 1..n : ~tests[j].holds
    PROVE  FirstOf(tests) = "none"
  BY DEF FirstOf

-----------------------------------------------------------------------------
(* IPv4 addresses. *)

Octets == [1..4 -> Octet]

\* Parts of an octet.
LEMMA OctetParts ==
    ASSUME NEW x \in 0..255
    PROVE  /\ SameBits(x, 64, 2, 8) <=> x \in 64..127
           /\ SameBits(x, 16, 4, 8) <=> x \in 16..31
           /\ SameBits(x, 18, 7, 8) <=> x \in 18..19
           /\ SameBits(x, 224, 4, 8) <=> x \in 224..239
           /\ SameBits(x, 240, 4, 8) <=> x >= 240
           /\ SameBits(x, 192, 6, 8) <=> x \in 192..195
  <1>1. /\ 2^(8 - 2) = 64 /\ 2^(8 - 4) = 16 /\ 2^(8 - 7) = 2 /\ 2^(8 - 6) = 4
    OBVIOUS
  <1>2. x \in Int /\ 0 <= x /\ x <= 255
    OBVIOUS
  <1>3. QED
    BY <1>1, <1>2 DEF SameBits

LEMMA IPv4Special ==
    ASSUME NEW b \in Octets
    PROVE  /\ In4(b, IPv4Prefixes.unspecified) <=> \A i \in 1..4 : b[i] = 0
           /\ In4(b, IPv4Prefixes.loopback) <=> b[1] = 127
           /\ In4(b, IPv4Prefixes.link_local) <=> b[1] = 169 /\ b[2] = 254
           /\ In4(b, IPv4Prefixes.multicast) <=> b[1] \in 224..239
  <1>1. b[1] \in Int /\ b[2] \in Int /\ b[3] \in Int /\ b[4] \in Int
    BY DEF Octets, Octet
  <1>2. Within(b, <<0, 0, 0, 0>>, 32, 8) <=> \A i \in 1..4 : b[i] = 0
    BY <1>1, FourItems
  <1>3. Within(b, <<127>>, 8, 8) <=> b[1] = 127
    BY <1>1, OneItem
  <1>4. Within(b, <<169, 254>>, 16, 8) <=> b[1] = 169 /\ b[2] = 254
    BY <1>1, TwoItems
  <1>5. Within(b, <<224>>, 4, 8) <=> SameBits(b[1], 224, 4, 8)
    BY PartOfFirst
  <1>6. b[1] \in 0..255
    BY DEF Octets, Octet
  <1>7. SameBits(b[1], 224, 4, 8) <=> b[1] \in 224..239
    BY <1>6, OctetParts
  <1>8. /\ IPv4Prefixes.unspecified = {P(<<0, 0, 0, 0>>, 32)}
        /\ IPv4Prefixes.loopback = {P(<<127>>, 8)}
        /\ IPv4Prefixes.link_local = {P(<<169, 254>>, 16)}
        /\ IPv4Prefixes.multicast = {P(<<224>>, 4)}
    BY DEF IPv4Prefixes
  <1>9. \A network, len : In4(b, {P(network, len)}) <=> Within(b, network, len, 8)
    BY DEF In4, P
  <1>10. QED
    BY <1>2, <1>3, <1>4, <1>5, <1>7, <1>8, <1>9

LEMMA IPv4Private ==
    ASSUME NEW b \in Octets
    PROVE  In4(b, IPv4Prefixes.private) <=> IsPrivate(b)
  <1>1. b[1] \in Int /\ b[2] \in Int /\ b[3] \in Int /\ b[4] \in Int
    BY DEF Octets, Octet
  <1>2. b[2] \in 0..255
    BY DEF Octets, Octet
  <1>3. Within(b, <<10>>, 8, 8) <=> b[1] = 10
    BY <1>1, OneItem
  <1>4. Within(b, <<100, 64>>, 10, 8) <=> b[1] = 100 /\ b[2] \in 64..127
    <2>1. Within(b, <<100, 64>>, 10, 8) <=> b[1] = 100 /\ SameBits(b[2], 64, 2, 8)
      BY <1>1, PartOfSecond
    <2>2. QED
      BY <1>2, <2>1, OctetParts
  <1>5. Within(b, <<172, 16>>, 12, 8) <=> b[1] = 172 /\ b[2] \in 16..31
    <2>1. Within(b, <<172, 16>>, 12, 8) <=> b[1] = 172 /\ SameBits(b[2], 16, 4, 8)
      BY <1>1, PartOfSecond
    <2>2. QED
      BY <1>2, <2>1, OctetParts
  <1>6. Within(b, <<192, 0, 0>>, 24, 8) <=> b[1] = 192 /\ b[2] = 0 /\ b[3] = 0
    BY <1>1, ThreeItems
  <1>7. Within(b, <<192, 168>>, 16, 8) <=> b[1] = 192 /\ b[2] = 168
    BY <1>1, TwoItems
  <1>8. Within(b, <<198, 18>>, 15, 8) <=> b[1] = 198 /\ b[2] \in 18..19
    <2>1. Within(b, <<198, 18>>, 15, 8) <=> b[1] = 198 /\ SameBits(b[2], 18, 7, 8)
      BY <1>1, PartOfSecond
    <2>2. QED
      BY <1>2, <2>1, OctetParts
  <1>9. In4(b, IPv4Prefixes.private) <=>
            \/ Within(b, <<10>>, 8, 8)
            \/ Within(b, <<100, 64>>, 10, 8)
            \/ Within(b, <<172, 16>>, 12, 8)
            \/ Within(b, <<192, 0, 0>>, 24, 8)
            \/ Within(b, <<192, 168>>, 16, 8)
            \/ Within(b, <<198, 18>>, 15, 8)
    <2>1. IPv4Prefixes.private =
              {P(<<10>>, 8), P(<<100, 64>>, 10), P(<<172, 16>>, 12),
               P(<<192, 0, 0>>, 24), P(<<192, 168>>, 16), P(<<198, 18>>, 15)}
      BY DEF IPv4Prefixes
    <2>2. QED
      BY <2>1 DEF In4, P
  <1>10. QED
    BY <1>3, <1>4, <1>5, <1>6, <1>7, <1>8, <1>9 DEF IsPrivate

LEMMA IPv4Other ==
    ASSUME NEW b \in Octets
    PROVE  In4(b, IPv4OtherPrefixes) <=> IsOtherwiseReserved(b)
  <1>1. b[1] \in Int /\ b[2] \in Int /\ b[3] \in Int /\ b[4] \in Int
    BY DEF Octets, Octet
  <1>2. Within(b, <<0>>, 8, 8) <=> b[1] = 0
    BY <1>1, OneItem
  <1>3. Within(b, <<192, 0, 2>>, 24, 8) <=> b[1] = 192 /\ b[2] = 0 /\ b[3] = 2
    BY <1>1, ThreeItems
  <1>4. Within(b, <<192, 88, 99>>, 24, 8) <=> b[1] = 192 /\ b[2] = 88 /\ b[3] = 99
    BY <1>1, ThreeItems
  <1>5. Within(b, <<198, 51, 100>>, 24, 8) <=> b[1] = 198 /\ b[2] = 51 /\ b[3] = 100
    BY <1>1, ThreeItems
  <1>6. Within(b, <<203, 0, 113>>, 24, 8) <=> b[1] = 203 /\ b[2] = 0 /\ b[3] = 113
    BY <1>1, ThreeItems
  <1>7. Within(b, <<233, 252, 0>>, 24, 8) <=> b[1] = 233 /\ b[2] = 252 /\ b[3] = 0
    BY <1>1, ThreeItems
  <1>8. Within(b, <<240>>, 4, 8) <=> b[1] >= 240
    <2>1. Within(b, <<240>>, 4, 8) <=> SameBits(b[1], 240, 4, 8)
      BY PartOfFirst
    <2>2. b[1] \in 0..255
      BY DEF Octets, Octet
    <2>3. QED
      BY <2>1, <2>2, OctetParts
  <1>9. In4(b, IPv4OtherPrefixes) <=>
            \/ Within(b, <<0>>, 8, 8)
            \/ Within(b, <<192, 0, 2>>, 24, 8)
            \/ Within(b, <<192, 88, 99>>, 24, 8)
            \/ Within(b, <<198, 51, 100>>, 24, 8)
            \/ Within(b, <<203, 0, 113>>, 24, 8)
            \/ Within(b, <<233, 252, 0>>, 24, 8)
            \/ Within(b, <<240>>, 4, 8)
    BY DEF In4, IPv4OtherPrefixes, P
  <1>10. QED
    BY <1>2, <1>3, <1>4, <1>5, <1>6, <1>7, <1>8, <1>9 DEF IsOtherwiseReserved

\* The kind is that of the first test that holds.
LEMMA IPv4KindLemma ==
    ASSUME NEW b \in Octets
    PROVE  IPv4Kind(b) =
               IF \A i \in 1..4 : b[i] = 0 THEN "unspecified"
               ELSE IF b[1] = 127 THEN "loopback"
               ELSE IF b[1] = 169 /\ b[2] = 254 THEN "link_local"
               ELSE IF IsPrivate(b) THEN "private"
               ELSE IF b[1] \in 224..239 THEN "multicast"
               ELSE IF IsOtherwiseReserved(b) THEN "reserved" ELSE "none"
  <1> DEFINE t == IPv4Tests(b)
             Decides(i) == t[i].holds /\ \A j \in 1..(i - 1) : ~t[j].holds
  <1>1. DOMAIN t = 1..6
    BY DEF IPv4Tests
  <1>2. /\ t[1].kind = "unspecified"
        /\ t[2].kind = "loopback"
        /\ t[3].kind = "link_local"
        /\ t[4].kind = "private"
        /\ t[5].kind = "multicast"
        /\ t[6].kind = "reserved"
    BY DEF IPv4Tests, Test
  <1>3. /\ t[1].holds <=> \A i \in 1..4 : b[i] = 0
        /\ t[2].holds <=> b[1] = 127
        /\ t[3].holds <=> b[1] = 169 /\ b[2] = 254
        /\ t[4].holds <=> IsPrivate(b)
        /\ t[5].holds <=> b[1] \in 224..239
        /\ t[6].holds <=> IsOtherwiseReserved(b)
    BY DEF IPv4Tests, Test
  <1> HIDE DEF t
  <1>4. \A i \in 1..6 : Decides(i) => FirstOf(t) = t[i].kind
    BY <1>1, FirstDecides
  <1>5. (\A i \in 1..6 : ~t[i].holds) => FirstOf(t) = "none"
    BY <1>1, NoneDecides
  <1>6. QED
    BY <1>2, <1>3, <1>4, <1>5 DEF IPv4Kind, t

LEMMA IPv4ScopeLemma ==
    ASSUME NEW b \in Octets
    PROVE  IPv4MulticastScope(b) =
               IF b[1] = 224 /\ b[2] = 0 /\ b[3] = 0 THEN "LinkLocal"
               ELSE IF b[1] = 239 /\ b[2] = 255 THEN "RealmLocal"
               ELSE IF b[1] = 239 /\ b[2] \in 192..195 THEN "OrganizationLocal"
               ELSE IF b[1] # 239 THEN "Global" ELSE "Unassigned"
  <1> DEFINE t == <<Test("LinkLocal", b[1] = 224 /\ b[2] = 0 /\ b[3] = 0),
                    Test("RealmLocal", b[1] = 239 /\ b[2] = 255),
                    Test("OrganizationLocal", b[1] = 239 /\ b[2] \in 192..195),
                    Test("Global", b[1] # 239)>>
             Decides(i) == t[i].holds /\ \A j \in 1..(i - 1) : ~t[j].holds
  <1>1. DOMAIN t = 1..4
    OBVIOUS
  <1>2. /\ t[1].kind = "LinkLocal"
        /\ t[2].kind = "RealmLocal"
        /\ t[3].kind = "OrganizationLocal"
        /\ t[4].kind = "Global"
    BY DEF Test
  <1>3. /\ t[1].holds <=> b[1] = 224 /\ b[2] = 0 /\ b[3] = 0
        /\ t[2].holds <=> b[1] = 239 /\ b[2] = 255
        /\ t[3].holds <=> b[1] = 239 /\ b[2] \in 192..195
        /\ t[4].holds <=> b[1] # 239
    BY DEF Test
  <1>4. IPv4MulticastScope(b) = IF FirstOf(t) = "none" THEN "Unassigned" ELSE FirstOf(t)
    BY DEF IPv4MulticastScope
  <1> HIDE DEF t
  <1>5. \A i \in 1..4 : Decides(i) => FirstOf(t) = t[i].kind
    BY <1>1, FirstDecides
  <1>6. (\A i \in 1..4 : ~t[i].holds) => FirstOf(t) = "none"
    BY <1>1, NoneDecides
  <1>7. QED
    BY <1>2, <1>3, <1>4, <1>5, <1>6

LEMMA IPv4Scopes ==
    ASSUME NEW b \in Octets
    PROVE  /\ In4(b, IPv4ScopePrefixes.LinkLocal) <=> b[1] = 224 /\ b[2] = 0 /\ b[3] = 0
           /\ In4(b, IPv4ScopePrefixes.RealmLocal) <=> b[1] = 239 /\ b[2] = 255
           /\ In4(b, IPv4ScopePrefixes.OrganizationLocal) <=> b[1] = 239 /\ b[2] \in 192..195
           /\ In4(b, {P(<<239>>, 8)}) <=> b[1] = 239
  <1>1. b[1] \in Int /\ b[2] \in Int /\ b[3] \in Int /\ b[4] \in Int
    BY DEF Octets, Octet
  <1>2. Within(b, <<224, 0, 0>>, 24, 8) <=> b[1] = 224 /\ b[2] = 0 /\ b[3] = 0
    BY <1>1, ThreeItems
  <1>3. Within(b, <<239, 255>>, 16, 8) <=> b[1] = 239 /\ b[2] = 255
    BY <1>1, TwoItems
  <1>4. Within(b, <<239, 192>>, 14, 8) <=> b[1] = 239 /\ b[2] \in 192..195
    <2>1. Within(b, <<239, 192>>, 14, 8) <=> b[1] = 239 /\ SameBits(b[2], 192, 6, 8)
      BY <1>1, PartOfSecond
    <2>2. b[2] \in 0..255
      BY DEF Octets, Octet
    <2>3. QED
      BY <2>1, <2>2, OctetParts
  <1>5. Within(b, <<239>>, 8, 8) <=> b[1] = 239
    BY <1>1, OneItem
  <1>6. /\ IPv4ScopePrefixes.LinkLocal = {P(<<224, 0, 0>>, 24)}
        /\ IPv4ScopePrefixes.RealmLocal = {P(<<239, 255>>, 16)}
        /\ IPv4ScopePrefixes.OrganizationLocal = {P(<<239, 192>>, 14)}
    BY DEF IPv4ScopePrefixes
  <1>7. \A network, len : In4(b, {P(network, len)}) <=> Within(b, network, len, 8)
    BY DEF In4, P
  <1>8. QED
    BY <1>2, <1>3, <1>4, <1>5, <1>6, <1>7

\* What IPv4AsDocumented says, of every address.
LEMMA IPv4Classified ==
    ASSUME NEW b \in Octets
    PROVE  LET kind == IPv4Kind(b)
               scope == IPv4MulticastScope(b)
           IN /\ \A k \in DOMAIN IPv4Prefixes : kind = k <=> In4(b, IPv4Prefixes[k])
              /\ kind # "none" <=>
                     \/ \E k \in DOMAIN IPv4Prefixes : In4(b, IPv4Prefixes[k])
                     \/ In4(b, IPv4OtherPrefixes)
              /\ kind = "multicast" =>
                     /\ \A s \in DOMAIN IPv4ScopePrefixes :
                            scope = s <=> In4(b, IPv4ScopePrefixes[s])
                     /\ scope = "Global" => ~In4(b, {P(<<239>>, 8)})
                     /\ scope = "Unassigned" => In4(b, {P(<<239>>, 8)})
  <1> DEFINE kind == IPv4Kind(b)
             scope == IPv4MulticastScope(b)
             U == \A i \in 1..4 : b[i] = 0
  <1>1. b[1] \in 0..255 /\ (U => b[1] = 0)
    BY DEF Octets, Octet
  <1>2. DOMAIN IPv4Prefixes = {"unspecified", "loopback", "link_local", "private", "multicast"}
    BY DEF IPv4Prefixes
  <1>3. DOMAIN IPv4ScopePrefixes = {"LinkLocal", "RealmLocal", "OrganizationLocal"}
    BY DEF IPv4ScopePrefixes
  <1>4. IsPrivate(b) => b[1] \in {10, 100, 172, 192, 198}
    BY DEF IsPrivate
  <1>5. /\ kind = "unspecified" <=> U
        /\ kind = "loopback" <=> b[1] = 127
        /\ kind = "link_local" <=> b[1] = 169 /\ b[2] = 254
        /\ kind = "private" <=> IsPrivate(b)
        /\ kind = "multicast" <=> b[1] \in 224..239
    BY <1>1, <1>4, IPv4KindLemma
  <1>6. kind # "none" <=>
            \/ U
            \/ b[1] = 127
            \/ b[1] = 169 /\ b[2] = 254
            \/ IsPrivate(b)
            \/ b[1] \in 224..239
            \/ IsOtherwiseReserved(b)
    BY IPv4KindLemma
  <1>7. \A k \in DOMAIN IPv4Prefixes : kind = k <=> In4(b, IPv4Prefixes[k])
    BY <1>2, <1>5, IPv4Special, IPv4Private
  <1>8. kind # "none" <=>
            \/ \E k \in DOMAIN IPv4Prefixes : In4(b, IPv4Prefixes[k])
            \/ In4(b, IPv4OtherPrefixes)
    BY <1>2, <1>6, IPv4Special, IPv4Private, IPv4Other
  <1>9. ASSUME kind = "multicast"
        PROVE  /\ \A s \in DOMAIN IPv4ScopePrefixes : scope = s <=> In4(b, IPv4ScopePrefixes[s])
               /\ scope = "Global" => ~In4(b, {P(<<239>>, 8)})
               /\ scope = "Unassigned" => In4(b, {P(<<239>>, 8)})
    <2>1. /\ scope = "LinkLocal" <=> b[1] = 224 /\ b[2] = 0 /\ b[3] = 0
          /\ scope = "RealmLocal" <=> b[1] = 239 /\ b[2] = 255
          /\ scope = "OrganizationLocal" <=> b[1] = 239 /\ b[2] \in 192..195
          /\ scope = "Global" => b[1] # 239
          /\ scope = "Unassigned" => b[1] = 239
      BY IPv4ScopeLemma
    <2>2. QED
      BY <1>3, <2>1, IPv4Scopes
  <1>10. QED
    BY <1>7, <1>8, <1>9

-----------------------------------------------------------------------------
(* IPv6 addresses. *)

IPv6Words == [1..8 -> Word]

\* The provers need the bounds of a word as inequalities.
LEMMA WordRange ==
    ASSUME NEW x \in Word
    PROVE  x \in Int /\ 0 <= x /\ x <= 65535
  <1>1. 2^16 - 1 = 65535
    BY SMT
  <1>2. QED
    BY <1>1, SMT DEF Word

\* Parts of a word.
LEMMA WordParts ==
    ASSUME NEW x \in Word
    PROVE  /\ SameBits(x, 64512, 7, 16) <=> x \div 256 \in {252, 253}
           /\ SameBits(x, 65216, 10, 16) <=> x \in 65216..65279
           /\ SameBits(x, 65280, 8, 16) <=> x \div 256 = 255
           /\ SameBits(x, 65408, 9, 16) <=> x >= 65408
           /\ SameBits(x, 32, 12, 16) <=> x \in 32..47
           /\ \A f \in 0..15 : SameBits(x, 65280 + 16 * f, 12, 16) <=> x \div 16 = 4080 + f
  <1>1. /\ 2^(16 - 7) = 512 /\ 2^(16 - 10) = 64 /\ 2^(16 - 8) = 256
        /\ 2^(16 - 9) = 128 /\ 2^(16 - 12) = 16
    BY SMT
  <1>2. x \in Int /\ 0 <= x /\ x <= 65535
    BY WordRange
  <1>3. SameBits(x, 64512, 7, 16) <=> x \div 256 \in {252, 253}
    BY <1>1, <1>2, SMT DEF SameBits
  <1>4. SameBits(x, 65216, 10, 16) <=> x \in 65216..65279
    BY <1>1, <1>2, SMT DEF SameBits
  <1>5. SameBits(x, 65280, 8, 16) <=> x \div 256 = 255
    BY <1>1, <1>2, SMT DEF SameBits
  <1>6. SameBits(x, 65408, 9, 16) <=> x >= 65408
    BY <1>1, <1>2, SMT DEF SameBits
  <1>7. SameBits(x, 32, 12, 16) <=> x \in 32..47
    BY <1>1, <1>2, SMT DEF SameBits
  <1>8. \A f \in 0..15 : SameBits(x, 65280 + 16 * f, 12, 16) <=> x \div 16 = 4080 + f
    <2> TAKE f \in 0..15
    <2>1. (65280 + 16 * f) \div 16 = 4080 + f
      BY SMT
    <2>2. QED
      BY <1>1, <2>1, SMT DEF SameBits
  <1>9. QED
    BY <1>3, <1>4, <1>5, <1>6, <1>7, <1>8, SMT

\* Which words are 0 and 1 once their octets are swapped.
LEMMA SwappedWords ==
    ASSUME NEW x \in Word
    PROVE  /\ (x % 256) * 256 + x \div 256 = 0 <=> x = 0
           /\ (x % 256) * 256 + x \div 256 = 1 <=> x = 256
  <1>1. x \in Int /\ 0 <= x /\ x <= 65535
    BY WordRange
  <1>2. x = 256 * (x \div 256) + (x % 256) /\ x % 256 \in 0..255
    BY <1>1
  <1>3. QED
    BY <1>1, <1>2

LEMMA WordTypes ==
    ASSUME NEW w \in IPv6Words
    PROVE  /\ w[1] \in Word /\ w[2] \in Word /\ w[3] \in Word /\ w[4] \in Word
           /\ w[1] \in Int /\ w[2] \in Int /\ w[3] \in Int /\ w[4] \in Int
           /\ w[5] \in Int /\ w[6] \in Int /\ w[7] \in Int /\ w[8] \in Int
  <1>1. \A i \in 1..8 : w[i] \in Word
    BY DEF IPv6Words
  <1>2. QED
    BY <1>1, WordRange

\* What the comparisons of the second doubleword say of the third word.
LEMMA DoublewordLemma ==
    ASSUME NEW w \in IPv6Words
    PROVE  /\ Doubleword(w, 1) = <<0, 0>> <=> w[3] = 0 /\ w[4] = 0
           /\ Doubleword(w, 1) = <<1, 0>> => w[3] \in {0, 256}
  <1>1. Doubleword(w, 1) =
            IF LittleEndian
            THEN <<(w[3] % 256) * 256 + w[3] \div 256, (w[4] % 256) * 256 + w[4] \div 256>>
            ELSE <<w[4], w[3]>>
    BY SMT DEF Doubleword
  <1>2. QED
    BY <1>1, WordTypes, SwappedWords, SMT

\* Networks of six and of eight words.
LEMMA SixWords ==
    ASSUME NEW w \in IPv6Words, NEW net, DOMAIN net = 1..6, \A i \in 1..6 : net[i] \in Int
    PROVE  Within(w, net, 96, 16) <=> \A i \in 1..6 : w[i] = net[i]
  <1>1. \A i \in 1..6 : w[i] \in Int
    BY WordTypes, SMT
  <1>2. \A i \in DOMAIN net :
           i \in Nat /\ 96 >= 16 * (i - 1) + 16 /\ w[i] \in Int /\ net[i] \in Int
    BY <1>1, SMT
  <1>3. QED
    BY <1>2, WholeItems, SMT

LEMMA EightWords ==
    ASSUME NEW w \in IPv6Words, NEW net, DOMAIN net = 1..8, \A i \in 1..8 : net[i] \in Int
    PROVE  Within(w, net, 128, 16) <=> \A i \in 1..8 : w[i] = net[i]
  <1>1. \A i \in 1..8 : w[i] \in Int
    BY WordTypes, SMT
  <1>2. \A i \in DOMAIN net :
           i \in Nat /\ 128 >= 16 * (i - 1) + 16 /\ w[i] \in Int /\ net[i] \in Int
    BY <1>1, SMT
  <1>3. QED
    BY <1>2, WholeItems, SMT

LEMMA IPv6Special ==
    ASSUME NEW w \in IPv6Words
    PROVE  /\ In6(w, IPv6Prefixes.unspecified) <=> IsUnspecified(w)
           /\ In6(w, IPv6Prefixes.loopback) <=> IsLoopback(w)
           /\ ~Disputed(w) => (In6(w, IPv6Prefixes.link_local) <=> IsLinkLocal(w))
           /\ In6(w, IPv6Prefixes.unique_local) <=> IsUniqueLocal(w)
           /\ In6(w, IPv6Prefixes.site_local) <=> IsSiteLocal(w)
           /\ In6(w, IPv6Prefixes.multicast) <=> IsMulticast(w)
           /\ In6(w, IPv6Prefixes.v4_mapped) <=> IsV4Mapped(w)
           /\ In6(w, IPv6Prefixes.v4_translated) <=> IsV4Translated(w)
  <1>1. /\ Zero(w, 1, 8) <=> /\ w[1] = 0 /\ w[2] = 0 /\ w[3] = 0 /\ w[4] = 0
                             /\ w[5] = 0 /\ w[6] = 0 /\ w[7] = 0 /\ w[8] = 0
        /\ Zero(w, 1, 7) <=> /\ w[1] = 0 /\ w[2] = 0 /\ w[3] = 0 /\ w[4] = 0
                             /\ w[5] = 0 /\ w[6] = 0 /\ w[7] = 0
        /\ Zero(w, 1, 5) <=> w[1] = 0 /\ w[2] = 0 /\ w[3] = 0 /\ w[4] = 0 /\ w[5] = 0
        /\ Zero(w, 1, 4) <=> w[1] = 0 /\ w[2] = 0 /\ w[3] = 0 /\ w[4] = 0
        /\ Zero(w, 2, 4) <=> w[2] = 0 /\ w[3] = 0 /\ w[4] = 0
    BY SMT DEF Zero
  <1>2. Within(w, <<0, 0, 0, 0, 0, 0, 0, 0>>, 128, 16) <=> Zero(w, 1, 8)
    <2> DEFINE net == <<0, 0, 0, 0, 0, 0, 0, 0>>
    <2>1. /\ DOMAIN net = 1..8
          /\ net[1] = 0 /\ net[2] = 0 /\ net[3] = 0 /\ net[4] = 0
          /\ net[5] = 0 /\ net[6] = 0 /\ net[7] = 0 /\ net[8] = 0
      BY SMT
    <2> HIDE DEF net
    <2>2. Within(w, net, 128, 16) <=> \A i \in 1..8 : w[i] = net[i]
      BY <2>1, EightWords, SMT
    <2>3. QED
      BY <1>1, <2>1, <2>2, SMT DEF net
  <1>3. Within(w, <<0, 0, 0, 0, 0, 0, 0, 1>>, 128, 16) <=> Zero(w, 1, 7) /\ w[8] = 1
    <2> DEFINE net == <<0, 0, 0, 0, 0, 0, 0, 1>>
    <2>1. /\ DOMAIN net = 1..8
          /\ net[1] = 0 /\ net[2] = 0 /\ net[3] = 0 /\ net[4] = 0
          /\ net[5] = 0 /\ net[6] = 0 /\ net[7] = 0 /\ net[8] = 1
      BY SMT
    <2> HIDE DEF net
    <2>2. Within(w, net, 128, 16) <=> \A i \in 1..8 : w[i] = net[i]
      BY <2>1, EightWords, SMT
    <2>3. QED
      BY <1>1, <2>1, <2>2, SMT DEF net
  <1>4. Within(w, <<65152, 0, 0, 0>>, 64, 16) <=> w[1] = 65152 /\ Zero(w, 2, 4)
    BY <1>1, WordTypes, FourItems, SMTT(60)
  <1>5. Within(w, <<64512>>, 7, 16) <=> w[1] \div 256 \in {252, 253}
    <2>1. Within(w, <<64512>>, 7, 16) <=> SameBits(w[1], 64512, 7, 16)
      BY PartOfFirst, SMT
    <2>2. QED
      BY <2>1, WordTypes, WordParts, SMT
  <1>6. Within(w, <<65216>>, 10, 16) <=> w[1] \in 65216..65279
    <2>1. Within(w, <<65216>>, 10, 16) <=> SameBits(w[1], 65216, 10, 16)
      BY PartOfFirst, SMT
    <2>2. QED
      BY <2>1, WordTypes, WordParts, SMT
  <1>7. Within(w, <<65280>>, 8, 16) <=> w[1] \div 256 = 255
    <2>1. Within(w, <<65280>>, 8, 16) <=> SameBits(w[1], 65280, 8, 16)
      BY PartOfFirst, SMT
    <2>2. QED
      BY <2>1, WordTypes, WordParts, SMT
  <1>8. Within(w, <<0, 0, 0, 0, 0, 65535>>, 96, 16) <=> Zero(w, 1, 5) /\ w[6] = 65535
    <2> DEFINE net == <<0, 0, 0, 0, 0, 65535>>
    <2>1. /\ DOMAIN net = 1..6
          /\ net[1] = 0 /\ net[2] = 0 /\ net[3] = 0
          /\ net[4] = 0 /\ net[5] = 0 /\ net[6] = 65535
      BY SMT
    <2> HIDE DEF net
    <2>2. Within(w, net, 96, 16) <=> \A i \in 1..6 : w[i] = net[i]
      BY <2>1, SixWords, SMT
    <2>3. QED
      BY <1>1, <2>1, <2>2, SMT DEF net
  <1>9. Within(w, <<0, 0, 0, 0, 65535, 0>>, 96, 16) <=> Zero(w, 1, 4) /\ w[5] = 65535 /\ w[6] = 0
    <2> DEFINE net == <<0, 0, 0, 0, 65535, 0>>
    <2>1. /\ DOMAIN net = 1..6
          /\ net[1] = 0 /\ net[2] = 0 /\ net[3] = 0
          /\ net[4] = 0 /\ net[5] = 65535 /\ net[6] = 0
      BY SMT
    <2> HIDE DEF net
    <2>2. Within(w, net, 96, 16) <=> \A i \in 1..6 : w[i] = net[i]
      BY <2>1, SixWords, SMT
    <2>3. QED
      BY <1>1, <2>1, <2>2, SMT DEF net
  <1>10. /\ IPv6Prefixes.unspecified = {P(<<0, 0, 0, 0, 0, 0, 0, 0>>, 128)}
         /\ IPv6Prefixes.loopback = {P(<<0, 0, 0, 0, 0, 0, 0, 1>>, 128)}
         /\ IPv6Prefixes.link_local = {P(<<65152, 0, 0, 0>>, 64)}
         /\ IPv6Prefixes.unique_local = {P(<<64512>>, 7)}
         /\ IPv6Prefixes.site_local = {P(<<65216>>, 10)}
         /\ IPv6Prefixes.multicast = {P(<<65280>>, 8)}
         /\ IPv6Prefixes.v4_mapped = {P(<<0, 0, 0, 0, 0, 65535>>, 96)}
         /\ IPv6Prefixes.v4_translated = {P(<<0, 0, 0, 0, 65535, 0>>, 96)}
    BY SMT DEF IPv6Prefixes, Unspecified, Loopback
  <1>11. \A network, len : In6(w, {P(network, len)}) <=> Within(w, network, len, 16)
    BY SMT DEF In6, P
  <1>12. ~Disputed(w) => (IsLinkLocal(w) <=> w[1] = 65152 /\ Zero(w, 2, 4))
    BY WordTypes, SMT DEF Disputed, IsLinkLocal
  <1>13. QED
    BY <1>2, <1>3, <1>4, <1>5, <1>6, <1>7, <1>8, <1>9, <1>10, <1>11, <1>12, SMT
       DEF IsUnspecified, IsLoopback, IsUniqueLocal, IsSiteLocal, IsMulticast, IsV4Mapped,
           IsV4Translated

\* Outside the disputed ranges, the tests for reserved addresses are those of the
\* documentation, in either byte order.
LEMMA IPv6Other ==
    ASSUME NEW w \in IPv6Words, ~Disputed(w)
    PROVE  In6(w, IPv6OtherPrefixes) <=> IsOtherwiseReserved6(w)
  <1>1. Within(w, <<100, 65435, 0, 0, 0, 0>>, 96, 16) =>
            w[1] = 100 /\ w[2] = 65435 /\ w[3] = 0
    <2> DEFINE net == <<100, 65435, 0, 0, 0, 0>>
    <2>1. /\ DOMAIN net = 1..6
          /\ net[1] = 100 /\ net[2] = 65435 /\ net[3] = 0
          /\ net[4] = 0 /\ net[5] = 0 /\ net[6] = 0
      BY SMT
    <2> HIDE DEF net
    <2>2. Within(w, net, 96, 16) <=> \A i \in 1..6 : w[i] = net[i]
      BY <2>1, SixWords, SMT
    <2>3. QED
      BY <2>1, <2>2, SMT DEF net
  <1>2. Within(w, <<100, 65435, 1>>, 48, 16) => w[1] = 100 /\ w[2] = 65435 /\ w[3] = 1
    BY WordTypes, ThreeItems, SMT
  <1>3. Within(w, <<256, 0, 0, 0>>, 64, 16) <=> w[1] = 256 /\ w[2] = 0 /\ w[3] = 0 /\ w[4] = 0
    BY WordTypes, FourItems, SMT
  <1>4. Within(w, <<8193, 0>>, 32, 16) <=> w[1] = 8193 /\ w[2] = 0
    BY WordTypes, TwoItems, SMT
  <1>5. Within(w, <<8193, 32>>, 28, 16) <=> w[1] = 8193 /\ w[2] \in 32..47
    <2>1. Within(w, <<8193, 32>>, 28, 16) <=> w[1] = 8193 /\ SameBits(w[2], 32, 12, 16)
      BY WordTypes, PartOfSecond, SMT
    <2>2. QED
      BY <2>1, WordTypes, WordParts, SMT
  <1>6. Within(w, <<8193, 3512>>, 32, 16) <=> w[1] = 8193 /\ w[2] = 3512
    BY WordTypes, TwoItems, SMT
  <1>7. In6(w, IPv6OtherPrefixes) <=>
            \/ Within(w, <<100, 65435, 0, 0, 0, 0>>, 96, 16)
            \/ Within(w, <<100, 65435, 1>>, 48, 16)
            \/ Within(w, <<256, 0, 0, 0>>, 64, 16)
            \/ Within(w, <<8193, 0>>, 32, 16)
            \/ Within(w, <<8193, 32>>, 28, 16)
            \/ Within(w, <<8193, 3512>>, 32, 16)
    BY SMT DEF In6, IPv6OtherPrefixes, P
  <1>8. Doubleword(w, 1) = <<0, 0>> <=> w[3] = 0 /\ w[4] = 0
    BY DoublewordLemma, SMT
  <1>9. Doubleword(w, 1) = <<1, 0>> => w[3] \in {0, 256}
    BY DoublewordLemma, SMT
  <1>10. w[1] = 100 /\ w[2] = 65435 => w[3] \notin {0, 1, 256}
    BY SMT DEF Disputed
  <1>11. QED
    BY <1>1, <1>2, <1>3, <1>4, <1>5, <1>6, <1>7, <1>8, <1>9, <1>10, SMT DEF IsOtherwiseReserved6

\* The words that the tests look at.
LEMMA Zeroed ==
    ASSUME NEW w
    PROVE  /\ Zero(w, 1, 8) <=> Zero(w, 1, 6) /\ w[7] = 0 /\ w[8] = 0
           /\ Zero(w, 1, 7) <=> Zero(w, 1, 6) /\ w[7] = 0
           /\ Zero(w, 1, 6) <=> Zero(w, 1, 4) /\ w[5] = 0 /\ w[6] = 0
           /\ Zero(w, 1, 5) <=> Zero(w, 1, 4) /\ w[5] = 0
           /\ Zero(w, 1, 4) => w[1] = 0
  BY SMT DEF Zero

LEMMA IPv6Further ==
    ASSUME NEW w \in IPv6Words
    PROVE  /\ In6(w, {P(<<0, 0, 0, 0, 0, 0>>, 96)}) <=> Zero(w, 1, 6)
           /\ In6(w, {Loopback, Unspecified}) <=> IsUnspecified(w) \/ IsLoopback(w)
           /\ In6(w, {P(<<8194>>, 16)}) <=> Is6To4(w)
  <1>1. Zero(w, 1, 6) <=> \A i \in 1..6 : w[i] = 0
    BY DEF Zero
  <1>2. Within(w, <<0, 0, 0, 0, 0, 0>>, 96, 16) <=> Zero(w, 1, 6)
    <2> DEFINE net == <<0, 0, 0, 0, 0, 0>>
    <2>1. DOMAIN net = 1..6 /\ \A i \in 1..6 : net[i] = 0
      BY SMT
    <2> HIDE DEF net
    <2>2. Within(w, net, 96, 16) <=> \A i \in 1..6 : w[i] = net[i]
      BY <2>1, SixWords, SMT
    <2>3. QED
      BY <1>1, <2>1, <2>2, SMT DEF net
  <1>3. Within(w, <<8194>>, 16, 16) <=> w[1] = 8194
    BY WordTypes, OneItem, SMT
  <1>4. \A network, len : In6(w, {P(network, len)}) <=> Within(w, network, len, 16)
    BY SMT DEF In6, P
  <1>5. In6(w, {Loopback, Unspecified}) <=> In6(w, {Loopback}) \/ In6(w, {Unspecified})
    BY SMT DEF In6
  <1>6. IPv6Prefixes.loopback = {Loopback} /\ IPv6Prefixes.unspecified = {Unspecified}
    BY SMT DEF IPv6Prefixes
  <1>7. /\ In6(w, {Loopback}) <=> IsLoopback(w)
        /\ In6(w, {Unspecified}) <=> IsUnspecified(w)
    BY <1>6, IPv6Special, Zenon
  <1>8. QED
    BY <1>2, <1>3, <1>4, <1>5, <1>7, SMT DEF Is6To4

LEMMA IPv6KindLemma ==
    ASSUME NEW w
    PROVE  IPv6Kind(w) =
               IF IsUnspecified(w) THEN "unspecified"
               ELSE IF IsLoopback(w) THEN "loopback"
               ELSE IF IsLinkLocal(w) THEN "link_local"
               ELSE IF IsUniqueLocal(w) THEN "unique_local"
               ELSE IF IsSiteLocal(w) THEN "site_local"
               ELSE IF IsMulticast(w) THEN "multicast"
               ELSE IF IsV4Mapped(w) THEN "v4_mapped"
               ELSE IF IsV4Compatible(w) THEN "v4_compatible"
               ELSE IF IsV4Translated(w) THEN "v4_translated"
               ELSE IF Is6To4(w) THEN "6to4"
               ELSE IF IsOtherwiseReserved6(w) THEN "reserved" ELSE "none"
  <1> DEFINE t == IPv6Tests(w)
             Decides(i) == t[i].holds /\ \A j \in 1..(i - 1) : ~t[j].holds
  <1>1. DOMAIN t = 1..11
    BY DEF IPv6Tests
  <1>2. /\ t[1].kind = "unspecified"
        /\ t[2].kind = "loopback"
        /\ t[3].kind = "link_local"
        /\ t[4].kind = "unique_local"
        /\ t[5].kind = "site_local"
        /\ t[6].kind = "multicast"
        /\ t[7].kind = "v4_mapped"
        /\ t[8].kind = "v4_compatible"
        /\ t[9].kind = "v4_translated"
        /\ t[10].kind = "6to4"
        /\ t[11].kind = "reserved"
    BY DEF IPv6Tests, Test
  <1>3. /\ t[1].holds <=> IsUnspecified(w)
        /\ t[2].holds <=> IsLoopback(w)
        /\ t[3].holds <=> IsLinkLocal(w)
        /\ t[4].holds <=> IsUniqueLocal(w)
        /\ t[5].holds <=> IsSiteLocal(w)
        /\ t[6].holds <=> IsMulticast(w)
        /\ t[7].holds <=> IsV4Mapped(w)
        /\ t[8].holds <=> IsV4Compatible(w)
        /\ t[9].holds <=> IsV4Translated(w)
        /\ t[10].holds <=> Is6To4(w)
        /\ t[11].holds <=> IsOtherwiseReserved6(w)
    BY DEF IPv6Tests, Test
  <1> HIDE DEF t
  <1>4. \A i \in 1..11 : Decides(i) => FirstOf(t) = t[i].kind
    BY <1>1, FirstDecides
  <1>5. (\A i \in 1..11 : ~t[i].holds) => FirstOf(t) = "none"
    BY <1>1, NoneDecides
  <1>6. QED
    BY <1>2, <1>3, <1>4, <1>5 DEF IPv6Kind, t

\* The tests exclude each other, outside the disputed ranges: their order does not
\* matter.
LEMMA IPv6Kinds ==
    ASSUME NEW w \in IPv6Words, ~Disputed(w)
    PROVE  /\ IPv6Kind(w) = "unspecified" <=> IsUnspecified(w)
           /\ IPv6Kind(w) = "loopback" <=> IsLoopback(w)
           /\ IPv6Kind(w) = "link_local" <=> IsLinkLocal(w)
           /\ IPv6Kind(w) = "unique_local" <=> IsUniqueLocal(w)
           /\ IPv6Kind(w) = "site_local" <=> IsSiteLocal(w)
           /\ IPv6Kind(w) = "multicast" <=> IsMulticast(w)
           /\ IPv6Kind(w) = "v4_mapped" <=> IsV4Mapped(w)
           /\ IPv6Kind(w) = "v4_compatible" <=> IsV4Compatible(w)
           /\ IPv6Kind(w) = "v4_translated" <=> IsV4Translated(w)
           /\ IPv6Kind(w) = "6to4" <=> Is6To4(w)
           /\ IPv6Kind(w) = "reserved" <=> IsOtherwiseReserved6(w)
  <1>1. w[1] \in Int /\ 0 <= w[1] /\ w[1] <= 65535
    BY WordTypes, WordRange, SMT
  <1>2. /\ IsUnspecified(w) => w[1] = 0 /\ w[5] = 0 /\ w[6] = 0 /\ w[7] = 0 /\ w[8] = 0
        /\ IsLoopback(w) => w[1] = 0 /\ w[5] = 0 /\ w[6] = 0 /\ w[7] = 0 /\ w[8] = 1
        /\ IsV4Mapped(w) => w[1] = 0 /\ w[5] = 0 /\ w[6] = 65535
        /\ IsV4Compatible(w) => w[1] = 0 /\ w[5] = 0 /\ w[6] = 0 /\ (w[7] # 0 \/ w[8] \notin {0, 1})
        /\ IsV4Translated(w) => w[1] = 0 /\ w[5] = 65535
    BY Zeroed, SMT DEF IsUnspecified, IsLoopback, IsV4Mapped, IsV4Compatible, IsV4Translated
  <1>3. /\ IsUniqueLocal(w) => 64512 <= w[1] /\ w[1] <= 65023
        /\ IsMulticast(w) => 65280 <= w[1]
        /\ IsLinkLocal(w) => 65152 <= w[1] /\ w[1] <= 65215
        /\ IsSiteLocal(w) => 65216 <= w[1] /\ w[1] <= 65279
        /\ Is6To4(w) => w[1] = 8194
    BY <1>1, SMT DEF IsUniqueLocal, IsMulticast, IsLinkLocal, IsSiteLocal, Is6To4
  <1>4. IsOtherwiseReserved6(w) => w[1] \in {256, 8193}
    BY DoublewordLemma, SMT DEF IsOtherwiseReserved6, Disputed
  <1>5. QED
    BY <1>1, <1>2, <1>3, <1>4, IPv6KindLemma, SMT

-----------------------------------------------------------------------------
(* Multicast addresses: the nibbles of their second octet. *)

LEMMA NibblesOf ==
    ASSUME NEW x \in Int, 0 <= x, x <= 65535
    PROVE  /\ x \div 16 \in Int /\ x % 16 \in 0..15
           /\ x = 16 * (x \div 16) + (x % 16)
           /\ x \div 256 = 255 <=> 65280 <= x
           /\ 65280 <= x <=> 4080 <= x \div 16
           /\ 65408 <= x <=> 4088 <= x \div 16
           /\ x \div 16 <= 4095
           /\ (x \div 16) % 16 \in 0..15
           /\ 65280 <= x => (x \div 16) % 16 = (x \div 16) - 4080
  <1>1. x \div 16 \in Int /\ x % 16 \in 0..15 /\ x = 16 * (x \div 16) + (x % 16)
    BY SMT
  <1>2. x \div 256 = 255 <=> 65280 <= x
    BY SMT
  <1>3. 65280 <= x <=> 4080 <= x \div 16
    BY SMT
  <1>4. 65408 <= x <=> 4088 <= x \div 16
    BY SMT
  <1>5. x \div 16 <= 4095
    BY SMT
  <1>6. (x \div 16) % 16 \in 0..15
    BY <1>1, SMT
  <1>7. ASSUME NEW q \in Int, 4080 <= q, q <= 4095
        PROVE  q % 16 = q - 4080
    BY <1>7, SMT
  <1>8. 65280 <= x => (x \div 16) % 16 = (x \div 16) - 4080
    BY <1>1, <1>3, <1>5, <1>7
  <1>9. QED
    BY <1>1, <1>2, <1>3, <1>4, <1>5, <1>6, <1>8

\* The same of the first word of an address.
LEMMA Nibbles ==
    ASSUME NEW w \in IPv6Words
    PROVE  /\ w[1] \div 16 \in Int /\ w[1] % 16 \in 0..15
           /\ w[1] = 16 * (w[1] \div 16) + (w[1] % 16)
           /\ IsMulticast(w) <=> 65280 <= w[1]
           /\ 65280 <= w[1] <=> 4080 <= w[1] \div 16
           /\ 65408 <= w[1] <=> 4088 <= w[1] \div 16
           /\ w[1] \div 16 <= 4095
           /\ (w[1] \div 16) % 16 \in 0..15
           /\ 65280 <= w[1] => (w[1] \div 16) % 16 = (w[1] \div 16) - 4080
  <1>1. w[1] \in Int /\ 0 <= w[1] /\ w[1] <= 65535
    BY WordTypes, WordRange
  <1> DEFINE x == w[1]
  <1>2. IsMulticast(w) <=> x \div 256 = 255
    BY DEF IsMulticast
  <1> HIDE DEF x
  <1>3. x \in Int /\ 0 <= x /\ x <= 65535
    BY <1>1 DEF x
  <1>4. /\ x \div 16 \in Int /\ x % 16 \in 0..15
        /\ x = 16 * (x \div 16) + (x % 16)
        /\ x \div 256 = 255 <=> 65280 <= x
        /\ 65280 <= x <=> 4080 <= x \div 16
        /\ 65408 <= x <=> 4088 <= x \div 16
        /\ x \div 16 <= 4095
        /\ (x \div 16) % 16 \in 0..15
        /\ 65280 <= x => (x \div 16) % 16 = (x \div 16) - 4080
    BY <1>3, NibblesOf
  <1>5. IsMulticast(w) <=> 65280 <= x
    BY <1>2, <1>4
  <1>6. w[1] \div 16 \in Int /\ w[1] % 16 \in 0..15
    BY <1>4 DEF x
  <1>7. w[1] = 16 * (w[1] \div 16) + (w[1] % 16)
    BY <1>4 DEF x
  <1>8. IsMulticast(w) <=> 65280 <= w[1]
    BY <1>5 DEF x
  <1>9. /\ 65280 <= w[1] <=> 4080 <= w[1] \div 16
        /\ 65408 <= w[1] <=> 4088 <= w[1] \div 16
        /\ w[1] \div 16 <= 4095
    BY <1>4 DEF x
  <1>10. /\ (w[1] \div 16) % 16 \in 0..15
         /\ 65280 <= w[1] => (w[1] \div 16) % 16 = (w[1] \div 16) - 4080
    BY <1>4 DEF x
  <1>11. QED
    BY <1>6, <1>7, <1>8, <1>9, <1>10

LEMMA OnePrefix ==
    ASSUME NEW w, NEW network, NEW len
    PROVE  LET p == P(network, len)
           IN Within(w, p.network, p.len, 16) <=> Within(w, network, len, 16)
  BY DEF P

LEMMA InScopePrefixes ==
    ASSUME NEW w \in IPv6Words, IsMulticast(w), NEW digits \in SUBSET (0..15)
    PROVE  In6(w, IPv6ScopePrefixes(digits)) <=> w[1] % 16 \in digits
  <1> DEFINE first(f, d) == 65280 + 16 * f + d
             d0 == w[1] % 16
             f0 == (w[1] \div 16) - 4080
  <1>1. \A p : p \in IPv6ScopePrefixes(digits) <=>
                 \E f \in 0..15, d \in digits : p = P(<<first(f, d)>>, 16)
    BY SMT DEF IPv6ScopePrefixes
  <1>2. \A f \in 0..15, d \in digits : first(f, d) \in Int
    OBVIOUS
  <1>3. \A f \in 0..15, d \in 0..15 : first(f, d) % 16 = d
    BY SMT
  <1>4. f0 \in 0..15
    BY Nibbles, SMT
  <1>5. w[1] = first(f0, d0) /\ w[1] \in Int
    BY Nibbles, WordTypes, SMT
  <1>6. \A x \in Int : Within(w, <<x>>, 16, 16) <=> w[1] = x
    <2>1. w[1] \in Int
      BY WordTypes
    <2>2. ASSUME NEW x \in Int
          PROVE  Within(w, <<x>>, 16, 16) <=> w[1] = x
      BY <2>1, OneItem
    <2>3. QED
      BY <2>2, Zenon
  <1> HIDE DEF first, f0
  <1>7. ASSUME In6(w, IPv6ScopePrefixes(digits))
        PROVE  d0 \in digits
    <2>1. PICK p \in IPv6ScopePrefixes(digits) : Within(w, p.network, p.len, 16)
      BY <1>7 DEF In6
    <2>2. PICK f \in 0..15, d \in digits : p = P(<<first(f, d)>>, 16)
      BY <1>1, <2>1
    <2>3. Within(w, <<first(f, d)>>, 16, 16)
      BY <2>1, <2>2, OnePrefix
    <2>4. w[1] = first(f, d)
      BY <1>2, <1>6, <2>3
    <2>5. QED
      BY <1>3, <2>4
  <1>8. ASSUME d0 \in digits
        PROVE  In6(w, IPv6ScopePrefixes(digits))
    <2>1. P(<<first(f0, d0)>>, 16) \in IPv6ScopePrefixes(digits)
      BY <1>1, <1>4, <1>8
    <2>2. Within(w, <<first(f0, d0)>>, 16, 16)
      BY <1>5, <1>6
    <2>3. QED
      BY <2>1, <2>2, OnePrefix DEF In6
  <1>9. QED
    BY <1>7, <1>8

LEMMA ScopeNibble ==
    ASSUME NEW w \in IPv6Words, NEW s \in DOMAIN IPv6Scopes
    PROVE  /\ IPv6Scopes[s] \in SUBSET (0..15)
           /\ IPv6MulticastScope(w) = s <=> w[1] % 16 \in IPv6Scopes[s]
  <1> DEFINE n == w[1] % 16
  <1>1. n \in 0..15
    BY Nibbles
  <1>2. IPv6MulticastScope(w) =
            IF n \in {0, 15} THEN "Reserved"
            ELSE IF n = 1 THEN "InterfaceLocal"
            ELSE IF n = 2 THEN "LinkLocal"
            ELSE IF n = 3 THEN "RealmLocal"
            ELSE IF n = 4 THEN "AdminLocal"
            ELSE IF n = 5 THEN "SiteLocal"
            ELSE IF n = 8 THEN "OrganizationLocal"
            ELSE IF n = 14 THEN "Global" ELSE "Unassigned"
    BY SMT DEF IPv6MulticastScope
  <1>3. DOMAIN IPv6Scopes =
            {"Reserved", "InterfaceLocal", "LinkLocal", "RealmLocal", "AdminLocal", "SiteLocal",
             "OrganizationLocal", "Global", "Unassigned"}
    BY SMT DEF IPv6Scopes
  <1>4. /\ IPv6Scopes["Reserved"] = {0, 15}
        /\ IPv6Scopes["InterfaceLocal"] = {1}
        /\ IPv6Scopes["LinkLocal"] = {2}
        /\ IPv6Scopes["RealmLocal"] = {3}
        /\ IPv6Scopes["AdminLocal"] = {4}
        /\ IPv6Scopes["SiteLocal"] = {5}
        /\ IPv6Scopes["OrganizationLocal"] = {8}
        /\ IPv6Scopes["Global"] = {14}
        /\ IPv6Scopes["Unassigned"] = {6, 7, 9, 10, 11, 12, 13}
    BY SMT DEF IPv6Scopes
  <1> HIDE DEF n
  <1>5. IPv6MulticastScope(w) = s <=> n \in IPv6Scopes[s]
    BY <1>1, <1>2, <1>3, <1>4, SMT
  <1>6. IPv6Scopes[s] \in SUBSET (0..15)
    BY <1>3, <1>4, SMT
  <1>7. QED
    BY <1>5, <1>6 DEF n

\* The prefix of the flags f.
FlagPrefix(f) == P(<<65280 + 16 * f>>, 12)

LEMMA InFlagPrefixes ==
    ASSUME NEW w \in IPv6Words, NEW nibbles \in SUBSET (0..15), NEW prefixes,
           \A p : p \in prefixes <=> \E f \in nibbles : p = FlagPrefix(f)
    PROVE  In6(w, prefixes) <=> IsMulticast(w) /\ (w[1] \div 16) % 16 \in nibbles
  <1> DEFINE first(f) == 65280 + 16 * f
             n == (w[1] \div 16) % 16
  <1>1. \A p : p \in prefixes <=> \E f \in nibbles : p = P(<<first(f)>>, 12)
    BY DEF FlagPrefix
  <1>2. \A f \in 0..15 : SameBits(w[1], first(f), 12, 16) <=> w[1] \div 16 = 4080 + f
    BY WordTypes, WordParts
  <1> HIDE DEF first
  <1>3. \A f : Within(w, <<first(f)>>, 12, 16) <=> SameBits(w[1], first(f), 12, 16)
    BY PartOfFirst
  <1>4. \A f \in 0..15 : w[1] \div 16 = 4080 + f <=> IsMulticast(w) /\ n = f
    <2> DEFINE q == w[1] \div 16
    <2>1. /\ q \in Int
          /\ IsMulticast(w) <=> 4080 <= q
          /\ IsMulticast(w) => n = q - 4080
      BY Nibbles
    <2> HIDE DEF q, n
    <2>2. QED
      BY <2>1, SMT DEF q
  <1>5. \A f \in nibbles : Within(w, <<first(f)>>, 12, 16) <=> IsMulticast(w) /\ n = f
    BY <1>2, <1>3, <1>4
  <1> HIDE DEF n
  <1>6. ASSUME In6(w, prefixes)
        PROVE  IsMulticast(w) /\ n \in nibbles
    <2>1. PICK p \in prefixes : Within(w, p.network, p.len, 16)
      BY <1>6 DEF In6
    <2>2. PICK f \in nibbles : p = P(<<first(f)>>, 12)
      BY <1>1, <2>1
    <2>3. Within(w, <<first(f)>>, 12, 16)
      BY <2>1, <2>2, OnePrefix
    <2>4. QED
      BY <1>5, <2>3
  <1>7. ASSUME IsMulticast(w), n \in nibbles
        PROVE  In6(w, prefixes)
    <2>1. P(<<first(n)>>, 12) \in prefixes
      BY <1>1, <1>7
    <2>2. Within(w, <<first(n)>>, 12, 16)
      BY <1>5, <1>7
    <2>3. QED
      BY <2>1, <2>2, OnePrefix DEF In6
  <1>8. QED
    BY <1>6, <1>7 DEF n

LEMMA FlagNibbles ==
    ASSUME NEW f \in 0..15
    PROVE  /\ (f \div 1) % 2 = 1 <=> f \in {1, 3, 5, 7, 9, 11, 13, 15}
           /\ (f \div 2) % 2 = 1 <=> f \in {2, 3, 6, 7, 10, 11, 14, 15}
           /\ (f \div 4) % 2 = 1 <=> f \in {4, 5, 6, 7, 12, 13, 14, 15}
           /\ (f \div 8) % 2 = 1 <=> f >= 8
  BY SMT

LEMMA IPv6Flags ==
    ASSUME NEW w \in IPv6Words, ~Disputed(w), NEW flag \in DOMAIN IPv6FlagPrefixes
    PROVE  IsMulticastFlagEnabled(w, flag) <=> In6(w, IPv6FlagPrefixes[flag])
  <1> DEFINE n == (w[1] \div 16) % 16
  <1>1. IsMulticastFlagEnabled(w, flag) <=> IsMulticast(w) /\ (n \div FlagBit[flag]) % 2 = 1
    BY IPv6Kinds DEF IsMulticastFlagEnabled
  <1>2. n \in 0..15
    BY Nibbles, SMT
  <1>3. DOMAIN IPv6FlagPrefixes =
            {"DynamicallyAssigned", "PrefixBased", "RendezvousEmbedded", "ReservedFlag"}
    BY DEF IPv6FlagPrefixes
  <1>4. CASE flag = "DynamicallyAssigned"
    <2>1. FlagBit[flag] = 1
      BY <1>4 DEF FlagBit
    <2> DEFINE nibbles == {1, 3, 5, 7, 9, 11, 13, 15}
    <2>2. \A p : p \in IPv6FlagPrefixes[flag] <=> \E f \in nibbles : p = FlagPrefix(f)
      BY <1>4, SMT DEF IPv6FlagPrefixes, FlagPrefix
    <2>3. nibbles \in SUBSET (0..15)
      BY SMT
    <2>4. n \in 0..15 => (n \in nibbles <=> (n \div 1) % 2 = 1)
      BY FlagNibbles
    <2> HIDE DEF nibbles
    <2>5. In6(w, IPv6FlagPrefixes[flag]) <=> IsMulticast(w) /\ n \in nibbles
      BY <2>2, <2>3, InFlagPrefixes
    <2> HIDE DEF n
    <2>6. QED
      BY <1>1, <1>2, <2>1, <2>4, <2>5
  <1>5. CASE flag = "PrefixBased"
    <2>1. FlagBit[flag] = 2
      BY <1>5 DEF FlagBit
    <2> DEFINE nibbles == {2, 3, 6, 7, 10, 11, 14, 15}
    <2>2. \A p : p \in IPv6FlagPrefixes[flag] <=> \E f \in nibbles : p = FlagPrefix(f)
      BY <1>5, SMT DEF IPv6FlagPrefixes, FlagPrefix
    <2>3. nibbles \in SUBSET (0..15)
      BY SMT
    <2>4. n \in 0..15 => (n \in nibbles <=> (n \div 2) % 2 = 1)
      BY FlagNibbles
    <2> HIDE DEF nibbles
    <2>5. In6(w, IPv6FlagPrefixes[flag]) <=> IsMulticast(w) /\ n \in nibbles
      BY <2>2, <2>3, InFlagPrefixes
    <2> HIDE DEF n
    <2>6. QED
      BY <1>1, <1>2, <2>1, <2>4, <2>5
  <1>6. CASE flag = "RendezvousEmbedded"
    <2>1. FlagBit[flag] = 4
      BY <1>6 DEF FlagBit
    <2> DEFINE nibbles == {4, 5, 6, 7, 12, 13, 14, 15}
    <2>2. \A p : p \in IPv6FlagPrefixes[flag] <=> \E f \in nibbles : p = FlagPrefix(f)
      BY <1>6, SMT DEF IPv6FlagPrefixes, FlagPrefix
    <2>3. nibbles \in SUBSET (0..15)
      BY SMT
    <2>4. n \in 0..15 => (n \in nibbles <=> (n \div 4) % 2 = 1)
      BY FlagNibbles
    <2> HIDE DEF nibbles
    <2>5. In6(w, IPv6FlagPrefixes[flag]) <=> IsMulticast(w) /\ n \in nibbles
      BY <2>2, <2>3, InFlagPrefixes
    <2> HIDE DEF n
    <2>6. QED
      BY <1>1, <1>2, <2>1, <2>4, <2>5
  <1>7. CASE flag = "ReservedFlag"
    <2>1. FlagBit[flag] = 8
      BY <1>7 DEF FlagBit
    <2>2. IPv6FlagPrefixes[flag] = {P(<<65408>>, 9)}
      BY <1>7, SMT DEF IPv6FlagPrefixes
    <2>3. In6(w, {P(<<65408>>, 9)}) <=> Within(w, <<65408>>, 9, 16)
      BY SMT DEF In6, P
    <2>4. Within(w, <<65408>>, 9, 16) <=> SameBits(w[1], 65408, 9, 16)
      BY PartOfFirst, SMT
    <2>5. In6(w, IPv6FlagPrefixes[flag]) <=> w[1] >= 65408
      BY <2>2, <2>3, <2>4, WordTypes, WordParts, SMT
    <2>6. w[1] >= 65408 <=> IsMulticast(w) /\ n >= 8
      <3> DEFINE x == w[1]
                 q == w[1] \div 16
      <3>1. /\ x \in Int /\ q \in Int /\ n \in Int
            /\ IsMulticast(w) <=> 65280 <= x
            /\ 65280 <= x <=> 4080 <= q
            /\ 65408 <= x <=> 4088 <= q
            /\ IsMulticast(w) => n = q - 4080
        BY Nibbles, WordTypes
      <3> HIDE DEF x, q, n
      <3>2. x >= 65408 <=> IsMulticast(w) /\ n >= 8
        BY <3>1, SMT
      <3>3. QED
        BY <3>2 DEF x
    <2> HIDE DEF n
    <2>7. QED
      BY <1>1, <1>2, <2>1, <2>5, <2>6, FlagNibbles, SMT
  <1>8. QED
    BY <1>3, <1>4, <1>5, <1>6, <1>7

-----------------------------------------------------------------------------
(* The property. *)

\* What IPv6AsDocumented says, of every address outside the disputed ranges.
LEMMA IPv6Classified ==
    ASSUME NEW w \in IPv6Words, ~Disputed(w)
    PROVE  LET kind == IPv6Kind(w)
           IN /\ \A k \in DOMAIN IPv6Prefixes : kind = k <=> In6(w, IPv6Prefixes[k])
              /\ kind = "v4_compatible" <=>
                     In6(w, {P(<<0, 0, 0, 0, 0, 0>>, 96)}) /\ ~In6(w, {Loopback, Unspecified})
              /\ kind = "6to4" <=> In6(w, {P(<<8194>>, 16)})
              /\ kind = "reserved" <=> In6(w, IPv6OtherPrefixes)
              /\ kind = "multicast" =>
                     \A s \in DOMAIN IPv6Scopes :
                         IPv6MulticastScope(w) = s <=> In6(w, IPv6ScopePrefixes(IPv6Scopes[s]))
              /\ \A flag \in DOMAIN IPv6FlagPrefixes :
                     IsMulticastFlagEnabled(w, flag) <=> In6(w, IPv6FlagPrefixes[flag])
  <1> DEFINE kind == IPv6Kind(w)
  <1>1. \A k \in DOMAIN IPv6Prefixes : kind = k <=> In6(w, IPv6Prefixes[k])
    <2>1. DOMAIN IPv6Prefixes =
              {"unspecified", "loopback", "link_local", "unique_local", "site_local", "multicast",
               "v4_mapped", "v4_translated"}
      BY SMT DEF IPv6Prefixes
    <2>2. QED
      BY <2>1, IPv6Kinds, IPv6Special
  <1>2. kind = "v4_compatible" <=>
            In6(w, {P(<<0, 0, 0, 0, 0, 0>>, 96)}) /\ ~In6(w, {Loopback, Unspecified})
    <2>1. IsV4Compatible(w) <=> Zero(w, 1, 6) /\ ~(IsUnspecified(w) \/ IsLoopback(w))
      BY Zeroed, SMT DEF IsV4Compatible, IsUnspecified, IsLoopback
    <2>2. QED
      BY <2>1, IPv6Kinds, IPv6Further
  <1>3. kind = "6to4" <=> In6(w, {P(<<8194>>, 16)})
    BY IPv6Kinds, IPv6Further
  <1>4. kind = "reserved" <=> In6(w, IPv6OtherPrefixes)
    BY IPv6Kinds, IPv6Other
  <1>5. ASSUME kind = "multicast"
        PROVE  \A s \in DOMAIN IPv6Scopes :
                   IPv6MulticastScope(w) = s <=> In6(w, IPv6ScopePrefixes(IPv6Scopes[s]))
    <2>1. IsMulticast(w)
      BY <1>5, IPv6Kinds
    <2>2. QED
      BY <2>1, ScopeNibble, InScopePrefixes
  <1>6. QED
    BY <1>1, <1>2, <1>3, <1>4, <1>5, IPv6Flags

\* The value is an address as the assumption describes it.
AddressTaken ==
    /\ value.kind = "ipv4" => value.octets \in Octets
    /\ value.kind = "ipv6" => value.words \in IPv6Words

LEMMA AddressLemma == Spec => []AddressTaken
  <1>1. Init => AddressTaken
    BY DEF Init, Nothing, AddressTaken
  <1>2. AddressTaken /\ [Next]_vars => AddressTaken'
    <2> SUFFICES ASSUME AddressTaken, [Next]_vars
                 PROVE  AddressTaken'
      OBVIOUS
    <2>1. CASE TakeIPv4
      <3>1. PICK b \in IPv4Inputs : value' = [kind |-> "ipv4", octets |-> b]
        BY <2>1 DEF TakeIPv4, Take
      <3>2. b \in Octets
        BY ValuesAssumption DEF ValuesAssumption, Octets
      <3>3. QED
        BY <3>1, <3>2 DEF AddressTaken
    <2>2. CASE TakeIPv6
      <3>1. PICK w \in IPv6Inputs : value' = [kind |-> "ipv6", words |-> w]
        BY <2>2 DEF TakeIPv6, Take
      <3>2. w \in IPv6Words
        BY ValuesAssumption DEF ValuesAssumption, IPv6Words
      <3>3. QED
        BY <3>1, <3>2 DEF AddressTaken
    <2>3. CASE \/ TakeText \/ TakeScope \/ TakeMacText \/ TakeMacData \/ TakeMask
               \/ TakeFlags \/ TakeSystem \/ TakeLists \/ PutBack
      <3>1. value'.kind \notin {"ipv4", "ipv6"}
        BY <2>3 DEF TakeText, TakeScope, TakeMacText, TakeMacData, TakeMask, TakeFlags, TakeSystem,
                    TakeLists, PutBack, Take, Nothing
      <3>2. QED
        BY <3>1 DEF AddressTaken
    <2>4. CASE CallNext \/ UNCHANGED vars
      BY <2>4 DEF CallNext, vars, AddressTaken
    <2>5. QED
      BY <2>1, <2>2, <2>3, <2>4 DEF Next
  <1>3. QED
    BY <1>1, <1>2, PTL DEF Spec

\* Every IPv4 and every IPv6 address, not only those at the boundaries that a run
\* tries, is of the kind, and has the multicast scope and flags, that the
\* documentation gives for its prefix (the constructors of IPv4Address and
\* IPv6Address in impl/IpAddress.ipp).
THEOREM AlwaysAsDocumented == Spec => []AddressesAsDocumented
  <1>1. AddressTaken => AddressesAsDocumented
    <2> SUFFICES ASSUME AddressTaken
                 PROVE  AddressesAsDocumented
      OBVIOUS
    <2>1. IPv4AsDocumented
      BY IPv4Classified DEF AddressTaken, IPv4AsDocumented
    <2>2. IPv6AsDocumented
      BY IPv6Classified DEF AddressTaken, IPv6AsDocumented
    <2>3. QED
      BY <2>1, <2>2 DEF AddressesAsDocumented
  <1>2. QED
    BY <1>1, AddressLemma, PTL

-----------------------------------------------------------------------------
(* Texts of IPv6 addresses: the search for the longest run of zeros. *)

\* A run of words, and what the loop over the words keeps.
Run == [start : 0..8, end : 0..8]
Searching == [best : Run, run : Run]

\* The best run is the first of the longest runs of zeros in the first m words.
BestUpTo(w, best, m) ==
    IF best = None
    THEN \A x \in 1..m : w[x] # 0
    ELSE /\ best.start \in 1..m /\ best.end \in 1..m
         /\ ZeroRun(w, best.start, best.end)
         /\ \A i, j \in 1..m : ZeroRun(w, i, j) =>
                \/ j - i < best.end - best.start
                \/ j - i = best.end - best.start /\ best.start <= i

\* The words from a to e are zeros, and the word before them is none.
RunsFrom(w, a, e) ==
    /\ ZeroRun(w, a, e)
    /\ a > 1 => w[a - 1] # 0

\* What the loop knows after i words.
Searched(w, i, s) ==
    /\ s \in Searching
    /\ s.run = None =>
           /\ BestUpTo(w, s.best, i)
           /\ i > 0 => w[i] # 0
    /\ s.run # None =>
           /\ s.run.start \in 1..i /\ s.run.end = i
           /\ RunsFrom(w, s.run.start, i)
           /\ BestUpTo(w, s.best, s.run.start - 1)

\* The parts of a run.
LEMMA PartsOfRun ==
    ASSUME NEW r \in Run
    PROVE  /\ r.start \in 0..8 /\ r.end \in 0..8
           /\ r = None <=> r.start = 0 /\ r.end = 0
  BY DEF Run, None

\* A word that is not zero adds no run.
LEMMA BestGoesOn ==
    ASSUME NEW w, NEW best \in Run, NEW m \in 0..7, BestUpTo(w, best, m), w[m + 1] # 0
    PROVE  BestUpTo(w, best, m + 1)
  <1>1. ASSUME NEW i \in 1..(m + 1), NEW j \in 1..(m + 1), ZeroRun(w, i, j)
        PROVE  i \in 1..m /\ j \in 1..m
    <2>1. w[i] = 0 /\ w[j] = 0 /\ i <= j
      BY <1>1 DEF ZeroRun
    <2>2. QED
      BY <2>1
  <1>2. CASE best = None
    BY <1>2 DEF BestUpTo
  <1>3. CASE best # None
    <2>1. /\ best.start \in 1..m /\ best.end \in 1..m
          /\ ZeroRun(w, best.start, best.end)
          /\ \A i, j \in 1..m : ZeroRun(w, i, j) =>
                 \/ j - i < best.end - best.start
                 \/ j - i = best.end - best.start /\ best.start <= i
      BY <1>3 DEF BestUpTo
    <2>2. best.start \in 1..(m + 1) /\ best.end \in 1..(m + 1)
      BY <2>1
    <2>3. QED
      BY <1>1, <1>3, <2>1, <2>2 DEF BestUpTo
  <1>4. QED
    BY <1>2, <1>3

\* A run of zeros with none before lies before another run or inside it.
LEMMA BeforeOrInside ==
    ASSUME NEW w, NEW a \in 1..8, NEW e \in a..8, RunsFrom(w, a, e),
           NEW i \in 1..e, NEW j \in 1..e, ZeroRun(w, i, j)
    PROVE  (i \in 1..(a - 1) /\ j \in 1..(a - 1)) \/ (i \in a..e /\ j \in i..e)
  <1>1. i <= j
    BY DEF ZeroRun
  <1>2. CASE i >= a
    BY <1>1, <1>2
  <1>3. CASE i < a
    <2>1. w[a - 1] # 0
      BY <1>3 DEF RunsFrom
    <2>2. a - 1 \notin i..j
      BY <2>1 DEF ZeroRun
    <2>3. QED
      BY <1>1, <1>3, <2>2
  <1>4. QED
    BY <1>2, <1>3

\* Keep takes a run if it is better than the best before it.
LEMMA KeepLemma ==
    ASSUME NEW w, NEW best \in Run, NEW run \in Run, run # None,
           run.start \in 1..run.end, RunsFrom(w, run.start, run.end),
           BestUpTo(w, best, run.start - 1)
    PROVE  /\ Keep(best, run) \in Run
           /\ Keep(best, run) # None
           /\ BestUpTo(w, Keep(best, run), run.end)
  <1> DEFINE a == run.start
             e == run.end
             b == best.start
             c == best.end
  <1>1. a \in 1..8 /\ e \in a..8 /\ b \in 0..8 /\ c \in 0..8
    BY PartsOfRun
  <1>2. ASSUME NEW i \in 1..e, NEW j \in 1..e, ZeroRun(w, i, j)
        PROVE  (i \in 1..(a - 1) /\ j \in 1..(a - 1)) \/ (i \in a..e /\ j \in i..e)
    BY <1>1, <1>2, BeforeOrInside
  <1>3. ZeroRun(w, a, e)
    BY DEF RunsFrom
  <1>4. best = None => \A x \in 1..(a - 1) : w[x] # 0
    BY DEF BestUpTo
  <1>5. best # None => /\ b \in 1..(a - 1) /\ c \in 1..(a - 1) /\ ZeroRun(w, b, c)
                       /\ \A i, j \in 1..(a - 1) : ZeroRun(w, i, j) =>
                              j - i < c - b \/ (j - i = c - b /\ b <= i)
    BY DEF BestUpTo
  <1>6. CASE best = None \/ e - a > c - b
    <2>1. Keep(best, run) = run
      BY <1>6 DEF Keep, Longer
    <2>2. ASSUME NEW i \in 1..e, NEW j \in 1..e, ZeroRun(w, i, j)
          PROVE  j - i < e - a \/ (j - i = e - a /\ a <= i)
      <3>1. CASE i \in 1..(a - 1) /\ j \in 1..(a - 1)
        <4>1. w[i] = 0
          BY <2>2, <3>1 DEF ZeroRun
        <4>2. best # None
          BY <1>4, <3>1, <4>1
        <4>3. j - i <= c - b /\ e - a > c - b
          BY <1>1, <1>5, <1>6, <2>2, <3>1, <4>2
        <4>4. QED
          BY <1>1, <3>1, <4>3
      <3>2. CASE i \in a..e /\ j \in i..e
        BY <1>1, <3>2
      <3>3. QED
        BY <1>2, <2>2, <3>1, <3>2
    <2>3. a \in 1..e /\ e \in 1..e
      BY <1>1
    <2> HIDE DEF a, e
    <2>4. BestUpTo(w, run, e)
      BY <1>3, <2>2, <2>3 DEF BestUpTo, a, e
    <2>5. QED
      BY <2>1, <2>4 DEF e
  <1>7. CASE best # None /\ ~ (e - a > c - b)
    <2>1. Keep(best, run) = best
      BY <1>7 DEF Keep, Longer
    <2>2. ASSUME NEW i \in 1..e, NEW j \in 1..e, ZeroRun(w, i, j)
          PROVE  j - i < c - b \/ (j - i = c - b /\ b <= i)
      <3>1. CASE i \in 1..(a - 1) /\ j \in 1..(a - 1)
        BY <1>5, <1>7, <2>2, <3>1
      <3>2. CASE i \in a..e /\ j \in i..e
        BY <1>1, <1>5, <1>7, <3>2
      <3>3. QED
        BY <1>2, <2>2, <3>1, <3>2
    <2>3. b \in 1..e /\ c \in 1..e
      BY <1>1, <1>5, <1>7
    <2> HIDE DEF a, b, c, e
    <2>4. BestUpTo(w, best, e)
      BY <1>5, <1>7, <2>2, <2>3 DEF BestUpTo, b, c
    <2>5. QED
      BY <1>7, <2>1, <2>4 DEF e
  <1>8. QED
    BY <1>6, <1>7

\* One word more.
LEMMA SearchedOneMore ==
    ASSUME NEW w, NEW i \in 0..7, NEW s, Searched(w, i, s)
    PROVE  Searched(w, i + 1, IF w[i + 1] = 0 THEN ZeroWord(s, i + 1) ELSE OtherWord(s))
  <1> DEFINE n == i + 1
  <1>1. /\ s \in Searching /\ s.best \in Run /\ s.run \in Run
        /\ n \in 1..8 /\ n - 1 = i
    BY DEF Searched, Searching
  <1>2. s.run = None => BestUpTo(w, s.best, i)
    BY DEF Searched
  <1>3. s.run # None =>
           /\ s.run.start \in 1..i /\ s.run.end = i
           /\ RunsFrom(w, s.run.start, i)
           /\ BestUpTo(w, s.best, s.run.start - 1)
    BY DEF Searched
  <1>4. CASE w[n] = 0
    <2>1. PICK a : a = IF s.run = None THEN n ELSE s.run.start
      OBVIOUS
    <2>2. PICK t : t = ZeroWord(s, n)
      OBVIOUS
    <2>3. t = [best |-> s.best, run |-> [start |-> a, end |-> n]]
      BY <2>1, <2>2 DEF ZeroWord
    <2>4. a \in 1..n
      BY <1>1, <1>3, <2>1
    <2>5. t.best = s.best /\ t.run = [start |-> a, end |-> n] /\ t.run \in Run
      BY <1>1, <2>3, <2>4 DEF Run
    <2>6. t \in Searching /\ t.run.start = a /\ t.run.end = n
      BY <1>1, <2>3, <2>4 DEF Run, Searching
    <2>7. t.run # None
      BY <2>4, <2>5, <2>6, PartsOfRun
    <2>8. RunsFrom(w, a, n)
      <3>1. CASE s.run = None
        <4>1. a = n
          BY <2>1, <3>1
        <4>2. ZeroRun(w, n, n)
          BY <1>1, <1>4 DEF ZeroRun
        <4>3. n > 1 => w[n - 1] # 0
          BY <1>1, <3>1 DEF Searched
        <4>4. QED
          BY <4>1, <4>2, <4>3 DEF RunsFrom
      <3>2. CASE s.run # None
        <4>1. a = s.run.start /\ a \in 1..i
          BY <1>3, <2>1, <3>2
        <4>2. ZeroRun(w, a, i) /\ (a > 1 => w[a - 1] # 0)
          BY <1>3, <3>2, <4>1 DEF RunsFrom
        <4>3. \A x \in a..n : x \in a..i \/ x = n
          BY <1>1, <4>1
        <4>4. ZeroRun(w, a, n)
          BY <1>1, <1>4, <4>1, <4>2, <4>3 DEF ZeroRun
        <4>5. QED
          BY <4>2, <4>4 DEF RunsFrom
      <3>3. QED
        BY <3>1, <3>2
    <2>9. BestUpTo(w, t.best, a - 1)
      <3>1. CASE s.run = None
        BY <1>1, <1>2, <2>1, <2>5, <3>1
      <3>2. CASE s.run # None
        BY <1>3, <2>1, <2>5, <3>2
      <3>3. QED
        BY <3>1, <3>2
    <2>10. Searched(w, n, t)
      BY <2>4, <2>6, <2>7, <2>8, <2>9 DEF Searched
    <2>11. QED
      BY <1>4, <2>2, <2>10
  <1>5. CASE w[n] # 0
    <2>1. PICK t : t = OtherWord(s)
      OBVIOUS
    <2>2. t = [best |-> Keep(s.best, s.run), run |-> None]
      BY <2>1 DEF OtherWord
    <2>3. None \in Run
      BY DEF Run, None
    <2>4. Keep(s.best, s.run) \in Run /\ BestUpTo(w, Keep(s.best, s.run), i)
      <3>1. CASE s.run = None
        <4>1. Keep(s.best, s.run) = s.best
          BY <3>1 DEF Keep
        <4>2. QED
          BY <1>1, <1>2, <3>1, <4>1
      <3>2. CASE s.run # None
        <4>1. /\ s.run.end = i /\ s.run.start \in 1..s.run.end
              /\ RunsFrom(w, s.run.start, s.run.end)
              /\ BestUpTo(w, s.best, s.run.start - 1)
          BY <1>3, <3>2
        <4>2. BestUpTo(w, Keep(s.best, s.run), s.run.end) /\ Keep(s.best, s.run) \in Run
          BY <1>1, <3>2, <4>1, KeepLemma
        <4>3. QED
          BY <4>1, <4>2
      <3>3. QED
        BY <3>1, <3>2
    <2>5. BestUpTo(w, Keep(s.best, s.run), n)
      BY <1>5, <2>4, BestGoesOn
    <2>6. /\ t \in Searching /\ t.run = None /\ t.best = Keep(s.best, s.run)
      BY <2>2, <2>3, <2>4 DEF Searching
    <2>7. Searched(w, n, t)
      BY <1>5, <2>5, <2>6 DEF Searched
    <2>8. QED
      BY <1>5, <2>1, <2>7
  <1>6. QED
    BY <1>4, <1>5

\* The run that is left out is the first of the longest ones.
LEMMA ZeroesLemma ==
    ASSUME NEW w
    PROVE  Zeroes(w) \in Run /\ BestUpTo(w, Zeroes(w), 8)
  <1> DEFINE Start == [best |-> None, run |-> None]
             Turn(s, i) == IF w[i] = 0 THEN ZeroWord(s, i) ELSE OtherWord(s)
             Turns(s) == s = [i \in 0..8 |-> IF i = 0 THEN Start ELSE Turn(s[i - 1], i)]
             g == [x \in Searching \X (1..8) |-> Turn(x[1], x[2])]
  <1>1. Start \in Searching
    BY DEF Searching, Run, None
  <1>2. g \in [Searching \X (1..8) -> Searching]
    <2>1. ASSUME NEW s \in Searching, NEW i \in 1..8
          PROVE  Turn(s, i) \in Searching
      <3>1. s.best \in Run /\ s.run \in Run /\ None \in Run
        BY DEF Searching, Run, None
      <3>2. ZeroWord(s, i) \in Searching
        BY <3>1 DEF ZeroWord, Searching, Run
      <3>3. OtherWord(s) \in Searching
        <4>1. Keep(s.best, s.run) \in Run
          BY <3>1 DEF Keep
        <4>2. QED
          BY <3>1, <4>1 DEF OtherWord, Searching
      <3>4. QED
        BY <3>2, <3>3
    <2> HIDE DEF Turn
    <2>2. \A x \in Searching \X (1..8) : x[1] \in Searching /\ x[2] \in 1..8
      OBVIOUS
    <2>3. \A x \in Searching \X (1..8) : Turn(x[1], x[2]) \in Searching
      BY <2>1, <2>2
    <2>4. QED
      BY <2>3
  <1>3. PICK f \in [0..8 -> Searching] : f[0] = Start /\ \A i \in 1..8 : f[i] = g[<<f[i - 1], i>>]
    <2> HIDE DEF Start, g
    <2>1. PICK f \in [0..8 -> Searching] : GoesOn(f, 8, Start, g)
      <3>1. 8 \in Nat
        OBVIOUS
      <3>2. QED
        BY <1>1, <1>2, <3>1, StepByStep, Zenon
    <2>2. QED
      BY <2>1 DEF GoesOn
  <1>4. ASSUME NEW i \in 1..8
        PROVE  f[i] = Turn(f[i - 1], i)
    <2>1. i - 1 \in 0..8 /\ f[i - 1] \in Searching
      OBVIOUS
    <2> HIDE DEF Turn
    <2>2. g[<<f[i - 1], i>>] = Turn(f[i - 1], i)
      BY <2>1
    <2>3. QED
      BY <1>3, <2>1, <2>2
  <1> HIDE DEF g, Turn, Start
  <1>5. Turns(f)
    BY <1>3, <1>4, SMTT(60)
  <1>6. PICK s : Turns(s) /\ Zeroes(w) = Keep(s[8].best, s[8].run)
    <2>1. Turns(CHOOSE s : Turns(s))
      BY <1>5
    <2>2. Zeroes(w) = Keep((CHOOSE s : Turns(s))[8].best, (CHOOSE s : Turns(s))[8].run)
      BY DEF Zeroes, Turn, Start
    <2>3. QED
      BY <2>1, <2>2
  <1>7. \A i \in 0..8 : s[i] = IF i = 0 THEN Start ELSE Turn(s[i - 1], i)
    <2>1. s = [i \in 0..8 |-> IF i = 0 THEN Start ELSE Turn(s[i - 1], i)]
      BY <1>6, Zenon
    <2> HIDE DEF Turns
    <2>2. QED
      BY <2>1, Zenon
  <1> HIDE DEF Turns
  <1>8. Searched(w, 0, s[0])
    <2>1. s[0] = Start
      BY <1>7
    <2>2. Start \in Searching /\ Start.run = None /\ Start.best = None
      BY <1>1 DEF Start
    <2>3. BestUpTo(w, None, 0)
      BY DEF BestUpTo
    <2>4. QED
      BY <2>1, <2>2, <2>3 DEF Searched
  <1>9. ASSUME NEW i \in 0..7, Searched(w, i, s[i])
        PROVE  Searched(w, i + 1, s[i + 1])
    <2>1. i + 1 \in 0..8 /\ i + 1 # 0 /\ (i + 1) - 1 = i
      OBVIOUS
    <2>2. s[i + 1] = Turn(s[i], i + 1)
      BY <1>7, <2>1
    <2>3. QED
      BY <1>9, <2>2, SearchedOneMore DEF Turn
  <1>10. Searched(w, 8, s[8])
    <2>1. Searched(w, 1, s[1]) /\ Searched(w, 2, s[2])
      BY <1>8, <1>9
    <2>2. Searched(w, 3, s[3]) /\ Searched(w, 4, s[4])
      BY <1>9, <2>1
    <2>3. Searched(w, 5, s[5]) /\ Searched(w, 6, s[6])
      BY <1>9, <2>2
    <2>4. Searched(w, 7, s[7]) /\ Searched(w, 8, s[8])
      BY <1>9, <2>3
    <2>5. QED
      BY <2>4
  <1>11. s[8].best \in Run /\ s[8].run \in Run
    BY <1>10 DEF Searched, Searching
  <1>12. CASE s[8].run = None
    <2>1. Keep(s[8].best, s[8].run) = s[8].best
      BY <1>12 DEF Keep
    <2>2. QED
      BY <1>6, <1>10, <1>11, <1>12, <2>1 DEF Searched
  <1>13. CASE s[8].run # None
    <2>1. /\ s[8].run.end = 8 /\ s[8].run.start \in 1..s[8].run.end
          /\ RunsFrom(w, s[8].run.start, s[8].run.end)
          /\ BestUpTo(w, s[8].best, s[8].run.start - 1)
      BY <1>10, <1>13 DEF Searched
    <2>2. /\ Keep(s[8].best, s[8].run) \in Run
          /\ BestUpTo(w, Keep(s[8].best, s[8].run), s[8].run.end)
      BY <1>11, <1>13, <2>1, KeepLemma
    <2>3. QED
      BY <1>6, <2>1, <2>2
  <1>14. QED
    BY <1>12, <1>13

-----------------------------------------------------------------------------
(* Texts of IPv6 addresses: what is appended for each word. *)

\* A word or a colon.
Sign == Word \union {Colon}

\* Words with colons between them are a text.
LEMMA WrittenType ==
    ASSUME NEW w \in [1..8 -> Word], NEW a \in 1..9, NEW b \in (a - 1)..8
    PROVE  /\ Written(w, a, b) \in Seq(Sign)
           /\ Len(Written(w, a, b)) = IF a <= b THEN 2 * (b - a) + 1 ELSE 0
           /\ \A p \in 1..Len(Written(w, a, b)) :
                 Written(w, a, b)[p] = IF p % 2 = 0 THEN Colon ELSE w[a + (p \div 2)]
  <1> DEFINE n == IF a <= b THEN 2 * (b - a) + 1 ELSE 0
  <1>1. n \in Nat
    OBVIOUS
  <1>2. ASSUME NEW p \in 1..n
        PROVE  (IF p % 2 = 0 THEN Colon ELSE w[a + (p \div 2)]) \in Sign
    <2>1. p % 2 # 0 => a + (p \div 2) \in 1..8
      OBVIOUS
    <2>2. QED
      BY <2>1 DEF Sign
  <1>3. Written(w, a, b) = [p \in 1..n |-> IF p % 2 = 0 THEN Colon ELSE w[a + (p \div 2)]]
    BY DEF Written
  <1> HIDE DEF n
  <1>4. Written(w, a, b) \in [1..n -> Sign]
    BY <1>2, <1>3
  <1>5. Written(w, a, b) \in Seq(Sign) /\ Len(Written(w, a, b)) = n
    BY <1>1, <1>4
  <1>6. QED
    BY <1>3, <1>5 DEF n

\* No words, one word, and one more.
LEMMA WrittenNone ==
    ASSUME NEW w \in [1..8 -> Word], NEW a \in 1..9
    PROVE  Written(w, a, a - 1) = << >>
  <1>1. a - 1 \in (a - 1)..8 /\ ~ (a <= a - 1)
    OBVIOUS
  <1>2. Written(w, a, a - 1) \in Seq(Sign) /\ Len(Written(w, a, a - 1)) = 0
    BY <1>1, WrittenType
  <1>3. QED
    BY <1>2

LEMMA WrittenOne ==
    ASSUME NEW w \in [1..8 -> Word], NEW a \in 1..8
    PROVE  Written(w, a, a) = <<w[a]>>
  <1>1. /\ Written(w, a, a) \in Seq(Sign) /\ Len(Written(w, a, a)) = 1
        /\ Written(w, a, a)[1] = w[a]
    <2>1. 1 % 2 = 1 /\ 1 \div 2 = 0 /\ a + 0 = a /\ a \in (a - 1)..8 /\ a \in 1..9 /\ a - a = 0
      OBVIOUS
    <2>2. /\ Written(w, a, a) \in Seq(Sign)
          /\ Len(Written(w, a, a)) = IF a <= a THEN 2 * (a - a) + 1 ELSE 0
      BY <2>1, WrittenType
    <2>3. Len(Written(w, a, a)) = 1
      BY <2>1, <2>2
    <2>4. Written(w, a, a)[1] = IF 1 % 2 = 0 THEN Colon ELSE w[a + (1 \div 2)]
      <3>1. 1 \in 1..Len(Written(w, a, a))
        BY <2>3
      <3>2. QED
        BY <2>1, <3>1, WrittenType
    <2>5. QED
      BY <2>1, <2>2, <2>3, <2>4
  <1>2. <<w[a]>> \in Seq(Sign) /\ Len(<<w[a]>>) = 1 /\ <<w[a]>>[1] = w[a]
    BY DEF Sign
  <1>3. \A p \in 1..1 : p = 1
    OBVIOUS
  <1>4. QED
    BY <1>1, <1>2, <1>3, SeqEqual

LEMMA WrittenMore ==
    ASSUME NEW w \in [1..8 -> Word], NEW a \in 1..8, NEW b \in a..7
    PROVE  Written(w, a, b + 1) = Written(w, a, b) \o <<Colon, w[b + 1]>>
  <1> DEFINE t == Written(w, a, b)
             u == Written(w, a, b + 1)
             n == 2 * (b - a) + 1
             c == <<Colon, w[b + 1]>>
  <1>1. /\ a \in 1..9 /\ b \in (a - 1)..8 /\ b + 1 \in (a - 1)..8 /\ a <= b /\ a <= b + 1
        /\ n \in Nat /\ 2 * ((b + 1) - a) + 1 = n + 2
    OBVIOUS
  <1>2. /\ t \in Seq(Sign) /\ Len(t) = n
        /\ \A p \in 1..n : t[p] = IF p % 2 = 0 THEN Colon ELSE w[a + (p \div 2)]
    BY <1>1, WrittenType
  <1>3. /\ u \in Seq(Sign) /\ Len(u) = n + 2
        /\ \A p \in 1..(n + 2) : u[p] = IF p % 2 = 0 THEN Colon ELSE w[a + (p \div 2)]
    <2>1. PICK m \in (a - 1)..8 : m = b + 1 /\ a <= m /\ 2 * (m - a) + 1 = n + 2
      BY <1>1
    <2>2. /\ Written(w, a, m) \in Seq(Sign) /\ Len(Written(w, a, m)) = n + 2
          /\ \A p \in 1..Len(Written(w, a, m)) :
                Written(w, a, m)[p] = IF p % 2 = 0 THEN Colon ELSE w[a + (p \div 2)]
      BY <1>1, <2>1, WrittenType
    <2> HIDE DEF n
    <2>3. QED
      BY <2>1, <2>2
  <1>4. c \in Seq(Sign) /\ Len(c) = 2 /\ c[1] = Colon /\ c[2] = w[b + 1]
    <2>1. w[b + 1] \in Word
      OBVIOUS
    <2>2. QED
      BY <2>1 DEF Sign
  <1>5. /\ (n + 1) % 2 = 0
        /\ (n + 2) % 2 = 1 /\ a + ((n + 2) \div 2) = b + 1
    OBVIOUS
  <1> HIDE DEF t, u, n, c
  <1>6. /\ t \o c \in Seq(Sign) /\ Len(t \o c) = n + 2
        /\ \A p \in 1..(n + 2) : (t \o c)[p] = IF p <= n THEN t[p] ELSE c[p - n]
    <2>1. /\ t \o c \in Seq(Sign) /\ Len(t \o c) = Len(t) + Len(c)
          /\ \A p \in 1..(Len(t) + Len(c)) :
                (t \o c)[p] = IF p <= Len(t) THEN t[p] ELSE c[p - Len(t)]
      BY <1>2, <1>4, ConcatProperties
    <2>2. QED
      BY <1>2, <1>4, <2>1
  <1>7. ASSUME NEW p \in 1..(n + 2)
        PROVE  u[p] = (t \o c)[p]
    <2>1. CASE p \in 1..n
      <3>1. p <= n /\ p \in 1..(n + 2)
        BY <1>1, <2>1
      <3>2. (t \o c)[p] = t[p]
        BY <1>6, <3>1
      <3>3. u[p] = IF p % 2 = 0 THEN Colon ELSE w[a + (p \div 2)]
        BY <1>3, <3>1
      <3>4. t[p] = IF p % 2 = 0 THEN Colon ELSE w[a + (p \div 2)]
        BY <1>2, <2>1
      <3>5. QED
        BY <3>2, <3>3, <3>4
    <2>2. CASE p = n + 1
      <3>1. ~ (p <= n) /\ p - n = 1 /\ p % 2 = 0
        BY <1>1, <1>5, <2>2
      <3>2. QED
        BY <1>3, <1>4, <1>6, <3>1
    <2>3. CASE p = n + 2
      <3>1. ~ (p <= n) /\ p - n = 2 /\ p % 2 = 1 /\ a + (p \div 2) = b + 1
        BY <1>1, <1>5, <2>3
      <3>2. QED
        BY <1>3, <1>4, <1>6, <3>1
    <2>4. p \in 1..n \/ p = n + 1 \/ p = n + 2
      BY <1>1
    <2>5. QED
      BY <2>1, <2>2, <2>3, <2>4
  <1>8. u = t \o c
    BY <1>3, <1>6, <1>7, SeqEqual
  <1>9. QED
    BY <1>8 DEF t, u, c

\* What the builder holds after i words if z is left out.
Built(w, z, i) ==
    IF z = None \/ i < z.start THEN Written(w, 1, i)
    ELSE IF i < z.end THEN Written(w, 1, z.start - 1)
    ELSE IF i = z.end THEN Written(w, 1, z.start - 1) \o <<Colon>>
    ELSE Written(w, 1, z.start - 1) \o <<Colon>> \o (<<Colon>> \o Written(w, z.end + 1, i))

\* A run of words that may be left out.
Skipped(z) == z \in Run /\ (z # None => z.start >= 1 /\ z.start <= z.end)

\* What is built is a text.
LEMMA BuiltType ==
    ASSUME NEW w \in [1..8 -> Word], NEW z, Skipped(z), NEW i \in 0..8
    PROVE  Built(w, z, i) \in Seq(Sign)
  <1>1. <<Colon>> \in Seq(Sign)
    BY DEF Sign
  <1>2. 1 \in 1..9 /\ i \in (1 - 1)..8
    OBVIOUS
  <1>3. Written(w, 1, i) \in Seq(Sign)
    BY <1>2, WrittenType
  <1>4. CASE z = None
    BY <1>3, <1>4 DEF Built
  <1>5. CASE z # None
    <2>1. z.start \in 1..8 /\ z.end \in z.start..8 /\ z.start - 1 \in (1 - 1)..8
      BY <1>5, PartsOfRun DEF Skipped
    <2>2. Written(w, 1, z.start - 1) \in Seq(Sign)
      BY <1>2, <2>1, WrittenType
    <2>3. Written(w, 1, z.start - 1) \o <<Colon>> \in Seq(Sign)
      BY <1>1, <2>2, ConcatProperties
    <2>4. i > z.end => Written(w, z.end + 1, i) \in Seq(Sign)
      <3>1. i > z.end => z.end + 1 \in 1..9 /\ i \in ((z.end + 1) - 1)..8
        BY <2>1
      <3>2. QED
        BY <3>1, WrittenType
    <2>5. i > z.end => <<Colon>> \o Written(w, z.end + 1, i) \in Seq(Sign)
      BY <1>1, <2>4, ConcatProperties
    <2>6. i > z.end => Written(w, 1, z.start - 1) \o <<Colon>> \o (<<Colon>> \o Written(w, z.end + 1, i))
                           \in Seq(Sign)
      BY <2>3, <2>5, ConcatProperties
    <2>7. i < z.end \/ i = z.end \/ i > z.end
      BY <2>1
    <2>8. QED
      BY <1>3, <1>5, <2>2, <2>3, <2>6, <2>7 DEF Built
  <1>6. QED
    BY <1>4, <1>5

\* One word more, outside what is left out.
LEMMA WordAppended ==
    ASSUME NEW w \in [1..8 -> Word], NEW i \in 1..8
    PROVE  Written(w, 1, i) = Written(w, 1, i - 1) \o (IF i > 1 THEN <<Colon, w[i]>> ELSE <<w[i]>>)
  <1>1. CASE i = 1
    <2>1. Written(w, 1, 1) = <<w[1]>>
      BY WrittenOne
    <2>2. Written(w, 1, 1 - 1) = << >>
      BY WrittenNone
    <2>3. <<w[1]>> \in Seq(Sign)
      BY DEF Sign
    <2>4. << >> \o <<w[1]>> = <<w[1]>>
      BY <2>3, ConcatEmptySeq
    <2>5. ~ (1 > 1)
      OBVIOUS
    <2>6. QED
      BY <1>1, <2>1, <2>2, <2>4, <2>5, Zenon
  <1>2. CASE i > 1
    <2>1. PICK b \in 1..7 : i = b + 1 /\ i - 1 = b
      BY <1>2, SMTT(60)
    <2>2. Written(w, 1, b + 1) = Written(w, 1, b) \o <<Colon, w[b + 1]>>
      <3>1. 1 \in 1..8
        OBVIOUS
      <3>2. QED
        BY <3>1, WrittenMore
    <2>3. QED
      BY <1>2, <2>1, <2>2, Zenon
  <1>3. i = 1 \/ i > 1
    OBVIOUS
  <1>4. QED
    BY <1>1, <1>2, <1>3

\* A colon and what follows.
LEMMA ColonAndSign ==
    ASSUME NEW x \in Sign
    PROVE  <<Colon>> \o <<x>> = <<Colon, x>>
  <1>1. /\ <<Colon>> \in Seq(Sign) /\ <<x>> \in Seq(Sign) /\ x \in Sign
    BY DEF Sign
  <1>2. Append(<<Colon>>, x) = <<Colon>> \o <<x>>
    BY <1>1, AppendIsConcat
  <1>3. <<Colon, x>> \in Seq(Sign) /\ Len(<<Colon, x>>) = 2
    BY <1>1
  <1>4. Append(<<Colon>>, x) \in Seq(Sign) /\ Len(Append(<<Colon>>, x)) = 2
    BY <1>1
  <1>5. \A p \in 1..2 : Append(<<Colon>>, x)[p] = <<Colon, x>>[p]
    <2>1. Append(<<Colon>>, x)[1] = Colon /\ Append(<<Colon>>, x)[2] = x
      BY <1>1
    <2>2. \A p \in 1..2 : p = 1 \/ p = 2
      OBVIOUS
    <2>3. QED
      BY <2>1, <2>2
  <1>6. QED
    BY <1>2, <1>3, <1>4, <1>5, SeqEqual

\* What is put together in one order is the same in another.
LEMMA Grouped ==
    ASSUME NEW x \in Seq(Sign), NEW y \in Seq(Sign), NEW c \in Seq(Sign)
    PROVE  x \o (y \o c) = (x \o y) \o c
  BY ConcatAssociative

LEMMA ColonsBetween ==
    \A p, t, c \in Seq(Sign) :
        (p \o <<Colon>>) \o (<<Colon>> \o (t \o c)) = ((p \o <<Colon>>) \o (<<Colon>> \o t)) \o c
  <1> SUFFICES ASSUME NEW p \in Seq(Sign), NEW t \in Seq(Sign), NEW c \in Seq(Sign)
               PROVE  (p \o <<Colon>>) \o (<<Colon>> \o (t \o c))
                          = ((p \o <<Colon>>) \o (<<Colon>> \o t)) \o c
    OBVIOUS
  <1>1. <<Colon>> \in Seq(Sign)
    BY DEF Sign
  <1>2. p \o <<Colon>> \in Seq(Sign) /\ <<Colon>> \o t \in Seq(Sign)
    BY <1>1, ConcatProperties
  <1>3. <<Colon>> \o (t \o c) = (<<Colon>> \o t) \o c
    BY <1>1, Grouped, Zenon
  <1>4. (p \o <<Colon>>) \o ((<<Colon>> \o t) \o c)
            = ((p \o <<Colon>>) \o (<<Colon>> \o t)) \o c
    BY <1>2, Grouped, ZenonT(60)
  <1>5. QED
    BY <1>3, <1>4, Zenon

\* A turn of the loop.
LEMMA BuiltOneMore ==
    ASSUME NEW w \in [1..8 -> Word], NEW z, Skipped(z), NEW i \in 1..8
    PROVE  Built(w, z, i) = Built(w, z, i - 1) \o Part(w, z, i)
  <1>1. CASE z = None
    <2>1. Built(w, z, i) = Written(w, 1, i) /\ Built(w, z, i - 1) = Written(w, 1, i - 1)
      BY <1>1 DEF Built
    <2>2. Part(w, z, i) = IF i > 1 THEN <<Colon, w[i]>> ELSE <<w[i]>>
      BY <1>1 DEF Part
    <2>3. QED
      BY <2>1, <2>2, WordAppended
  <1>2. CASE z # None
    <2> DEFINE a == z.start
               e == z.end
               before == Written(w, 1, a - 1)
    <2>1. a \in 1..8 /\ e \in a..8
      BY <1>2, PartsOfRun DEF Skipped
    <2>2. before \in Seq(Sign) /\ <<Colon>> \in Seq(Sign)
      <3>1. 1 \in 1..9 /\ a - 1 \in (1 - 1)..8
        BY <2>1
      <3>2. before \in Seq(Sign)
        BY <3>1, WrittenType
      <3>3. <<Colon>> \in Seq(Sign)
        BY DEF Sign
      <3>4. QED
        BY <3>2, <3>3
    <2>3. before \o <<Colon>> \in Seq(Sign)
      BY <2>2, ConcatProperties
    <2> HIDE DEF before
    <2>4. CASE i < a
      <3>1. Built(w, z, i) = Written(w, 1, i) /\ Built(w, z, i - 1) = Written(w, 1, i - 1)
        BY <2>1, <2>4 DEF Built
      <3>2. Part(w, z, i) = IF i > 1 THEN <<Colon, w[i]>> ELSE <<w[i]>>
        BY <2>1, <2>4 DEF Part
      <3>3. QED
        BY <3>1, <3>2, WordAppended
    <2>5. CASE a <= i /\ i <= e
      <3>1. Built(w, z, i - 1) = before
        <4>1. CASE i = a
          BY <1>2, <2>1, <4>1 DEF Built, before
        <4>2. CASE i > a
          BY <1>2, <2>1, <2>5, <4>2 DEF Built, before
        <4>3. QED
          BY <2>1, <2>5, <4>1, <4>2
      <3>2. CASE i < e
        <4>1. Built(w, z, i) = before
          BY <1>2, <2>1, <2>5, <3>2 DEF Built, before
        <4>2. Part(w, z, i) = << >>
          BY <1>2, <2>1, <2>5, <3>2 DEF Part
        <4>3. before \o << >> = before
          BY <2>2, ConcatEmptySeq
        <4>4. QED
          BY <3>1, <4>1, <4>2, <4>3
      <3>3. CASE i = e
        <4>1. Built(w, z, i) = before \o <<Colon>>
          BY <1>2, <2>1, <2>5, <3>3 DEF Built, before
        <4>2. Part(w, z, i) = <<Colon>>
          BY <1>2, <2>1, <2>5, <3>3 DEF Part
        <4>3. QED
          BY <3>1, <4>1, <4>2
      <3>4. QED
        BY <2>1, <2>5, <3>2, <3>3
    <2>6. CASE i > e
      <3>1. Built(w, z, i) = before \o <<Colon>> \o (<<Colon>> \o Written(w, e + 1, i))
        <4>1. ~ (i < a) /\ ~ (i < e) /\ i # e
          BY <2>1, <2>6
        <4>2. QED
          BY <1>2, <4>1, Zenon DEF Built, before
      <3>2. Part(w, z, i) = <<Colon, w[i]>>
        BY <2>1, <2>6 DEF Part
      <3>3. <<Colon, w[i]>> \in Seq(Sign) /\ <<w[i]>> \in Seq(Sign)
        <4>1. w[i] \in Word
          OBVIOUS
        <4>2. QED
          BY <4>1 DEF Sign
      <3>4. CASE i = e + 1
        <4>1. Built(w, z, i - 1) = before \o <<Colon>>
          <5>1. i - 1 = e
            BY <2>1, <3>4
          <5>2. QED
            BY <1>2, <2>1, <5>1 DEF Built, before
        <4>2. Written(w, e + 1, i) = <<w[i]>>
          BY <3>4, WrittenOne
        <4>3. <<Colon>> \o <<w[i]>> = <<Colon, w[i]>>
          BY ColonAndSign DEF Sign
        <4>4. QED
          BY <3>1, <3>2, <4>1, <4>2, <4>3
      <3>5. CASE i > e + 1
        <4> DEFINE after == Written(w, e + 1, i - 1)
        <4>1. e + 1 \in 1..8 /\ i - 1 \in (e + 1)..7 /\ (i - 1) + 1 = i
              /\ e + 1 \in 1..9 /\ i - 1 \in ((e + 1) - 1)..8
          BY <2>1, <3>5
        <4>2. Built(w, z, i - 1) = before \o <<Colon>> \o (<<Colon>> \o after)
          <5>1. i - 1 > e
            BY <2>1, <3>5
          <5>2. ~ (i - 1 < a) /\ ~ (i - 1 < e) /\ i - 1 # e
            BY <2>1, <5>1
          <5>3. QED
            BY <1>2, <5>2, Zenon DEF Built, before
        <4>3. after \in Seq(Sign) /\ <<Colon>> \o after \in Seq(Sign)
          BY <2>2, <4>1, WrittenType, ConcatProperties
        <4>4. Written(w, e + 1, i) = after \o <<Colon, w[i]>>
          <5>1. Written(w, e + 1, (i - 1) + 1) = after \o <<Colon, w[(i - 1) + 1]>>
            BY <4>1, WrittenMore
          <5>2. QED
            BY <4>1, <5>1
        <4> HIDE DEF after
        <4>5. (before \o <<Colon>>) \o (<<Colon>> \o (after \o <<Colon, w[i]>>))
                  = ((before \o <<Colon>>) \o (<<Colon>> \o after)) \o <<Colon, w[i]>>
          BY <2>2, <3>3, <4>3, ColonsBetween, ZenonT(60)
        <4>6. QED
          BY <3>1, <3>2, <4>2, <4>4, <4>5, Zenon
      <3>6. QED
        BY <2>1, <2>6, <3>4, <3>5, SMTT(60)
    <2>7. QED
      BY <2>1, <2>4, <2>5, <2>6, SMTT(60)
  <1>3. QED
    BY <1>1, <1>2

\* A colon is a text, and two colons are put together of one and one.
LEMMA SignIsText == <<Colon>> \in Seq(Sign)
  BY DEF Sign

LEMMA TwoColons ==
    \A p, t \in Seq(Sign) : p \o <<Colon, Colon>> \o t = (p \o <<Colon>>) \o (<<Colon>> \o t)
  <1> SUFFICES ASSUME NEW p \in Seq(Sign), NEW t \in Seq(Sign)
               PROVE  p \o <<Colon, Colon>> \o t = (p \o <<Colon>>) \o (<<Colon>> \o t)
    OBVIOUS
  <1>1. p \o <<Colon>> \in Seq(Sign)
    BY SignIsText, ConcatProperties
  <1>2. (p \o <<Colon>>) \o (<<Colon>> \o t) = ((p \o <<Colon>>) \o <<Colon>>) \o t
    BY <1>1, SignIsText, Grouped, Zenon
  <1>3. p \o (<<Colon>> \o <<Colon>>) = (p \o <<Colon>>) \o <<Colon>>
    BY SignIsText, Grouped, Zenon
  <1>4. <<Colon>> \o <<Colon>> = <<Colon, Colon>>
    BY ColonAndSign DEF Sign
  <1>5. QED
    BY <1>2, <1>3, <1>4, Zenon

\* What the builder holds at last.
LEMMA HostTextLemma ==
    ASSUME NEW w \in [1..8 -> Word]
    PROVE  HostText(w) = Built(w, Zeroes(w), 8) \o (IF EndsInZeroes(w) THEN <<Colon>> ELSE << >>)
  <1> DEFINE z == Zeroes(w)
             Turns(s) == s = [i \in 0..8 |-> IF i = 0 THEN << >> ELSE s[i - 1] \o Part(w, z, i)]
             f == [i \in 0..8 |-> Built(w, z, i)]
  <1>1. Skipped(z)
    <2>1. z \in Run /\ BestUpTo(w, z, 8)
      BY ZeroesLemma
    <2> HIDE DEF z
    <2>2. z # None => z.start \in 1..8 /\ z.start <= z.end
      BY <2>1 DEF BestUpTo, ZeroRun
    <2>3. QED
      BY <2>1, <2>2 DEF Skipped
  <1> HIDE DEF z
  <1>2. Built(w, z, 0) = << >>
    <2>1. z = None \/ 0 < z.start
      BY <1>1, PartsOfRun DEF Skipped
    <2>2. Built(w, z, 0) = Written(w, 1, 0)
      BY <2>1 DEF Built
    <2>3. Written(w, 1, 1 - 1) = << >> /\ 1 - 1 = 0
      BY WrittenNone
    <2>4. QED
      BY <2>2, <2>3
  <1>3. Turns(f)
    <2>1. ASSUME NEW i \in 0..8
          PROVE  f[i] = IF i = 0 THEN << >> ELSE f[i - 1] \o Part(w, z, i)
      <3>1. CASE i = 0
        BY <1>2, <3>1
      <3>2. CASE i # 0
        <4>1. i \in 1..8 /\ i - 1 \in 0..8
          BY <3>2
        <4>2. f[i] = Built(w, z, i) /\ f[i - 1] = Built(w, z, i - 1)
          BY <4>1
        <4>3. Built(w, z, i) = Built(w, z, i - 1) \o Part(w, z, i)
          BY <1>1, <4>1, BuiltOneMore, ZenonT(60)
        <4>4. QED
          BY <3>2, <4>2, <4>3
      <3>3. QED
        BY <3>1, <3>2
    <2> HIDE DEF f
    <2>2. f = [i \in 0..8 |-> f[i]]
      BY DEF f
    <2>3. QED
      BY <2>1, <2>2
  <1>4. PICK s : /\ Turns(s)
                 /\ HostText(w) = s[8] \o (IF EndsInZeroes(w) THEN <<Colon>> ELSE << >>)
    <2>1. Turns(CHOOSE s : Turns(s))
      BY <1>3
    <2>2. HostText(w) = (CHOOSE s : Turns(s))[8] \o (IF EndsInZeroes(w) THEN <<Colon>> ELSE << >>)
      BY DEF HostText, z
    <2>3. QED
      BY <2>1, <2>2, ZenonT(60)
  <1>5. \A i \in 0..8 : s[i] = IF i = 0 THEN << >> ELSE s[i - 1] \o Part(w, z, i)
    <2>1. s = [i \in 0..8 |-> IF i = 0 THEN << >> ELSE s[i - 1] \o Part(w, z, i)]
      BY <1>4, Zenon
    <2> HIDE DEF Turns
    <2>2. QED
      BY <2>1, Zenon
  <1> HIDE DEF Turns, f
  <1>6. s[0] = Built(w, z, 0)
    BY <1>2, <1>5
  <1>7. ASSUME NEW i \in 1..8, s[i - 1] = Built(w, z, i - 1)
        PROVE  s[i] = Built(w, z, i)
    <2>1. Built(w, z, i) = Built(w, z, i - 1) \o Part(w, z, i)
      BY <1>1, BuiltOneMore
    <2>2. i \in 0..8 /\ i # 0
      OBVIOUS
    <2>3. QED
      BY <1>5, <1>7, <2>1, <2>2, Zenon
  <1>8. s[8] = Built(w, z, 8)
    <2> DEFINE Same(i) == s[i] = Built(w, z, i)
    <2>1. Same(0)
      BY <1>6
    <2>2. \A i \in 1..8 : Same(i - 1) => Same(i)
      BY <1>7
    <2> HIDE DEF Same
    <2>3. Same(1) /\ Same(2) /\ Same(3) /\ Same(4)
      BY <2>1, <2>2
    <2>4. Same(5) /\ Same(6) /\ Same(7) /\ Same(8)
      BY <2>2, <2>3, SMTT(60)
    <2>5. QED
      BY <2>4 DEF Same
  <1>9. QED
    BY <1>4, <1>8 DEF z

\* The text of an address is all of its words, or those around the first of the longest
\* runs of zeros.
LEMMA TextOfAddress ==
    ASSUME NEW w \in [1..8 -> Word]
    PROVE  IF \A i \in 1..8 : w[i] # 0
           THEN HostText(w) = Written(w, 1, 8)
           ELSE \E first, last \in 1..8 :
                   /\ FirstLongest(w, first, last)
                   /\ HostText(w) = Written(w, 1, first - 1) \o <<Colon, Colon>>
                                    \o Written(w, last + 1, 8)
  <1>1. PICK z \in Run : z = Zeroes(w) /\ BestUpTo(w, z, 8)
    BY ZeroesLemma
  <1>2. z \in Run
    BY <1>1
  <1>3. HostText(w) = Built(w, z, 8) \o (IF z.end = 8 THEN <<Colon>> ELSE << >>)
    BY <1>1, HostTextLemma DEF EndsInZeroes
  <1>4. CASE z = None
    <2>1. \A i \in 1..8 : w[i] # 0
      BY <1>1, <1>4 DEF BestUpTo
    <2>2. z.end # 8
      BY <1>4 DEF None
    <2>3. Built(w, z, 8) = Written(w, 1, 8)
      BY <1>4 DEF Built
    <2>4. Written(w, 1, 8) \in Seq(Sign)
      <3>1. 1 \in 1..9 /\ 8 \in (1 - 1)..8
        OBVIOUS
      <3>2. QED
        BY <3>1, WrittenType
    <2>5. HostText(w) = Written(w, 1, 8)
      BY <1>3, <2>2, <2>3, <2>4, ConcatEmptySeq, SMTT(60)
    <2>6. QED
      BY <2>1, <2>5
  <1>5. CASE z # None
    <2> DEFINE a == z.start
               e == z.end
               before == Written(w, 1, a - 1)
               after == Written(w, e + 1, 8)
    <2>1. a \in 1..8 /\ e \in 1..8 /\ a <= e /\ ZeroRun(w, a, e)
      BY <1>1, <1>5 DEF BestUpTo, ZeroRun
    <2>2. FirstLongest(w, a, e)
      <3>1. \A i, j \in 1..8 : ZeroRun(w, i, j) =>
                \/ j - i < e - a
                \/ j - i = e - a /\ a <= i
        BY <1>1, <1>5 DEF BestUpTo
      <3> HIDE DEF a, e
      <3>2. QED
        BY <2>1, <3>1 DEF FirstLongest
    <2>3. ~ \A i \in 1..8 : w[i] # 0
      <3>1. w[a] = 0
        BY <2>1 DEF ZeroRun
      <3>2. QED
        BY <2>1, <3>1
    <2>4. before \in Seq(Sign) /\ after \in Seq(Sign)
      <3>1. /\ 1 \in 1..9 /\ a - 1 \in (1 - 1)..8
            /\ e + 1 \in 1..9 /\ 8 \in ((e + 1) - 1)..8
        BY <2>1
      <3>2. QED
        BY <3>1, WrittenType
    <2>5. before \o <<Colon, Colon>> \o after = (before \o <<Colon>>) \o (<<Colon>> \o after)
      BY <2>4, TwoColons, Zenon
    <2>6. ~ (8 < a) /\ ~ (8 < e)
      BY <2>1, SMTT(60)
    <2>7. CASE e = 8
      <3>1. Built(w, z, 8) = before \o <<Colon>>
        BY <1>5, <2>6, <2>7, Zenon DEF Built
      <3>2. after = << >>
        <4>1. e + 1 = 9 /\ 9 \in 1..9 /\ 9 - 1 = 8
          BY <2>7
        <4>2. QED
          BY <4>1, WrittenNone
      <3>3. <<Colon>> \o << >> = <<Colon>>
        BY SignIsText, ConcatEmptySeq
      <3> HIDE DEF before, after
      <3>4. HostText(w) = (before \o <<Colon>>) \o (<<Colon>> \o after)
        BY <1>3, <2>7, <3>1, <3>2, <3>3, Zenon
      <3>5. QED
        BY <2>1, <2>2, <2>3, <2>5, <3>4 DEF before, after
    <2>8. CASE e # 8
      <3>1. Built(w, z, 8) = before \o <<Colon>> \o (<<Colon>> \o after)
        BY <1>5, <2>6, <2>8, Zenon DEF Built
      <3>2. Built(w, z, 8) \in Seq(Sign)
        <4>1. Skipped(z) /\ 8 \in 0..8
          BY <1>2, <2>1 DEF Skipped
        <4>2. QED
          BY <4>1, BuiltType
      <3>3. HostText(w) = Built(w, z, 8)
        BY <1>3, <2>8, <3>2, ConcatEmptySeq
      <3> HIDE DEF before, after
      <3>4. HostText(w) = (before \o <<Colon>>) \o (<<Colon>> \o after)
        BY <3>1, <3>3, Zenon
      <3>5. QED
        BY <2>1, <2>2, <2>3, <2>5, <3>4 DEF before, after
    <2>9. QED
      BY <2>7, <2>8
  <1>6. QED
    BY <1>4, <1>5

\* The words of an address are taken as they are.
TextTaken == value.kind = "text" => value.words \in [1..8 -> Word]

LEMMA TextTakenLemma == Spec => []TextTaken
  <1>1. Init => TextTaken
    BY DEF Init, Nothing, TextTaken
  <1>2. TextTaken /\ [Next]_vars => TextTaken'
    <2> SUFFICES ASSUME TextTaken, [Next]_vars
                 PROVE  TextTaken'
      OBVIOUS
    <2>1. CASE TakeText
      BY <2>1, ValuesAssumption DEF TakeText, Take, TextTaken, ValuesAssumption
    <2>2. CASE TakeIPv4 \/ TakeIPv6 \/ TakeScope
      BY <2>2 DEF TakeIPv4, TakeIPv6, TakeScope, Take, TextTaken
    <2>3. CASE TakeMacText \/ TakeMacData \/ TakeMask
      BY <2>3 DEF TakeMacText, TakeMacData, TakeMask, Take, TextTaken
    <2>4. CASE TakeFlags \/ TakeSystem
      BY <2>4 DEF TakeFlags, TakeSystem, Take, TextTaken
    <2>5. CASE TakeLists \/ PutBack
      BY <2>5 DEF TakeLists, PutBack, Nothing, TextTaken
    <2>6. CASE CallNext \/ UNCHANGED vars
      BY <2>6 DEF CallNext, vars, TextTaken
    <2>7. QED
      BY <2>1, <2>2, <2>3, <2>4, <2>5, <2>6 DEF Next
  <1>3. QED
    BY <1>1, <1>2, PTL DEF Spec

\* Whatever its words, the text of an IPv6 address in Java denotes it; and it is the text
\* of RFC 5952 unless all zeros stand alone.
THEOREM TextAlwaysDenotesAddress == Spec => []TextDenotesAddress
  <1>1. TextTaken => TextDenotesAddress
    <2> SUFFICES ASSUME TextTaken, value.kind = "text"
                 PROVE  TextDenotesAddress
      BY DEF TextDenotesAddress
    <2>1. PICK w \in [1..8 -> Word] : w = value.words
      BY DEF TextTaken
    <2>2. CASE \A i \in 1..8 : w[i] # 0
      <3>1. HostText(w) = Written(w, 1, 8)
        BY <2>2, TextOfAddress, Zenon
      <3>2. ~ \E i \in 1..7 : ZeroRun(w, i, i + 1)
        BY <2>2 DEF ZeroRun
      <3>3. Canonical(w, HostText(w))
        BY <3>1, <3>2, Zenon DEF Canonical
      <3>4. QED
        BY <2>1, <3>1, <3>3, Zenon DEF TextDenotesAddress
    <2>3. CASE ~ \A i \in 1..8 : w[i] # 0
      <3>1. PICK first \in 1..8, last \in 1..8 :
                /\ FirstLongest(w, first, last)
                /\ HostText(w) = Written(w, 1, first - 1) \o <<Colon, Colon>>
                                 \o Written(w, last + 1, 8)
        BY <2>3, TextOfAddress, Zenon
      <3>2. HostText(w) = Shortened(w, first, last)
        BY <3>1, Zenon DEF Shortened
      <3>3. ZeroRun(w, first, last)
        BY <3>1, Zenon DEF FirstLongest
      <3>4. (\E i \in 1..7 : ZeroRun(w, i, i + 1)) => Canonical(w, HostText(w))
        BY <3>1, <3>2, Zenon DEF Canonical
      <3>5. QED
        BY <2>1, <2>3, <3>2, <3>3, <3>4, Zenon DEF TextDenotesAddress
    <2>4. QED
      BY <2>2, <2>3
  <1>2. QED
    BY <1>1, TextTakenLemma, PTL

-----------------------------------------------------------------------------
(* Where texts are not what they should be. *)

\* The first words of an address, written.
LEMMA WrittenFirst ==
    ASSUME NEW w \in [1..8 -> Word], NEW m \in 0..8
    PROVE  /\ Len(Written(w, 1, m)) = IF m = 0 THEN 0 ELSE 2 * m - 1
           /\ \A f \in 1..m : Written(w, 1, m)[2 * f - 1] = w[f]
  <1>1. PICK a \in 1..9 : a = 1 /\ m \in (a - 1)..8
    OBVIOUS
  <1>2. /\ Written(w, a, m) \in Seq(Sign)
        /\ Len(Written(w, a, m)) = IF a <= m THEN 2 * (m - a) + 1 ELSE 0
        /\ \A p \in 1..Len(Written(w, a, m)) :
              Written(w, a, m)[p] = IF p % 2 = 0 THEN Colon ELSE w[a + (p \div 2)]
    BY <1>1, WrittenType
  <1>3. Len(Written(w, 1, m)) = IF m = 0 THEN 0 ELSE 2 * m - 1
    BY <1>1, <1>2
  <1>4. ASSUME NEW f \in 1..m
        PROVE  Written(w, 1, m)[2 * f - 1] = w[f]
    <2>1. PICK q \in 1..(2 * m - 1) : q = 2 * f - 1 /\ q % 2 = 1 /\ 1 + (q \div 2) = f
      OBVIOUS
    <2>2. m # 0
      OBVIOUS
    <2>3. q \in 1..Len(Written(w, a, m))
      BY <1>1, <1>3, <2>1, <2>2
    <2>4. Written(w, a, m)[q] = IF q % 2 = 0 THEN Colon ELSE w[a + (q \div 2)]
      BY <1>2, <2>3, Zenon
    <2>5. Written(w, a, m)[q] = w[f]
      BY <1>1, <2>1, <2>4
    <2>6. QED
      BY <1>1, <2>1, <2>5
  <1>5. QED
    BY <1>3, <1>4

\* Two colons for one word leave a colon where the text would have the word.
LEMMA ShortenedIsShort ==
    ASSUME NEW w \in [1..8 -> Word], NEW f \in 1..8, w[f] = 0
    PROVE  Shortened(w, f, f) # Written(w, 1, 8)
  <1> DEFINE a == Written(w, 1, f - 1)
             c == <<Colon, Colon>>
             b == Written(w, f + 1, 8)
             q == 2 * f - 1
  <1>1. /\ 1 \in 1..9 /\ f - 1 \in (1 - 1)..8 /\ 8 \in (1 - 1)..8
        /\ f + 1 \in 1..9 /\ 8 \in ((f + 1) - 1)..8
    OBVIOUS
  <1>2. a \in Seq(Sign) /\ b \in Seq(Sign)
    BY <1>1, WrittenType
  <1>3. Len(a) = IF f = 1 THEN 0 ELSE 2 * f - 3
    <2>1. PICK m \in 0..8 : m = f - 1
      OBVIOUS
    <2>2. Len(Written(w, 1, m)) = IF m = 0 THEN 0 ELSE 2 * m - 1
      BY WrittenFirst, Zenon
    <2>3. QED
      BY <2>1, <2>2
  <1>4. c \in Seq(Sign) /\ Len(c) = 2 /\ c[1] = Colon /\ c[2] = Colon
    BY DEF Sign
  <1>5. q - Len(a) \in 1..2
    BY <1>3
  <1>6. (a \o c \o b)[q] = Colon
    <2> HIDE DEF a, b, c
    <2>1. /\ a \o c \in Seq(Sign) /\ Len(a \o c) = Len(a) + Len(c)
          /\ \A i \in 1..(Len(a) + Len(c)) :
                (a \o c)[i] = IF i <= Len(a) THEN a[i] ELSE c[i - Len(a)]
      BY <1>2, <1>4, ConcatProperties
    <2>2. Len(a) \in Nat /\ Len(b) \in Nat
      BY <1>2, LenProperties
    <2>3. q \in 1..(Len(a) + 2) /\ ~ (q <= Len(a))
      BY <1>5, <2>2
    <2>4. (a \o c)[q] = Colon
      BY <1>4, <1>5, <2>1, <2>3
    <2>5. \A i \in 1..(Len(a \o c) + Len(b)) :
             ((a \o c) \o b)[i] = IF i <= Len(a \o c) THEN (a \o c)[i] ELSE b[i - Len(a \o c)]
      BY <1>2, <2>1, ConcatProperties
    <2>6. q \in 1..(Len(a \o c) + Len(b)) /\ q <= Len(a \o c)
      BY <1>4, <2>1, <2>2, <2>3
    <2>7. QED
      BY <2>4, <2>5, <2>6
  <1>7. Written(w, 1, 8)[q] = w[f]
    <2>1. 8 \in 0..8
      OBVIOUS
    <2>2. QED
      BY <2>1, WrittenFirst
  <1>8. Colon # 0
    BY DEF Colon
  <1>9. QED
    BY <1>6, <1>7, <1>8 DEF Shortened

\* The text of RFC 5952, which its documentation promises (InetAddressHelper.java:101),
\* is what Java makes of an IPv6 address if two zeros are next to each other or there is
\* none, and of no other address.
THEOREM TextCanonicalExactly ==
    ASSUME NEW w \in [1..8 -> Word]
    PROVE  Canonical(w, HostText(w)) <=>
               (\E i \in 1..7 : ZeroRun(w, i, i + 1)) \/ (\A i \in 1..8 : w[i] # 0)
  <1>1. CASE \A i \in 1..8 : w[i] # 0
    <2>1. ~ \E i \in 1..7 : ZeroRun(w, i, i + 1)
      BY <1>1 DEF ZeroRun
    <2>2. QED
      BY <1>1, <2>1, TextOfAddress, Zenon DEF Canonical
  <1>2. CASE ~ \A i \in 1..8 : w[i] # 0
    <2>1. PICK first \in 1..8, last \in 1..8 :
              FirstLongest(w, first, last) /\ HostText(w) = Shortened(w, first, last)
      BY <1>2, TextOfAddress, Zenon DEF Shortened
    <2>2. CASE \E i \in 1..7 : ZeroRun(w, i, i + 1)
      BY <2>1, <2>2, Zenon DEF Canonical
    <2>3. CASE ~ \E i \in 1..7 : ZeroRun(w, i, i + 1)
      <3>1. first <= last /\ \A x \in first..last : w[x] = 0
        BY <2>1 DEF FirstLongest, ZeroRun
      <3>2. first = last
        <4>1. SUFFICES ASSUME first < last PROVE FALSE
          BY <3>1
        <4>2. first \in 1..7 /\ ZeroRun(w, first, first + 1)
          BY <3>1, <4>1 DEF ZeroRun
        <4>3. QED
          BY <2>3, <4>2
      <3>3. HostText(w) # Written(w, 1, 8)
        <4>1. w[first] = 0
          BY <3>1
        <4>2. QED
          BY <2>1, <3>2, <4>1, ShortenedIsShort
      <3>4. QED
        BY <1>2, <2>3, <3>3, Zenon DEF Canonical
    <2>4. QED
      BY <2>2, <2>3
  <1>3. QED
    BY <1>1, <1>2

-----------------------------------------------------------------------------
(* Netmasks. *)

\* The powers of two that fit into an octet, and one more.
LEMMA Powers ==
    /\ 2^0 = 1 /\ 2^1 = 2 /\ 2^2 = 4 /\ 2^3 = 8 /\ 2^4 = 16
    /\ 2^5 = 32 /\ 2^6 = 64 /\ 2^7 = 128 /\ 2^8 = 256
  OBVIOUS

\* Of the eight bits of x, one after the other, the k highest are set.
HighBits(x, k) ==
    /\ (x \div 1) % 2 = (IF k >= 8 THEN 1 ELSE 0) /\ (x \div 2) % 2 = (IF k >= 7 THEN 1 ELSE 0)
    /\ (x \div 4) % 2 = (IF k >= 6 THEN 1 ELSE 0) /\ (x \div 8) % 2 = (IF k >= 5 THEN 1 ELSE 0)
    /\ (x \div 16) % 2 = (IF k >= 4 THEN 1 ELSE 0) /\ (x \div 32) % 2 = (IF k >= 3 THEN 1 ELSE 0)
    /\ (x \div 64) % 2 = (IF k >= 2 THEN 1 ELSE 0) /\ (x \div 128) % 2 = (IF k >= 1 THEN 1 ELSE 0)

\* So each of them says.
LEMMA EightBits ==
    ASSUME NEW x \in Nat, NEW k \in 0..8, HighBits(x, k), NEW j \in 0..7
    PROVE  (x \div 2^j) % 2 = IF j + k >= 8 THEN 1 ELSE 0
  <1>1. CASE j = 0
    BY <1>1, Powers DEF HighBits
  <1>2. CASE j = 1
    BY <1>2, Powers DEF HighBits
  <1>3. CASE j = 2
    BY <1>3, Powers DEF HighBits
  <1>4. CASE j = 3
    BY <1>4, Powers DEF HighBits
  <1>5. CASE j = 4
    BY <1>5, Powers DEF HighBits
  <1>6. CASE j = 5
    BY <1>6, Powers DEF HighBits
  <1>7. CASE j = 6
    BY <1>7, Powers DEF HighBits
  <1>8. CASE j = 7
    BY <1>8, Powers DEF HighBits
  <1>9. QED
    BY <1>1, <1>2, <1>3, <1>4, <1>5, <1>6, <1>7, <1>8

\* An octet of a netmask: its k highest bits are set.
LEMMA BitOfMask ==
    ASSUME NEW k \in 0..8, NEW j \in 0..7
    PROVE  ((256 - 2^(8 - k)) \div 2^j) % 2 = IF j + k >= 8 THEN 1 ELSE 0
  <1>1. CASE k = 0
    <2>1. 256 - 2^(8 - k) = 0
      BY <1>1, Powers
    <2>2. 0 \in Nat /\ HighBits(0, k)
      BY <1>1 DEF HighBits
    <2>3. (0 \div 2^j) % 2 = IF j + k >= 8 THEN 1 ELSE 0
      BY <2>2, EightBits, Zenon
    <2>4. QED
      BY <2>1, <2>3
  <1>2. CASE k = 1
    <2>1. 256 - 2^(8 - k) = 128
      BY <1>2, Powers
    <2>2. 128 \in Nat /\ HighBits(128, k)
      BY <1>2 DEF HighBits
    <2>3. (128 \div 2^j) % 2 = IF j + k >= 8 THEN 1 ELSE 0
      BY <2>2, EightBits, Zenon
    <2>4. QED
      BY <2>1, <2>3
  <1>3. CASE k = 2
    <2>1. 256 - 2^(8 - k) = 192
      BY <1>3, Powers
    <2>2. 192 \in Nat /\ HighBits(192, k)
      BY <1>3 DEF HighBits
    <2>3. (192 \div 2^j) % 2 = IF j + k >= 8 THEN 1 ELSE 0
      BY <2>2, EightBits, Zenon
    <2>4. QED
      BY <2>1, <2>3
  <1>4. CASE k = 3
    <2>1. 256 - 2^(8 - k) = 224
      BY <1>4, Powers
    <2>2. 224 \in Nat /\ HighBits(224, k)
      BY <1>4 DEF HighBits
    <2>3. (224 \div 2^j) % 2 = IF j + k >= 8 THEN 1 ELSE 0
      BY <2>2, EightBits, Zenon
    <2>4. QED
      BY <2>1, <2>3
  <1>5. CASE k = 4
    <2>1. 256 - 2^(8 - k) = 240
      BY <1>5, Powers
    <2>2. 240 \in Nat /\ HighBits(240, k)
      BY <1>5 DEF HighBits
    <2>3. (240 \div 2^j) % 2 = IF j + k >= 8 THEN 1 ELSE 0
      BY <2>2, EightBits, Zenon
    <2>4. QED
      BY <2>1, <2>3
  <1>6. CASE k = 5
    <2>1. 256 - 2^(8 - k) = 248
      BY <1>6, Powers
    <2>2. 248 \in Nat /\ HighBits(248, k)
      BY <1>6 DEF HighBits
    <2>3. (248 \div 2^j) % 2 = IF j + k >= 8 THEN 1 ELSE 0
      BY <2>2, EightBits, Zenon
    <2>4. QED
      BY <2>1, <2>3
  <1>7. CASE k = 6
    <2>1. 256 - 2^(8 - k) = 252
      BY <1>7, Powers
    <2>2. 252 \in Nat /\ HighBits(252, k)
      BY <1>7 DEF HighBits
    <2>3. (252 \div 2^j) % 2 = IF j + k >= 8 THEN 1 ELSE 0
      BY <2>2, EightBits, ZenonT(60)
    <2>4. QED
      BY <2>1, <2>3
  <1>8. CASE k = 7
    <2>1. 256 - 2^(8 - k) = 254
      BY <1>8, Powers
    <2>2. 254 \in Nat /\ HighBits(254, k)
      BY <1>8 DEF HighBits
    <2>3. (254 \div 2^j) % 2 = IF j + k >= 8 THEN 1 ELSE 0
      BY <2>2, EightBits, Zenon
    <2>4. QED
      BY <2>1, <2>3
  <1>9. CASE k = 8
    <2>1. 256 - 2^(8 - k) = 255
      BY <1>9, Powers
    <2>2. 255 \in Nat /\ HighBits(255, k)
      BY <1>9 DEF HighBits
    <2>3. (255 \div 2^j) % 2 = IF j + k >= 8 THEN 1 ELSE 0
      BY <2>2, EightBits, Zenon
    <2>4. QED
      BY <2>1, <2>3
  <1>10. QED
    BY <1>1, <1>2, <1>3, <1>4, <1>5, <1>6, <1>7, <1>8, <1>9

\* How many bits of the octet at i a netmask of n bits sets.
InOctet(n, i) == IF n >= 8 * i THEN 8 ELSE IF n <= 8 * (i - 1) THEN 0 ELSE n - 8 * (i - 1)

LEMMA OctetOfMask ==
    ASSUME NEW n \in 0..128, NEW octets \in {4, 16}, NEW i \in 1..octets
    PROVE  /\ InOctet(n, i) \in 0..8
           /\ Mask(n, octets)[i] = 256 - 2^(8 - InOctet(n, i))
           /\ F!Bits(Mask(n, octets)[i]) = {j \in 0..7 : j + InOctet(n, i) >= 8}
  <1>1. octets \in Nat /\ i \in Nat
    OBVIOUS
  <1>2. InOctet(n, i) \in 0..8
    BY <1>1 DEF InOctet
  <1>3. Mask(n, octets)[i] = 256 - 2^(8 - InOctet(n, i))
    BY DEF Mask, InOctet
  <1>4. ASSUME NEW j \in 0..7
        PROVE  ((256 - 2^(8 - InOctet(n, i))) \div 2^j) % 2 = 1 <=> j + InOctet(n, i) >= 8
    <2>1. ((256 - 2^(8 - InOctet(n, i))) \div 2^j) % 2 = IF j + InOctet(n, i) >= 8 THEN 1 ELSE 0
      BY <1>2, BitOfMask
    <2>2. QED
      BY <2>1
  <1>5. F!Bits(256 - 2^(8 - InOctet(n, i))) = {j \in 0..7 : j + InOctet(n, i) >= 8}
    BY <1>4 DEF F!Bits
  <1>6. QED
    BY <1>2, <1>3, <1>5

\* As many bits are counted as are set.
LEMMA OnesOfMask ==
    ASSUME NEW k \in 0..8
    PROVE  F!Ones(256 - 2^(8 - k)) = k
  <1> DEFINE bit(j) == ((256 - 2^(8 - k)) \div 2^j) % 2
             Turns(s) == s = [j \in 0..8 |-> IF j = 0 THEN 0 ELSE s[j - 1] + bit(j - 1)]
             f == [j \in 0..8 |-> IF j + k > 8 THEN j + k - 8 ELSE 0]
  <1>1. ASSUME NEW j \in 1..8
        PROVE  bit(j - 1) = IF j + k > 8 THEN 1 ELSE 0
    <2>1. PICK i \in 0..7 : i = j - 1
      OBVIOUS
    <2>2. bit(i) = IF i + k >= 8 THEN 1 ELSE 0
      BY <2>1, BitOfMask, ZenonT(60)
    <2> HIDE DEF bit
    <2>3. i + k >= 8 <=> j + k > 8
      BY <2>1
    <2>4. QED
      BY <2>1, <2>2, <2>3
  <1> HIDE DEF bit
  <1>2. Turns(f)
    <2>1. ASSUME NEW j \in 0..8
          PROVE  f[j] = IF j = 0 THEN 0 ELSE f[j - 1] + bit(j - 1)
      <3>1. CASE j = 0
        BY <3>1
      <3>2. CASE j # 0
        <4>1. j \in 1..8 /\ j - 1 \in 0..8
          BY <3>2
        <4>2. f[j - 1] = IF (j - 1) + k > 8 THEN (j - 1) + k - 8 ELSE 0
          BY <4>1
        <4>3. f[j] = IF j + k > 8 THEN j + k - 8 ELSE 0
          OBVIOUS
        <4> HIDE DEF f
        <4>4. QED
          BY <1>1, <3>2, <4>1, <4>2, <4>3
      <3>3. QED
        BY <3>1, <3>2
    <2> HIDE DEF f
    <2>2. f = [j \in 0..8 |-> f[j]]
      BY DEF f
    <2>3. QED
      BY <2>1, <2>2
  <1>3. PICK s : Turns(s) /\ F!Ones(256 - 2^(8 - k)) = s[8]
    <2>1. Turns(CHOOSE s : Turns(s))
      BY <1>2
    <2>2. F!Ones(256 - 2^(8 - k)) = (CHOOSE s : Turns(s))[8]
      BY DEF F!Ones, bit
    <2>3. QED
      BY <2>1, <2>2
  <1>4. \A j \in 0..8 : s[j] = IF j = 0 THEN 0 ELSE s[j - 1] + bit(j - 1)
    <2>1. s = [j \in 0..8 |-> IF j = 0 THEN 0 ELSE s[j - 1] + bit(j - 1)]
      BY <1>3, Zenon
    <2> HIDE DEF Turns
    <2>2. QED
      BY <2>1, Zenon
  <1> HIDE DEF Turns
  <1> DEFINE Counted(j) == s[j] = IF j + k > 8 THEN j + k - 8 ELSE 0
  <1>5. Counted(0)
    BY <1>4
  <1>6. ASSUME NEW j \in 1..8, Counted(j - 1)
        PROVE  Counted(j)
    <2>1. s[j] = s[j - 1] + bit(j - 1)
      <3>1. j \in 0..8 /\ j # 0
        OBVIOUS
      <3>2. QED
        BY <1>4, <3>1
    <2>2. s[j - 1] = IF (j - 1) + k > 8 THEN (j - 1) + k - 8 ELSE 0
      BY <1>6
    <2>3. QED
      BY <1>1, <2>1, <2>2
  <1>7. \A j \in 1..8 : Counted(j - 1) => Counted(j)
    BY <1>6
  <1> HIDE DEF Counted
  <1>8. Counted(1) /\ Counted(2) /\ Counted(3) /\ Counted(4)
    BY <1>5, <1>7
  <1>9. Counted(5) /\ Counted(6) /\ Counted(7) /\ Counted(8)
    BY <1>7, <1>8
  <1>10. s[8] = IF 8 + k > 8 THEN 8 + k - 8 ELSE 0
    BY <1>9 DEF Counted
  <1>11. QED
    BY <1>3, <1>10

\* The bits of the first i octets of a netmask of n bits.
FirstBits(n, i) == IF n <= 8 * i THEN n ELSE 8 * i

LEMMA FirstBitsMore ==
    ASSUME NEW n \in 0..128, NEW i \in 1..16
    PROVE  FirstBits(n, i) = FirstBits(n, i - 1) + InOctet(n, i)
  BY DEF FirstBits, InOctet

\* The prefix length of an IPv6 address is that of its netmask.
LEMMA LengthOfIPv6 ==
    ASSUME NEW n \in 0..128
    PROVE  F!IPv6PrefixLength(Mask(n, 16)) = n
  <1> DEFINE mask == Mask(n, 16)
             Turns(s) == s = [i \in 0..16 |-> IF i = 0 THEN 0 ELSE s[i - 1] + F!Ones(mask[i])]
             f == [i \in 0..16 |-> FirstBits(n, i)]
  <1>1. ASSUME NEW i \in 1..16
        PROVE  F!Ones(mask[i]) = InOctet(n, i)
    <2>1. InOctet(n, i) \in 0..8 /\ mask[i] = 256 - 2^(8 - InOctet(n, i))
      BY OctetOfMask, ZenonT(60)
    <2> HIDE DEF mask
    <2>2. F!Ones(256 - 2^(8 - InOctet(n, i))) = InOctet(n, i)
      BY <2>1, OnesOfMask
    <2>3. QED
      BY <2>1, <2>2, SMTT(60)
  <1> HIDE DEF mask
  <1>2. FirstBits(n, 0) = 0 /\ FirstBits(n, 16) = n
    BY DEF FirstBits
  <1>3. Turns(f)
    <2>1. ASSUME NEW i \in 0..16
          PROVE  f[i] = IF i = 0 THEN 0 ELSE f[i - 1] + F!Ones(mask[i])
      <3>1. CASE i = 0
        BY <1>2, <3>1
      <3>2. CASE i # 0
        <4>1. i \in 1..16 /\ i - 1 \in 0..16
          BY <3>2
        <4>2. f[i] = FirstBits(n, i) /\ f[i - 1] = FirstBits(n, i - 1)
          BY <4>1
        <4> HIDE DEF f
        <4>3. QED
          BY <1>1, <3>2, <4>1, <4>2, FirstBitsMore
      <3>3. QED
        BY <3>1, <3>2
    <2> HIDE DEF f
    <2>2. f = [i \in 0..16 |-> f[i]]
      BY DEF f
    <2>3. QED
      BY <2>1, <2>2
  <1>4. PICK s : Turns(s) /\ F!IPv6PrefixLength(mask) = s[16]
    <2>1. Turns(CHOOSE s : Turns(s))
      BY <1>3
    <2>2. F!IPv6PrefixLength(mask) = (CHOOSE s : Turns(s))[16]
      BY DEF F!IPv6PrefixLength
    <2>3. QED
      BY <2>1, <2>2, ZenonT(60)
  <1>5. \A i \in 0..16 : s[i] = IF i = 0 THEN 0 ELSE s[i - 1] + F!Ones(mask[i])
    <2>1. s = [i \in 0..16 |-> IF i = 0 THEN 0 ELSE s[i - 1] + F!Ones(mask[i])]
      BY <1>4, Zenon
    <2> HIDE DEF Turns
    <2>2. QED
      BY <2>1, Zenon
  <1> HIDE DEF Turns
  <1> DEFINE Counted(i) == s[i] = FirstBits(n, i)
  <1>6. Counted(0)
    BY <1>2, <1>5
  <1>7. ASSUME NEW i \in 1..16, Counted(i - 1)
        PROVE  Counted(i)
    <2>1. s[i] = s[i - 1] + F!Ones(mask[i])
      <3>1. i \in 0..16 /\ i # 0
        OBVIOUS
      <3>2. QED
        BY <1>5, <3>1
    <2>2. QED
      BY <1>1, <1>7, <2>1, FirstBitsMore
  <1>8. \A i \in 1..16 : Counted(i - 1) => Counted(i)
    BY <1>7
  <1> HIDE DEF Counted
  <1>9. Counted(1) /\ Counted(2) /\ Counted(3) /\ Counted(4)
    BY <1>6, <1>8
  <1>10. Counted(5) /\ Counted(6) /\ Counted(7) /\ Counted(8)
    BY <1>8, <1>9
  <1>11. Counted(9) /\ Counted(10) /\ Counted(11) /\ Counted(12)
    BY <1>8, <1>10
  <1>12. Counted(13) /\ Counted(14) /\ Counted(15) /\ Counted(16)
    BY <1>8, <1>11
  <1>13. QED
    BY <1>2, <1>4, <1>12 DEF Counted, mask

\* The prefix length of an IPv4 address is the number of the highest bit as the machine
\* reads the netmask.
LEMMA LengthOfIPv4 ==
    ASSUME NEW n \in 0..32
    PROVE  F!IPv4PrefixLength(Mask(n, 4)) =
               IF n = 0 THEN 0 ELSE IF LittleEndian THEN 8 * ((n + 7) \div 8) ELSE 32
  <1> DEFINE mask == Mask(n, 4)
             Place(i) == IF LittleEndian THEN i - 1 ELSE 4 - i
             bits == F!HostBits(mask)
             last == (n + 7) \div 8
  <1>1. ASSUME NEW i \in 1..4
        PROVE  /\ InOctet(n, i) \in 0..8
               /\ F!Bits(mask[i]) = {j \in 0..7 : j + InOctet(n, i) >= 8}
    <2>1. n \in 0..128
      OBVIOUS
    <2>2. QED
      BY <2>1, OctetOfMask
  <1> HIDE DEF mask
  <1>2. \A b : b \in bits <=> \E i \in 1..4 : \E j \in F!Bits(mask[i]) : b = 8 * Place(i) + j
    BY DEF F!HostBits
  <1> HIDE DEF bits
  <1>3. \A b : b \in bits <=> \E i \in 1..4 : \E j \in 0..7 : j + InOctet(n, i) >= 8 /\ b = 8 * Place(i) + j
    BY <1>1, <1>2
  <1>4. F!IPv4PrefixLength(mask) = IF bits = {} THEN 0 ELSE F!Highest(bits) + 1
    BY DEF F!IPv4PrefixLength, bits
  <1>5. CASE n = 0
    <2>1. \A i \in 1..4 : InOctet(n, i) = 0
      BY <1>5 DEF InOctet
    <2>2. bits = {}
      BY <1>3, <2>1
    <2>3. QED
      BY <1>4, <1>5, <2>2 DEF mask
  <1>6. CASE n # 0
    <2>1. last \in 1..4 /\ n <= 8 * last /\ n > 8 * (last - 1)
      BY <1>6
    <2> HIDE DEF last
    <2>2. /\ \A i \in 1..4 : i <= last => InOctet(n, i) >= 1
          /\ \A i \in 1..4 : i > last => InOctet(n, i) = 0
      BY <2>1 DEF InOctet
    <2>3. PICK i \in 1..4 : i = IF LittleEndian THEN last ELSE 1
      BY <2>1
    <2>4. i <= last /\ i \in 1..4 /\ InOctet(n, i) >= 1
      BY <2>1, <2>2, <2>3
    <2>5. PICK top : top = 8 * Place(i) + 7
      OBVIOUS
    <2>6. top \in bits
      <3>1. 7 \in 0..7 /\ 7 + InOctet(n, i) >= 8
        BY <1>1, <2>4
      <3>2. QED
        BY <1>3, <2>4, <2>5, <3>1
    <2>7. ASSUME NEW b \in bits
          PROVE  b \in Int /\ b <= top
      <3>1. PICK h \in 1..4, j \in 0..7 : j + InOctet(n, h) >= 8 /\ b = 8 * Place(h) + j
        BY <1>3
      <3>2. InOctet(n, h) # 0
        BY <1>1, <3>1
      <3>3. h \in 1..4 /\ j \in 0..7 /\ h <= last
        BY <2>1, <2>2, <3>1, <3>2
      <3>4. Place(h) \in 0..3 /\ Place(i) \in 0..3 /\ Place(h) <= Place(i)
        BY <2>1, <2>3, <3>3
      <3> HIDE DEF Place
      <3>5. QED
        BY <2>5, <3>1, <3>3, <3>4
    <2>8. F!Highest(bits) = top
      <3>1. PICK b : b = F!Highest(bits) /\ b \in bits /\ \A c \in bits : c <= b
        BY <2>6, <2>7 DEF F!Highest
      <3>2. b <= top /\ top <= b /\ b \in Int /\ top \in Int
        BY <2>6, <2>7, <3>1
      <3>3. QED
        BY <3>1, <3>2
    <2>9. F!IPv4PrefixLength(mask) = top + 1
      BY <1>4, <2>6, <2>8
    <2>10. top + 1 = IF LittleEndian THEN 8 * last ELSE 32
      BY <2>1, <2>3, <2>5
    <2>11. QED
      BY <1>6, <2>9, <2>10 DEF mask, last
  <1>7. QED
    BY <1>5, <1>6, SMTT(60)

\* A netmask is taken by its number of bits.
MaskTaken == value.kind = "mask" => value.length \in 0..128

LEMMA MaskTakenLemma == Spec => []MaskTaken
  <1>1. Init => MaskTaken
    BY DEF Init, Nothing, MaskTaken
  <1>2. MaskTaken /\ [Next]_vars => MaskTaken'
    <2> SUFFICES ASSUME MaskTaken, [Next]_vars
                 PROVE  MaskTaken'
      OBVIOUS
    <2>1. CASE TakeMask
      BY <2>1 DEF TakeMask, Take, MaskTaken
    <2>2. CASE TakeIPv4 \/ TakeIPv6 \/ TakeScope
      BY <2>2 DEF TakeIPv4, TakeIPv6, TakeScope, Take, MaskTaken
    <2>3. CASE TakeMacText \/ TakeMacData \/ TakeText
      BY <2>3 DEF TakeMacText, TakeMacData, TakeText, Take, MaskTaken
    <2>4. CASE TakeFlags \/ TakeSystem
      BY <2>4 DEF TakeFlags, TakeSystem, Take, MaskTaken
    <2>5. CASE TakeLists \/ PutBack
      BY <2>5 DEF TakeLists, PutBack, Nothing, MaskTaken
    <2>6. CASE CallNext \/ UNCHANGED vars
      BY <2>6 DEF CallNext, vars, MaskTaken
    <2>7. QED
      BY <2>1, <2>2, <2>3, <2>4, <2>5, <2>6 DEF Next
  <1>3. QED
    BY <1>1, <1>2, PTL DEF Spec

\* The prefix length of an IPv4 address is that of its netmask in these cases and in no
\* other.
THEOREM IPv4PrefixLengthExactly ==
    ASSUME NEW n \in 0..32
    PROVE  F!IPv4PrefixLength(Mask(n, 4)) = n <=>
               n \in {0, 32} \/ (n \in {8, 16, 24} /\ LittleEndian)
  <1>1. CASE n = 0
    BY <1>1, LengthOfIPv4
  <1>2. CASE n # 0 /\ LittleEndian
    <2>1. F!IPv4PrefixLength(Mask(n, 4)) = 8 * ((n + 7) \div 8)
      BY <1>2, LengthOfIPv4
    <2>2. 8 * ((n + 7) \div 8) = n <=> n \in {8, 16, 24, 32}
      BY <1>2
    <2>3. QED
      BY <1>2, <2>1, <2>2
  <1>3. CASE n # 0 /\ ~LittleEndian
    <2>1. F!IPv4PrefixLength(Mask(n, 4)) = 32
      BY <1>3, LengthOfIPv4
    <2>2. QED
      BY <1>3, <2>1
  <1>4. QED
    BY <1>1, <1>2, <1>3

\* In whichever order the machine keeps octets, the prefix length of an IPv6 address is
\* that of its netmask, none is refused, and so it is for an IPv4 address in the cases
\* that IPv4PrefixLengthExactly gives.
THEOREM PrefixLengthsAlwaysKept == Spec => []PrefixLengthsKept
  <1>1. MaskTaken => PrefixLengthsKept
    <2> SUFFICES ASSUME MaskTaken, value.kind = "mask"
                 PROVE  PrefixLengthsKept
      BY DEF PrefixLengthsKept
    <2>1. PICK n \in 0..128 : n = value.length
      BY DEF MaskTaken
    <2>2. F!SanitizePrefixLength(F!IPv6PrefixLength(Mask(n, 16)), 128) = Told(n)
      BY LengthOfIPv6 DEF F!SanitizePrefixLength, Told
    <2>3. ASSUME n \in {0, 32} \/ (n \in {8, 16, 24} /\ LittleEndian)
          PROVE  F!SanitizePrefixLength(F!IPv4PrefixLength(Mask(n, 4)), 32) = Told(n)
      <3>1. n \in 0..32
        BY <2>3
      <3>2. F!IPv4PrefixLength(Mask(n, 4)) = n
        BY <2>3, <3>1, IPv4PrefixLengthExactly
      <3>3. QED
        BY <3>1, <3>2 DEF F!SanitizePrefixLength, Told
    <2>4. QED
      BY <2>1, <2>2, <2>3 DEF PrefixLengthsKept
  <1>2. QED
    BY <1>1, MaskTakenLemma, PTL
=============================================================================
