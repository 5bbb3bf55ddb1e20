------------------------------ MODULE IpAddress ------------------------------
(***************************************************************************)
(* The C++ IP addresses (impl/IpAddress.ipp): which kind of address some   *)
(* bytes are, and what becomes of the scope of an IPv6 address on its way  *)
(* from text to a value and back.  An IPv4 address is its 4 octets, an     *)
(* IPv6 address its 8 words in network byte order.                         *)
(***************************************************************************)
EXTENDS Integers, Sequences

CONSTANTS
    LittleEndian,   \* the byte order of the machine
    IdModulus,      \* uint32_t ends here
    LongModulus     \* unsigned long ends here

ASSUME IpAddressAssumption ==
    /\ LittleEndian \in BOOLEAN
    /\ IdModulus \in Nat \ {0}
    /\ LongModulus \in Nat \ {0}
    /\ IdModulus <= LongModulus

\* The kind of the first test that applies: the chain of else if.
FirstOf(tests) ==
    LET hits == {i \in DOMAIN tests : tests[i].holds}
    IN IF hits = {} THEN "none"
       ELSE tests[CHOOSE i \in hits : \A j \in hits : i <= j].kind

Test(kind, holds) == [kind |-> kind, holds |-> holds]

-----------------------------------------------------------------------------
(* IPv4 *)

IsPrivate(b) ==
    \/ b[1] = 10
    \/ b[1] = 100 /\ b[2] \in 64..127
    \/ b[1] = 172 /\ b[2] \in 16..31
    \/ b[1] = 192 /\ b[2] = 0 /\ b[3] = 0
    \/ b[1] = 192 /\ b[2] = 168
    \/ b[1] = 198 /\ b[2] \in 18..19

IsOtherwiseReserved(b) ==
    \/ b[1] = 0
    \/ <<b[1], b[2], b[3]>> \in {<<192, 0, 2>>, <<192, 88, 99>>, <<198, 51, 100>>,
                                 <<203, 0, 113>>, <<233, 252, 0>>}
    \/ b[1] >= 240

IPv4Tests(b) == <<
    Test("unspecified", \A i \in 1..4 : b[i] = 0),
    Test("loopback", b[1] = 127),
    Test("link_local", b[1] = 169 /\ b[2] = 254),
    Test("private", IsPrivate(b)),
    Test("multicast", b[1] \in 224..239),
    Test("reserved", IsOtherwiseReserved(b))>>

\* Every kind but "none" is reserved too.
IPv4Kind(b) == FirstOf(IPv4Tests(b))

IPv4MulticastScope(b) ==
    LET scope == FirstOf(<<
            Test("LinkLocal", b[1] = 224 /\ b[2] = 0 /\ b[3] = 0),
            Test("RealmLocal", b[1] = 239 /\ b[2] = 255),
            Test("OrganizationLocal", b[1] = 239 /\ b[2] \in 192..195),
            Test("Global", b[1] # 239)>>)
    IN IF scope = "none" THEN "Unassigned" ELSE scope

-----------------------------------------------------------------------------
(* IPv6 *)

\* The i-th doubleword, as the machine reads it: its low and its high half.
\* That it is zero does not depend on the byte order.
Doubleword(w, i) ==
    LET Swapped(x) == (x % 256) * 256 + x \div 256
        first  == w[2 * i + 1]
        second == w[2 * i + 2]
    IN IF LittleEndian THEN <<Swapped(first), Swapped(second)>> ELSE <<second, first>>

Zero(w, from, to) == \A i \in from..to : w[i] = 0

\* The tests of the constructor, some by the macros of netinet/in.h: those that
\* test fe80::/10, fec0::/10, ff00::/8 and ::ffff:0:0/96.
IsUnspecified(w)  == Zero(w, 1, 8)
IsLoopback(w)     == Zero(w, 1, 7) /\ w[8] = 1
IsLinkLocal(w)    == w[1] \in 65152..65215 /\ Zero(w, 2, 4)
IsUniqueLocal(w)  == w[1] \div 256 \in {252, 253}
IsSiteLocal(w)    == w[1] \in 65216..65279
IsMulticast(w)    == w[1] \div 256 = 255
IsV4Mapped(w)     == Zero(w, 1, 5) /\ w[6] = 65535
IsV4Compatible(w) == Zero(w, 1, 6) /\ (w[7] # 0 \/ w[8] \notin {0, 1})
IsV4Translated(w) == Zero(w, 1, 4) /\ w[5] = 65535 /\ w[6] = 0
Is6To4(w)         == w[1] = 8194

IsOtherwiseReserved6(w) ==
    \/ w[1] = 100 /\ w[2] = 65435 /\ Doubleword(w, 1) = <<0, 0>> /\ Doubleword(w, 2) = <<0, 0>>
    \/ w[1] = 100 /\ w[2] = 65435 /\ Doubleword(w, 1) = <<1, 0>>
    \/ w[1] = 256 /\ w[2] = 0 /\ Doubleword(w, 1) = <<0, 0>>
    \/ w[1] = 8193 /\ w[2] = 0
    \/ w[1] = 8193 /\ w[2] \in 32..47
    \/ w[1] = 8193 /\ w[2] = 3512

IPv6Tests(w) == <<
    Test("unspecified", IsUnspecified(w)),
    Test("loopback", IsLoopback(w)),
    Test("link_local", IsLinkLocal(w)),
    Test("unique_local", IsUniqueLocal(w)),
    Test("site_local", IsSiteLocal(w)),
    Test("multicast", IsMulticast(w)),
    Test("v4_mapped", IsV4Mapped(w)),
    Test("v4_compatible", IsV4Compatible(w)),
    Test("v4_translated", IsV4Translated(w)),
    Test("6to4", Is6To4(w)),
    Test("reserved", IsOtherwiseReserved6(w))>>

\* A fault in IPv6Kind: the loopback address is taken for an IPv4-compatible one.
IPv6KindCompatibleFirst(w) ==
    FirstOf(<<Test("unspecified", Zero(w, 1, 8)),
              Test("v4_compatible", Zero(w, 1, 6))>> \o IPv6Tests(w))

IPv6Kind(w) == FirstOf(IPv6Tests(w))

\* The low and the high nibble of the second octet.
IPv6MulticastScope(w) ==
    LET named == [n \in {1, 2, 3, 4, 5, 8, 14} |->
            CASE n = 1 -> "InterfaceLocal" [] n = 2 -> "LinkLocal" [] n = 3 -> "RealmLocal"
              [] n = 4 -> "AdminLocal" [] n = 5 -> "SiteLocal"
              [] n = 8 -> "OrganizationLocal" [] n = 14 -> "Global"]
        nibble == w[1] % 16
    IN IF nibble \in {0, 15} THEN "Reserved"
       ELSE IF nibble \in DOMAIN named THEN named[nibble] ELSE "Unassigned"

FlagBit == [DynamicallyAssigned |-> 1, PrefixBased |-> 2, RendezvousEmbedded |-> 4, ReservedFlag |-> 8]

IsMulticastFlagEnabled(w, flag) ==
    /\ IPv6Kind(w) = "multicast"
    /\ (((w[1] \div 16) % 16) \div FlagBit[flag]) % 2 = 1

-----------------------------------------------------------------------------
(* Scopes.  A text is all digits, with a value, or some other name.  k is    *)
(* the kernel's table, which gives the text of each interface's name by its  *)
(* index.                                                                    *)

Digits(n) == [digits |-> TRUE, value |-> n, name |-> ""]
Name(x)   == [digits |-> FALSE, value |-> 0, name |-> x]

NoId   == 0
NoText == Name("")
NoScope == [id |-> NoId, name |-> NoText]

IndexOf(k, text) ==
    IF \E i \in DOMAIN k : k[i] = text THEN CHOOSE i \in DOMAIN k : k[i] = text ELSE NoId

\* A fault in FillOutScope: only an id is filled out, not a name.
FillOutScopeById(k, scope) ==
    IF scope.id \in DOMAIN k /\ scope.name = NoText
    THEN [scope EXCEPT !.name = k[scope.id]] ELSE scope

\* What is missing is asked of the kernel, and stays missing if it does not know.
FillOutScope(k, scope) ==
    IF scope.id # NoId /\ scope.name = NoText
    THEN [scope EXCEPT !.name = IF scope.id \in DOMAIN k THEN k[scope.id] ELSE NoText]
    ELSE IF scope.name # NoText /\ scope.id = NoId
    THEN [scope EXCEPT !.id = IndexOf(k, scope.name)]
    ELSE scope

ScopeFromName(k, text) == FillOutScope(k, [NoScope EXCEPT !.name = text])
ScopeFromId(k, id)     == FillOutScope(k, [NoScope EXCEPT !.id = id])

\* Whether the text after '%' is refused: std::stoul() throws.
Refused(text) == text.digits /\ text.value >= LongModulus

\* Digits are an id of 32 bits, unless that is 0: then they are a name.
ExtractScope(k, text) ==
    IF text = NoText THEN NoScope
    ELSE IF text.digits /\ text.value % IdModulus # 0
    THEN ScopeFromId(k, text.value % IdModulus)
    ELSE ScopeFromName(k, text)

\* The constructors that are given an id take 0 for no scope at all.
ScopeOfId(k, id) == IF id = NoId THEN NoScope ELSE ScopeFromId(k, id)

\* The text after '%': a name if there is one.  normalize() prints it again.
AddScope(scope) ==
    IF scope = NoScope THEN NoText
    ELSE IF scope.name # NoText THEN scope.name ELSE Digits(scope.id)

ScopeIdOrName(scope) ==
    IF scope.id # NoId THEN Digits(scope.id) ELSE scope.name

-----------------------------------------------------------------------------
(* IPv6 addresses.  A host is a text without a scope: the words it stands for *)
(* and whether it is written as inet_ntop() would.                            *)

Malformed == [words |-> << >>, canonical |-> FALSE]

\* inet_pton() and inet_ntop(); << >> is an exception.
FromRepr(host) == host.words
ToRepr(w) == [words |-> w, canonical |-> TRUE]

Thrown == [words |-> << >>]

IPv6Address(host, w, scope) ==
    [words |-> w, scope |-> scope, withoutScope |-> host,
     representation |-> [host |-> host, scope |-> AddScope(scope)]]

\* A text, with the scope after '%', keeps the host as it is written.
IPv6OfText(k, text) ==
    IF FromRepr(text.host) = << >> \/ Refused(text.scope) THEN Thrown
    ELSE IPv6Address(text.host, FromRepr(text.host), ExtractScope(k, text.scope))

\* From bytes or an in6_addr.
IPv6OfData(w, scope) == IPv6Address(ToRepr(w), w, scope)

Normalize(a) == IPv6OfData(a.words, a.scope)

\* operator==: neither the scope nor the text is looked at.
SameIPv6(a, b) == a.words = b.words
=============================================================================
