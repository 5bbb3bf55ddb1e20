------------------------------- MODULE Values -------------------------------
(***************************************************************************)
(* The values that an interface consists of, one at a time: an address, a  *)
(* scope in its text, a MAC address, a netmask, the flags, or an iterator  *)
(* that a client steps through.  A state holds one value to look at; the   *)
(* properties say what IpAddress, InetAddress, MacAddress and Interface    *)
(* make of it.                                                             *)
(***************************************************************************)
EXTENDS InetAddress

CONSTANTS
    IPv4Inputs, IPv6Inputs, TextInputs,   \* addresses, as octets or as words
    Hosts, ScopeTexts, KernelTables,      \* texts before and after '%'; interfaces by index
    MacTexts, MacData,                    \* MAC addresses as characters and as bytes
    FlagWords, FlagConstants,             \* flags of interfaces; what a platform has
    Platforms, Installations,             \* systems, and files on them
    AddressLists                          \* the IPv4 and IPv6 addresses of interfaces

Octet == 0..255
Word  == 0..(2^16 - 1)
MacCharacter == 0..18
Text  == [digits : BOOLEAN, value : Nat, name : STRING]
IsSequence(s) == s \in Seq({s[i] : i \in DOMAIN s})

\* Addresses consist of octets and of words, and texts of MAC addresses of digits,
\* separators and other characters.  The kernel knows each interface by an index of
\* 32 bits and a name of its own; an interface has two lists of addresses.
ASSUME ValuesAssumption ==
    /\ IPv4Inputs \subseteq [1..4 -> Octet]
    /\ IPv6Inputs \subseteq [1..8 -> Word]
    /\ TextInputs \subseteq [1..8 -> Word]
    /\ MacTexts \subseteq Seq(MacCharacter)
    /\ MacData \subseteq Seq(Octet)
    /\ ScopeTexts \subseteq Text
    /\ \A k \in KernelTables :
           /\ DOMAIN k \subseteq 1..(IdModulus - 1)
           /\ \A i \in DOMAIN k : k[i] \in Text \ {NoText}
           /\ \A i, j \in DOMAIN k : k[i] = k[j] => i = j
    /\ \A lists \in AddressLists :
           /\ DOMAIN lists = 1..2
           /\ IsSequence(lists)
           /\ \A i \in 1..2 : IsSequence(lists[i])

VARIABLES value, iterator, yielded

vars == <<value, iterator, yielded>>

M == INSTANCE MacAddress
L == INSTANCE Loader
F == INSTANCE Interface

\* Names of libraries: one that says for which processor it is says the system, too.
LibraryName == {name \in STRING \X STRING \X {"so", "dylib", "dll"} :
                    name[2] # "" => name[1] # ""}

\* What a system is shows in what it says of itself: is gives the system, "" if no
\* library is made for it, its processor and what its libraries are called.  Windows
\* and the Unix systems do not say what macOS says; that says "darwin", and so "win".
ShowsWhatItIs(p) ==
    LET says(texts) == p.os \intersect texts # {}
        mac     == says({"mac", "darwin"})
        windows == ~mac /\ says({"win"})
        unix    == ~mac /\ ~windows /\ says({"linux", "posix", "bsd"})
        variant == L!UnixVariant(p.release)
        known   == L!Architecture(p.arch) # ""
    IN /\ p.is.system = "macos"   => mac /\ p.is.kind = "dylib"
       /\ p.is.system = "windows" => windows /\ p.is.kind = "dll"
       /\ p.is.system \notin {"", "macos", "windows"} =>
              unix /\ p.is.system = variant /\ p.is.kind = "so"
       /\ p.is.system # "" => known /\ p.is.processor = L!Architecture(p.arch)
       /\ p.is.system = "" => p.is.processor = ""
       /\ p.is.system = "" /\ known => ~mac /\ ~windows /\ (unix => variant = "")

ASSUME LoaderAssumption ==
    /\ \A p \in Platforms : ShowsWhatItIs(p)
    /\ \A i \in Installations :
           /\ i.resources \subseteq LibraryName
           /\ IsSequence(i.path)
           /\ \A d \in DOMAIN i.path : i.path[d] \subseteq LibraryName

Nothing == [kind |-> "nothing"]
Stopped == F!NewIterator(<< >>)

Init == value = Nothing /\ iterator = Stopped /\ yielded = << >>

Take(v) ==
    /\ value = Nothing
    /\ value' = v
    /\ UNCHANGED <<iterator, yielded>>

TakeIPv4 == \E b \in IPv4Inputs : Take([kind |-> "ipv4", octets |-> b])
TakeIPv6 == \E w \in IPv6Inputs : Take([kind |-> "ipv6", words |-> w])
TakeText == \E w \in TextInputs : Take([kind |-> "text", words |-> w])
TakeScope == \E scope \in ScopeTexts, host \in Hosts, k \in KernelTables :
                 Take([kind |-> "scope", kernel |-> k,
                       text |-> [host |-> host, scope |-> scope]])
TakeMacText == \E text \in MacTexts : Take([kind |-> "mactext", text |-> text])
TakeMacData == \E data \in MacData : Take([kind |-> "macdata", data |-> data])
TakeMask == \E n \in 0..128 : Take([kind |-> "mask", length |-> n])
TakeFlags == \E flags \in FlagWords, values \in FlagConstants :
                 Take([kind |-> "flags", flags |-> flags, values |-> values])

TakeSystem == \E p \in Platforms, i \in Installations :
                  Take([kind |-> "system", platform |-> p, installed |-> i])

TakeLists == \E lists \in AddressLists :
    /\ value = Nothing
    /\ value' = [kind |-> "lists", lists |-> lists]
    /\ iterator' = F!NewIterator(lists)
    /\ yielded' = << >>

\* The client calls next() as long as hasNext() says so, and goes on if it throws.
CallNext ==
    /\ value.kind = "lists"
    /\ F!HasNext(iterator)
    /\ iterator' = F!AfterNext(iterator)
    /\ yielded' = IF F!NextThrows(iterator) THEN yielded
                  ELSE Append(yielded, F!NextElement(iterator))
    /\ UNCHANGED value

PutBack ==
    /\ value # Nothing
    /\ value.kind = "lists" => ~F!HasNext(iterator)
    /\ value' = Nothing
    /\ iterator' = Stopped
    /\ yielded' = << >>

Next ==
    \/ TakeIPv4 \/ TakeIPv6 \/ TakeText \/ TakeScope
    \/ TakeMacText \/ TakeMacData \/ TakeMask \/ TakeFlags \/ TakeSystem
    \/ TakeLists \/ CallNext
    \/ PutBack

Spec == Init /\ [][Next]_vars /\ WF_vars(CallNext)

-----------------------------------------------------------------------------
(* Reference definitions: prefixes as the documentation writes them. *)

\* The first k of an item's n bits are those of the network's.
SameBits(x, y, k, n) == x \div 2^(n - k) = y \div 2^(n - k)

\* a lies in the network of len bits; its items have n bits.
Within(a, network, len, n) ==
    \A i \in DOMAIN network :
        LET before == n * (i - 1)
        IN len > before =>
               SameBits(a[i], network[i], IF len >= before + n THEN n ELSE len - before, n)

P(network, len) == [network |-> network, len |-> len]
In4(b, prefixes) == \E p \in prefixes : Within(b, p.network, p.len, 8)
In6(w, prefixes) == \E p \in prefixes : Within(w, p.network, p.len, 16)

IPv4Prefixes == [
    unspecified |-> {P(<<0, 0, 0, 0>>, 32)},
    loopback    |-> {P(<<127>>, 8)},
    link_local  |-> {P(<<169, 254>>, 16)},
    private     |-> {P(<<10>>, 8), P(<<100, 64>>, 10), P(<<172, 16>>, 12),
                     P(<<192, 0, 0>>, 24), P(<<192, 168>>, 16), P(<<198, 18>>, 15)},
    multicast   |-> {P(<<224>>, 4)}]

IPv4OtherPrefixes ==
    {P(<<0>>, 8), P(<<192, 0, 2>>, 24), P(<<192, 88, 99>>, 24), P(<<198, 51, 100>>, 24),
     P(<<203, 0, 113>>, 24), P(<<233, 252, 0>>, 24), P(<<240>>, 4)}

IPv4ScopePrefixes == [
    LinkLocal         |-> {P(<<224, 0, 0>>, 24)},
    RealmLocal        |-> {P(<<239, 255>>, 16)},
    OrganizationLocal |-> {P(<<239, 192>>, 14)}]

Loopback == P(<<0, 0, 0, 0, 0, 0, 0, 1>>, 128)
Unspecified == P(<<0, 0, 0, 0, 0, 0, 0, 0>>, 128)

IPv6Prefixes == [
    unspecified  |-> {Unspecified},
    loopback     |-> {Loopback},
    link_local   |-> {P(<<65152, 0, 0, 0>>, 64)},
    unique_local |-> {P(<<64512>>, 7)},
    site_local   |-> {P(<<65216>>, 10)},
    multicast    |-> {P(<<65280>>, 8)},
    v4_mapped    |-> {P(<<0, 0, 0, 0, 0, 65535>>, 96)},
    v4_translated |-> {P(<<0, 0, 0, 0, 65535, 0>>, 96)}]

\* Of ff00::/8 the last digit of the first word is the scope, the one before the
\* flags.
IPv6ScopePrefixes(digits) == {P(<<65280 + 16 * f + d>>, 16) : f \in 0..15, d \in digits}

IPv6Scopes == [
    Reserved |-> {0, 15}, InterfaceLocal |-> {1}, LinkLocal |-> {2}, RealmLocal |-> {3},
    AdminLocal |-> {4}, SiteLocal |-> {5}, OrganizationLocal |-> {8}, Global |-> {14},
    Unassigned |-> {6, 7, 9, 10, 11, 12, 13}]

IPv6FlagPrefixes == [
    DynamicallyAssigned |-> {P(<<65280 + 16 * f>>, 12) : f \in {1, 3, 5, 7, 9, 11, 13, 15}},
    PrefixBased         |-> {P(<<65280 + 16 * f>>, 12) : f \in {2, 3, 6, 7, 10, 11, 14, 15}},
    RendezvousEmbedded  |-> {P(<<65280 + 16 * f>>, 12) : f \in {4, 5, 6, 7, 12, 13, 14, 15}},
    ReservedFlag        |-> {P(<<65280 + 128>>, 9)}]

IPv6OtherPrefixes ==
    {P(<<100, 65435, 0, 0, 0, 0>>, 96), P(<<100, 65435, 1>>, 48), P(<<256, 0, 0, 0>>, 64),
     P(<<8193, 0>>, 32), P(<<8193, 32>>, 28), P(<<8193, 3512>>, 32)}

\* Where code and documentation differ: 64:ff9b:1::/48 is compared with the wrong
\* word, and link-local addresses are looked for in fe80::/10.
Disputed(w) ==
    \/ w[1] = 100 /\ w[2] = 65435 /\ w[3] \in {0, 1, 256}
    \/ w[1] \in 65153..65215

-----------------------------------------------------------------------------
(* Properties *)

\* An IPv4 address is of the kind whose documented ranges it lies in, reserved
\* if it lies in any of them, and a multicast address has the scope of its range
\* (IpAddress.hpp:187-257, comments of IpAddress.ipp:590-642).
IPv4AsDocumented ==
    value.kind = "ipv4" =>
        LET b == value.octets
            kind == IPv4Kind(b)
            scope == IPv4MulticastScope(b)
        IN /\ \A k \in DOMAIN IPv4Prefixes : kind = k <=> In4(b, IPv4Prefixes[k])
           /\ kind # "none" <=>
                  \/ \E k \in DOMAIN IPv4Prefixes : In4(b, IPv4Prefixes[k])
                  \/ In4(b, IPv4OtherPrefixes)
           /\ kind = "multicast" =>
                  /\ \A s \in DOMAIN IPv4ScopePrefixes :
                         scope = s <=> In4(b, IPv4ScopePrefixes[s])
                  /\ scope = "Global" => ~In4(b, {P(<<239>>, 8)})
                  /\ scope = "Unassigned" => In4(b, {P(<<239>>, 8)})

\* The same for an IPv6 address, outside the two disputed ranges
\* (IpAddress.hpp:187-257 and 543-609).
IPv6AsDocumented ==
    value.kind = "ipv6" /\ ~Disputed(value.words) =>
        LET w == value.words
            kind == IPv6Kind(w)
        IN /\ \A k \in DOMAIN IPv6Prefixes : kind = k <=> In6(w, IPv6Prefixes[k])
           /\ kind = "v4_compatible" <=>
                  In6(w, {P(<<0, 0, 0, 0, 0, 0>>, 96)}) /\ ~In6(w, {Loopback, Unspecified})
           /\ kind = "6to4" <=> In6(w, {P(<<8194>>, 16)})
           /\ kind = "reserved" <=> In6(w, IPv6OtherPrefixes)
           /\ kind = "multicast" =>
                  \A s \in DOMAIN IPv6Scopes :
                      IPv6MulticastScope(w) = s <=> In6(w, IPv6ScopePrefixes(IPv6Scopes[s]))
           /\ \A flag \in DOMAIN IPv6FlagPrefixes :
                  IsMulticastFlagEnabled(w, flag) <=> In6(w, IPv6FlagPrefixes[flag])

\* Both.
AddressesAsDocumented == IPv4AsDocumented /\ IPv6AsDocumented

\* The kernel's names are not numbers.
NamesAreNames(k) == \A i \in DOMAIN k : ~k[i].digits

\* An IPv6 address survives being printed and read again, with its scope, whether
\* the kernel knows that or not, as it was written and normalized; an id of 32 bits
\* is kept, and a name gets the index the kernel has for it.  What scope_id_or_name()
\* says leads back to the same scope (the constructors, extractScope, addScope,
\* normalize).
TextSurvives ==
    value.kind = "scope" /\ NamesAreNames(value.kernel) =>
        LET k == value.kernel
            text == value.text
            address == IPv6OfText(k, text)
            normal == Normalize(address)
            scope == address.scope
        IN address # Thrown =>
              /\ IPv6OfText(k, address.representation) = address
              /\ IPv6OfText(k, normal.representation) = normal
              /\ SameIPv6(normal, address) /\ Normalize(normal) = normal
              /\ ExtractScope(k, ScopeIdOrName(scope)) = scope
              /\ text.scope.digits /\ text.scope.value \in 1..(IdModulus - 1) =>
                     scope.id = text.scope.value
              /\ ~text.scope.digits /\ text.scope # NoText =>
                     scope = [id |-> IndexOf(k, text.scope), name |-> text.scope]

\* A scope whose id fits arrives in Java with its number, and in Python with its
\* number and its name: neither constructor throws, and the text each makes of it
\* leads C++ back to the same interface.
ScopeTravels ==
    /\ value.kind = "scope"
    /\ NamesAreNames(value.kernel)
    /\ value.text.scope.digits => value.text.scope.value \in 1..(IdModulus - 1)
    =>
        LET k == value.kernel
            scope == ExtractScope(k, value.text.scope)
            python == PythonScope(scope)
        IN /\ ~python.throws
           /\ python.number = scope.id
           /\ ExtractScope(k, python.id) = scope
           /\ JavaScope(scope) = scope.id
           /\ scope.id < IdModulus \div 2 =>
                  ExtractScope(k, JavaScopeText(scope)) = ScopeOfId(k, JavaScope(scope))

\* The words from the first to the last, with a colon between each two.
Written(w, first, last) ==
    [p \in 1..(IF first <= last THEN 2 * (last - first) + 1 ELSE 0) |->
        IF p % 2 = 0 THEN Colon ELSE w[first + (p \div 2)]]

\* A run of zeros, of one at least.
ZeroRun(w, i, j) == i <= j /\ \A x \in i..j : w[x] = 0

\* No other run is longer, or as long and further to the left.
FirstLongest(w, first, last) ==
    /\ ZeroRun(w, first, last)
    /\ \A i, j \in 1..8 : ZeroRun(w, i, j) =>
           \/ j - i < last - first
           \/ j - i = last - first /\ first <= i

\* Two colons in the place of the words from first to last.
Shortened(w, first, last) ==
    Written(w, 1, first - 1) \o <<Colon, Colon>> \o Written(w, last + 1, 8)

\* The text that RFC 5952, section 4.2, asks for: two colons stand for the first of the
\* longest runs of zeros, if it is one of two words at least, and for nothing else.
Canonical(w, text) ==
    IF \E i \in 1..7 : ZeroRun(w, i, i + 1)
    THEN \E first, last \in 1..8 :
            /\ FirstLongest(w, first, last)
            /\ text = Shortened(w, first, last)
    ELSE text = Written(w, 1, 8)

\* The text of an IPv6 address in Java denotes the address: two colons, if there are any,
\* stand for zeros only, and all other words are written.  It is the text of RFC 5952
\* unless no two zeros are next to each other: a zero that stands alone is shortened, too
\* (InetAddressHelper.java:121-205), against the promise of RFC 5952 in lines 101-105.
TextDenotesAddress ==
    value.kind = "text" =>
        LET w == value.words
        IN /\ \/ HostText(w) = Written(w, 1, 8)
              \/ \E first, last \in 1..8 :
                    ZeroRun(w, first, last) /\ HostText(w) = Shortened(w, first, last)
           /\ (\E i \in 1..7 : ZeroRun(w, i, i + 1)) \/ (\A i \in 1..8 : w[i] # 0) =>
                  Canonical(w, HostText(w))

\* Pairs of hexadecimal digits, with one separator between each two.
WellFormed(text) ==
    /\ Len(text) \in {3 * n - 1 : n \in 6..8}
    /\ \A i \in DOMAIN text : IF i % 3 = 0 THEN text[i] \in M!Separators ELSE text[i] < 16

\* A MAC address is accepted as a text exactly if it is well formed, in C++, Java
\* and Python alike, and as bytes exactly if their number is right; text and bytes
\* say the same, and reading what was printed gives the same address again.  Of
\* octets there are fewer than 256, the number of which fits in eight bits: more are
\* counted wrongly, and leave the room that a text is read into (fromRepr).
MacTextsAgree ==
    /\ value.kind = "mactext" /\ Len(M!Scanned(value.text).data) < 256 =>
           LET address == M!MacAddressOfText(value.text)
           IN /\ ~M!Threw(address) <=> WellFormed(value.text)
              /\ M!PythonOfText(value.text) = address
              /\ ~M!Threw(address) =>
                     /\ \A i \in DOMAIN address.data :
                            address.data[i] = value.text[3 * i - 2] * 16 + value.text[3 * i - 1]
                     /\ M!JavaOfText(value.text) = M!Converted(address)
                     /\ M!SameAddress(M!MacAddressOfText(M!ToRepr(address.data)), address)
    /\ value.kind = "macdata" /\ Len(value.data) < 256 =>
           LET address == M!MacAddressOfData(value.data)
           IN /\ ~M!Threw(address) <=> Len(value.data) \in 6..8
              /\ M!JavaOfData(value.data) = address
              /\ M!PythonOfData(value.data) = address
              /\ ~M!Threw(address) => M!FromRepr(address.text) = address.data

\* The octets of a netmask of n bits.
Mask(n, octets) ==
    [i \in 1..octets |->
        LET k == IF n >= 8 * i THEN 8 ELSE IF n <= 8 * (i - 1) THEN 0 ELSE n - 8 * (i - 1)
        IN 256 - 2^(8 - k)]

\* What is told of a prefix of n bits: one of no bits is none.
Told(n) == IF n = 0 THEN F!NoPrefix ELSE n

\* The prefix length of an IPv6 address is that of its netmask (_addIPv6Address,
\* sanitizePrefixLength).  That of an IPv4 address is, too, if the netmask is of no bits,
\* of all, or of whole octets of which the machine keeps the least significant first
\* (_addIPv4Address); all other IPv4 lengths are wrong (Interfaces.ipp:866).
PrefixLengthsKept ==
    value.kind = "mask" =>
        LET n == value.length
        IN /\ F!SanitizePrefixLength(F!IPv6PrefixLength(Mask(n, 16)), 128) = Told(n)
           /\ n \in {0, 32} \/ (n \in {8, 16, 24} /\ LittleEndian) =>
                  F!SanitizePrefixLength(F!IPv4PrefixLength(Mask(n, 4)), 32) = Told(n)

\* A flag the platform does not have is never reported, in Java neither, as long as
\* no interface has all the bits that stand for an unsupported one; one it has is
\* reported if all its bits are set.
FlagsReported ==
    value.kind = "flags" =>
        \A name \in {"IsUp", "IsLoopback", "Smart"} :
            F!IsFlagEnabled(value.flags, F!InterfaceFlagConstant(value.values, name)) <=>
                name \in DOMAIN value.values /\ \A k \in value.values[name] : k \in value.flags

\* What a file is for: the system, the processor and the kind of library.  is
\* tells what a platform is.
Suits(name, p) ==
    /\ name[1] \in {"", p.is.system}
    /\ name[2] \in {"", p.is.processor}
    /\ p.is.system # "" => name[3] = p.is.kind

\* What of it a name says.
Detail(name) == {i \in 1..2 : name[i] # ""}

\* The library that is loaded is made for this system, and no other of the class
\* path, or of the same directory, is more specific; one of java.library.path is
\* loaded only if there is none on the class path and none in a directory before, and
\* none is only if there is no fitting one at all or it cannot be copied (Loader.java:100-104, "full expected name", "possible name",
\* "last-ditch effort").
BestLibraryLoaded ==
    value.kind = "system" =>
        LET p == value.platform
            i == value.installed
            Fitting(names) == {n \in names : Suits(n, p)}
        IN \A file \in L!Found(p, i) :
              CASE file.where = "resource" ->
                      /\ file.name \in Fitting(i.resources)
                      /\ \A n \in Fitting(i.resources) : Detail(n) \subseteq Detail(file.name)
                [] file.where = "path" ->
                      /\ Fitting(i.resources) = {}
                      /\ \E d \in DOMAIN i.path :
                            /\ file.name \in Fitting(i.path[d])
                            /\ \A n \in Fitting(i.path[d]) : Detail(n) \subseteq Detail(file.name)
                            /\ \A e \in 1..(d - 1) : Fitting(i.path[e]) = {}
                [] OTHER ->
                      \/ i.jar /\ Fitting(i.resources) # {}
                      \/ \A names \in {i.resources} \union {i.path[d] : d \in DOMAIN i.path} :
                            Fitting(names) = {}

\* Iterating over an interface yields its IPv4 and then its IPv6 addresses, each
\* once and in order, whatever next() throws in between; and hasNext() says no
\* only when all were seen.
IteratesInOrder ==
    value.kind = "lists" =>
        LET all == value.lists[1] \o value.lists[2]
        IN /\ yielded = SubSeq(all, 1, Len(yielded))
           /\ ~F!HasNext(iterator) => yielded = all

\* An iteration comes to an end.
IterationEnds == value.kind = "lists" ~> ~F!HasNext(iterator)
=============================================================================
