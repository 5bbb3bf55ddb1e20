------------------------------ MODULE Interface ------------------------------
(***************************************************************************)
(* What an interface says of itself and of its addresses: the prefix       *)
(* length that is read from a netmask (impl/Interfaces.ipp), the flags     *)
(* (impl/Interface.ipp), and the Java iterator over all addresses          *)
(* (Interface.java).  A netmask is its octets, a flag the set of its bits. *)
(***************************************************************************)
EXTENDS Integers, Sequences

CONSTANT LittleEndian   \* the byte order of the machine

-----------------------------------------------------------------------------
(* Prefix lengths *)

Bits(octet) == {k \in 0..7 : (octet \div 2^k) % 2 = 1}

\* The bits of a 32-bit netmask, as the machine reads it.
HostBits(mask) ==
    UNION {{8 * (IF LittleEndian THEN i - 1 ELSE 4 - i) + k : k \in Bits(mask[i])} : i \in 1..4}

Highest(bits) == CHOOSE b \in bits : \A c \in bits : c <= b

\* How often the netmask can be shifted to the right until it is zero.
IPv4PrefixLength(mask) ==
    IF HostBits(mask) = {} THEN 0 ELSE Highest(HostBits(mask)) + 1

\* How many bits are set, from the lowest to the highest.
Ones(octet) ==
    LET ones[k \in 0..8] ==
            IF k = 0 THEN 0 ELSE ones[k - 1] + ((octet \div 2^(k - 1)) % 2)
    IN ones[8]

\* A fault in IPv6PrefixLength: the last octet is left out.
IPv6PrefixLengthShort(mask) ==
    LET length[i \in 0..15] == IF i = 0 THEN 0 ELSE length[i - 1] + Ones(mask[i])
    IN length[15]

\* The bits that are set in all 16 octets.
IPv6PrefixLength(mask) ==
    LET length[i \in 0..16] == IF i = 0 THEN 0 ELSE length[i - 1] + Ones(mask[i])
    IN length[16]

NoPrefix == -1
Refused  == -2

\* No prefix is the same as a prefix of no bits; a prefix longer than the
\* address is refused.
SanitizePrefixLength(length, maximum) ==
    IF length > maximum THEN Refused ELSE IF length = 0 THEN NoPrefix ELSE length

-----------------------------------------------------------------------------
(* Flags *)

\* 2147483645: what Java is told of a flag that the platform does not have.
UNSUPPORTED_FLAG == (0..30) \ {1}

\* getInterfaceFlagConstant(): values gives the flags the platform has.
InterfaceFlagConstant(values, name) ==
    IF name \in DOMAIN values THEN values[name] ELSE UNSUPPORTED_FLAG

\* A fault in IsFlagEnabled: some bit in common is enough.
IsFlagEnabledByAny(flags, flag) == flags \intersect flag # {}

\* (flags & flag) == flag, in C++, Java and Python alike.
IsFlagEnabled(flags, flag) == flag \subseteq flags

-----------------------------------------------------------------------------
(* GenericAddressIterator.  current is 0 until next() was called. *)

NewIterator(lists) == [lists |-> lists, current |-> 0, place |-> 0]

CurrentHasNext(it) == it.current # 0 /\ it.place < Len(it.lists[it.current])
MoreLists(it) == it.current < Len(it.lists)

HasNext(it) == MoreLists(it) \/ CurrentHasNext(it)

\* A fault in Advance: the next list is begun one element too early.
AdvanceEarly(it) ==
    IF it.current = 0 \/ (it.place + 1 >= Len(it.lists[it.current]) /\ MoreLists(it))
    THEN [it EXCEPT !.current = @ + 1, !.place = 0] ELSE it

\* The list that next() takes an element from: it goes on to one more list, even
\* if that is empty.
Advance(it) ==
    IF it.current = 0 \/ (~CurrentHasNext(it) /\ MoreLists(it))
    THEN [it EXCEPT !.current = @ + 1, !.place = 0] ELSE it

\* Does next() throw, and which element does it yield?
NextThrows(it) == ~CurrentHasNext(Advance(it))
NextElement(it) == LET a == Advance(it) IN a.lists[a.current][a.place + 1]

\* A fault in AfterNext: a call that throws leaves the iterator where it was.
AfterNextStaying(it) ==
    IF NextThrows(it) THEN it ELSE [Advance(it) EXCEPT !.place = @ + 1]

\* It stays in the list it has gone on to, even if next() throws.
AfterNext(it) ==
    LET a == Advance(it) IN IF NextThrows(it) THEN a ELSE [a EXCEPT !.place = @ + 1]
=============================================================================
