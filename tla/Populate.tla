------------------------------ MODULE Populate ------------------------------
(***************************************************************************)
(* Construction of the C++ InterfaceBrowser on POSIX systems:              *)
(* populateInterfaces, its helpers and the constructor's two lookup maps,  *)
(* in ifaddrs4cpp/include/oddsource/network/interfaces/impl/Interfaces.ipp.*)
(*                                                                         *)
(* getifaddrs() lists the system's interfaces once, but the index, the MTU *)
(* and the name of an IPv6 scope are asked for one by one later on, by     *)
(* name or by index, while the administrator renames, removes and adds     *)
(* interfaces.  Several browsers may be under construction, and they share *)
(* the process's file descriptors: getMtu() keeps one each time, the other *)
(* calls borrow one while they last, as does the rest of the program.      *)
(*                                                                         *)
(* Modelled as on Linux, with SIOCGIFMTU, AF_PACKET and no per-address     *)
(* flags.  assert() is compiled out, as in a release build.  Addresses are *)
(* told apart by the place in getifaddrs's list they came from.            *)
(***************************************************************************)
EXTENDS Naturals, Sequences, FiniteSets

CONSTANTS
    Builders,        \* threads that construct browsers
    Names,           \* interface names
    NoName,          \* no name: an index nobody has, a scope name not set
    MaxIndex,        \* bound: interface indexes are 1..MaxIndex
    InitialKernel,   \* the names of the system's interfaces at first
    Slots,           \* what getifaddrs lists if every index is in use, in order
    MaxDescriptors,  \* bound: descriptors the process may use up in browsers
    Elsewhere,       \* as many of these the rest of the program may hold for a while
    MaxChanges,      \* bound: changes to the system's interfaces
    MaxBuilds        \* bound: constructions started

Indexes  == 1..MaxIndex
Families == {"link", "inet", "inet6", "other", "null"}
Hardware == {"none", "ether", "zero", "short", "foreign"}
Flags    == {"broadcast", "pointtopoint", "plain"}

\* One item of the list: whose it is, ifa_addr's family (null if there is no
\* address), the interface's flags, whether ifa_broadaddr or ifa_dstaddr is
\* set, the hardware address's kind and the IPv6 scope id.
Slot == [origin : Indexes, family : Families, flags : Flags, other : BOOLEAN,
         hardware : Hardware, scope : 0..MaxIndex]

ASSUME PopulateAssumption ==
    /\ MaxIndex \in Nat
    /\ NoName \notin Names
    /\ InitialKernel \in [Indexes -> Names \union {NoName}]
    /\ \A i, j \in Indexes :
          InitialKernel[i] = InitialKernel[j] /\ InitialKernel[i] # NoName => i = j
    /\ Slots \in Seq(Slot)
    /\ MaxDescriptors \in Nat
    /\ Elsewhere \in Nat
    /\ MaxChanges \in Nat
    /\ MaxBuilds \in Nat

VARIABLES
    kernel,       \* the name of each index, as the kernel knows it
    descriptors,  \* descriptors that browsers opened and nobody closed
    changes,      \* changes to the kernel's interfaces so far
    builds,       \* constructions started so far
    browser,      \* each builder's browser, with populateInterfaces's locals
    witnessed,    \* every <<index, name>> in the kernel since getifaddrs()
    quiet         \* the kernel's interfaces did not change since getifaddrs()

vars == <<kernel, descriptors, changes, builds, browser, witnessed, quiet>>

Phases == {"idle", "next", "mtu", "address", "built", "failed"}

\* An Interface.  Its MTU, if it has one, is told by the index it belongs to.
Interface == [index : 0..MaxIndex, name : Names, flags : Flags \X BOOLEAN,
              mtu : 0..MaxIndex, mac : Nat,
              v4 : Seq([slot : Nat, other : Flags]),
              v6 : Seq([slot : Nat, scopeName : Names \union {NoName}])]

Reasons == {"flags", "ioctl", "socket", "hardware", "family"}

Browser == [phase : Phases,
            dump : [Indexes -> Names \union {NoName}],  \* getifaddrs's names
            moved : BOOLEAN,   \* flags changed while getifaddrs made the list
            pos : Nat,         \* pIfAddr: the slot, past the last at the end
            index : 0..MaxIndex,
            interfaces : Seq(Interface),
            warnings : Seq(Reasons \X Nat),
            indexToName : [0..MaxIndex -> Names \union {NoName}],
            indexToInterface : [0..MaxIndex -> Nat],
            nameToInterface : [Names -> Nat],
            starved : BOOLEAN]   \* history: a call of its found no descriptor

TypeOK ==
    /\ kernel \in [Indexes -> Names \union {NoName}]
    /\ descriptors \in 0..MaxDescriptors
    /\ changes \in 0..MaxChanges
    /\ builds \in 0..MaxBuilds
    /\ browser \in [Builders -> Browser]
    /\ witnessed \in [Builders -> SUBSET (Indexes \X Names)]
    /\ quiet \in [Builders -> BOOLEAN]

Fresh == [phase |-> "idle", dump |-> [i \in Indexes |-> NoName], moved |-> FALSE,
          pos |-> 0, index |-> 0, interfaces |-> << >>, warnings |-> << >>,
          indexToName |-> [i \in 0..MaxIndex |-> NoName],
          indexToInterface |-> [i \in 0..MaxIndex |-> 0],
          nameToInterface |-> [n \in Names |-> 0], starved |-> FALSE]

Init ==
    /\ kernel = InitialKernel
    /\ descriptors = 0
    /\ changes = 0
    /\ builds = 0
    /\ browser = [b \in Builders |-> Fresh]
    /\ witnessed = [b \in Builders |-> {}]
    /\ quiet = [b \in Builders |-> TRUE]

-----------------------------------------------------------------------------
(* The kernel and the C library. *)

Pairs(k) == {<<i, k[i]>> : i \in {j \in Indexes : k[j] # NoName}}

\* An interface is added, removed or renamed; no two have the same name.
ChangeKernel ==
    /\ changes < MaxChanges
    /\ \E i \in Indexes, n \in Names \union {NoName} :
          /\ kernel[i] # n
          /\ n # NoName => \A j \in Indexes : kernel[j] # n
          /\ kernel' = [kernel EXCEPT ![i] = n]
    /\ changes' = changes + 1
    /\ witnessed' = [b \in Builders |-> witnessed[b] \union Pairs(kernel')]
    /\ quiet' = [b \in Builders |-> FALSE]
    /\ UNCHANGED <<descriptors, builds, browser>>

\* if_nametoindex(), if_indextoname(), getifaddrs() and getMtu need a socket.
DescriptorFree == descriptors < MaxDescriptors

\* With the socket or without; 0 and NoName say that the call failed.
NameToIndex(name, ok) ==
    IF ok /\ \E i \in Indexes : kernel[i] = name
    THEN CHOOSE i \in Indexes : kernel[i] = name
    ELSE 0

IndexToName(i, ok) ==
    IF ok /\ i \in Indexes THEN kernel[i] ELSE NoName

\* The list has the slots of the interfaces that there were.
Listed(dump, p) == p \in DOMAIN Slots /\ dump[Slots[p].origin] # NoName

NextSlot(dump, p) ==
    CHOOSE q \in 1..Len(Slots) + 1 :
        /\ q > p
        /\ Listed(dump, q) \/ q = Len(Slots) + 1
        /\ \A r \in 1..q - 1 : r > p => ~Listed(dump, r)

-----------------------------------------------------------------------------
(* populateInterfaces: the list, and the interface of each item. *)

Item(b)      == Slots[browser[b].pos]
ItemName(b)  == browser[b].dump[Item(b).origin]
ItemFlags(b) == <<Item(b).flags, browser[b].moved /\ Item(b).family # "link">>
AtEnd(b)     == browser[b].pos = Len(Slots) + 1

At(b, phase)  == browser[b].phase = phase
Update(b, br) == browser' = [browser EXCEPT ![b] = br]

AtAddress(b, family) == At(b, "address") /\ Item(b).family = family

\* The place of an interface in the list: nameToInterface.find(name).
Known(b) == \E k \in DOMAIN browser[b].interfaces : browser[b].interfaces[k].name = ItemName(b)
Place(b) == CHOOSE k \in DOMAIN browser[b].interfaces :
                browser[b].interfaces[k].name = ItemName(b)

\* A warning about the item, for getWarnings().
Warn(b, reason) == <<<<reason, browser[b].pos>>>>

\* The item's scope is not that of an interface on the list.
LooksUpScope(b) == Item(b).scope # 0 /\ browser[b].indexToName[Item(b).scope] = NoName

\* The builder's next call borrows a descriptor until it returns.
Borrows(b) ==
    \/ At(b, "idle") /\ builds < MaxBuilds
    \/ At(b, "next") /\ ~AtEnd(b) /\ ~Known(b)
    \/ AtAddress(b, "inet6") /\ LooksUpScope(b)

\* The descriptors may all be in use: kept by browsers, or borrowed by the
\* other builders, in the middle of such a call, and by the rest of the program.
Scarce(b) ==
    descriptors + Elsewhere + Cardinality({c \in Builders \ {b} : Borrows(c)})
        >= MaxDescriptors

\* A call of a builder opens its socket (ok), or fails to.
OpensSocket(b, ok) == IF ok THEN DescriptorFree ELSE Scarce(b)

\* getifaddrs() succeeds, or the constructor throws.
GetIfAddrs(b) ==
    /\ At(b, "idle")
    /\ builds < MaxBuilds
    /\ builds' = builds + 1
    /\ \/ /\ DescriptorFree
          /\ \E moved \in BOOLEAN :
                Update(b, [Fresh EXCEPT !.phase = "next", !.dump = kernel,
                                        !.moved = moved, !.pos = NextSlot(kernel, 0)])
          /\ witnessed' = [witnessed EXCEPT ![b] = Pairs(kernel)]
          /\ quiet' = [quiet EXCEPT ![b] = TRUE]
       \/ /\ Update(b, [Fresh EXCEPT !.phase = "failed"])
          /\ UNCHANGED <<witnessed, quiet>>
    /\ UNCHANGED <<kernel, descriptors, changes>>

\* An interface seen before: its flags are compared with the item's.
KnownInterface(b) ==
    /\ At(b, "next")
    /\ ~AtEnd(b)
    /\ Known(b)
    /\ LET br   == browser[b]
           same == br.interfaces[Place(b)].flags = ItemFlags(b)
       IN Update(b, [br EXCEPT !.phase = "address",
                        !.warnings = IF same THEN @ ELSE @ \o Warn(b, "flags")])
    /\ UNCHANGED <<kernel, descriptors, changes, builds, witnessed, quiet>>

\* A fault in NewInterface: an index not found leaves that of the interface before.
NewInterfaceStale(b) ==
    /\ At(b, "next")
    /\ ~AtEnd(b)
    /\ ~Known(b)
    /\ \E ok \in BOOLEAN :
          /\ OpensSocket(b, ok)
          /\ LET i == NameToIndex(ItemName(b), ok)
             IN Update(b, [browser[b] EXCEPT !.phase = "mtu",
                                             !.index = IF i = 0 THEN @ ELSE i,
                                             !.starved = @ \/ ~ok])
    /\ UNCHANGED <<kernel, descriptors, changes, builds, witnessed, quiet>>

\* A new interface: its index is what the kernel says by now.
NewInterface(b) ==
    /\ At(b, "next")
    /\ ~AtEnd(b)
    /\ ~Known(b)
    /\ \E ok \in BOOLEAN :
          /\ OpensSocket(b, ok)
          /\ Update(b, [browser[b] EXCEPT !.phase = "mtu",
                                          !.index = NameToIndex(ItemName(b), ok),
                                          !.starved = @ \/ ~ok])
    /\ UNCHANGED <<kernel, descriptors, changes, builds, witnessed, quiet>>

\* The Interface is created with its MTU and put on the list.
Create(b, mtu, warnings, ok) ==
    LET br == browser[b]
        i  == br.index
        n  == ItemName(b)
    IN Update(b, [br EXCEPT
            !.phase = "address",
            !.starved = @ \/ ~ok,
            !.interfaces = Append(@, [index |-> i, name |-> n, flags |-> ItemFlags(b),
                                      mtu |-> mtu, mac |-> 0, v4 |-> << >>, v6 |-> << >>]),
            !.warnings = @ \o warnings,
            !.indexToName = IF @[i] = NoName THEN [@ EXCEPT ![i] = n] ELSE @])

\* A fault in GetMtu: it waits for a descriptor.
GetMtuWaiting(b) ==
    /\ At(b, "mtu")
    /\ DescriptorFree
    /\ descriptors' = descriptors + 1
    /\ \/ \E i \in Indexes : kernel[i] = ItemName(b) /\ Create(b, i, << >>, TRUE)
       \/ /\ \A i \in Indexes : kernel[i] # ItemName(b)
          /\ Create(b, 0, Warn(b, "ioctl"), TRUE)
    /\ UNCHANGED <<kernel, changes, builds, witnessed, quiet>>

\* A fault in GetMtu: it does not look at what socket() returns.
GetMtuUnchecked(b) ==
    /\ At(b, "mtu")
    /\ descriptors' = descriptors + 1
    /\ \/ \E i \in Indexes : kernel[i] = ItemName(b) /\ Create(b, i, << >>, TRUE)
       \/ /\ \A i \in Indexes : kernel[i] # ItemName(b)
          /\ Create(b, 0, Warn(b, "ioctl"), TRUE)
    /\ UNCHANGED <<kernel, changes, builds, witnessed, quiet>>

\* getMtu() asks by name, of whatever interface has the name by now; it does
\* not close its socket.
GetMtu(b) ==
    /\ At(b, "mtu")
    /\ \/ /\ OpensSocket(b, TRUE)
          /\ descriptors' = descriptors + 1
          /\ \/ \E i \in Indexes : kernel[i] = ItemName(b) /\ Create(b, i, << >>, TRUE)
             \/ /\ \A i \in Indexes : kernel[i] # ItemName(b)
                /\ Create(b, 0, Warn(b, "ioctl"), TRUE)
       \/ /\ OpensSocket(b, FALSE)
          /\ Create(b, 0, Warn(b, "socket"), FALSE)
          /\ UNCHANGED descriptors
    /\ UNCHANGED <<kernel, changes, builds, witnessed, quiet>>

-----------------------------------------------------------------------------
(* The item's address. *)

\* What becomes of the item's interface and of the warnings; ifa_next follows.
Finish(b, iface, warnings, ok) ==
    LET br == browser[b]
    IN /\ Update(b, [br EXCEPT !.phase = "next", !.pos = NextSlot(br.dump, @),
                               !.starved = @ \/ ~ok,
                               !.interfaces = [@ EXCEPT ![Place(b)] = iface],
                               !.warnings = @ \o warnings])
       /\ UNCHANGED <<kernel, descriptors, changes, builds, witnessed, quiet>>

This(b) == browser[b].interfaces[Place(b)]

NoAddress(b) == AtAddress(b, "null") /\ Finish(b, This(b), << >>, TRUE)

\* _setMacAddress: an Ethernet address, long enough and not all zero.
SetMacAddress(b) ==
    /\ AtAddress(b, "link")
    /\ \/ Item(b).hardware = "ether" /\ Finish(b, [This(b) EXCEPT !.mac = browser[b].pos], << >>, TRUE)
       \/ Item(b).hardware # "ether" /\ Finish(b, This(b), Warn(b, "hardware"), TRUE)

\* A fault in AddIPv4Address: an interface keeps only one address.
AddIPv4AddressAlone(b) ==
    /\ AtAddress(b, "inet")
    /\ LET p    == browser[b].pos
           kind == This(b).flags[1]
           a    == [slot |-> p, other |-> IF Item(b).other THEN kind ELSE "plain"]
       IN Finish(b, [This(b) EXCEPT !.v4 = <<a>>], << >>, TRUE)

\* _addIPv4Address: the interface's flags say what ifa_broadaddr or
\* ifa_dstaddr is, if it is there.
AddIPv4Address(b) ==
    /\ AtAddress(b, "inet")
    /\ LET p    == browser[b].pos
           kind == This(b).flags[1]
           a    == [slot |-> p, other |-> IF Item(b).other THEN kind ELSE "plain"]
       IN Finish(b, [This(b) EXCEPT !.v4 = Append(@, a)], << >>, TRUE)

\* A fault in ScopeName: the scope id is taken for a place on the list.
ScopeNameByPlace(b, ok) ==
    LET s == Item(b).scope
    IN IF s \in DOMAIN browser[b].interfaces THEN browser[b].interfaces[s].name ELSE NoName

\* The name of the scope: of an interface on the list, or the kernel's.
ScopeName(b, ok) ==
    LET s == Item(b).scope
    IN IF s = 0 THEN NoName
       ELSE IF LooksUpScope(b) THEN IndexToName(s, ok)
       ELSE browser[b].indexToName[s]

\* _addIPv6Address
AddIPv6Address(b) ==
    /\ AtAddress(b, "inet6")
    /\ \E ok \in BOOLEAN :
          /\ IF LooksUpScope(b) THEN OpensSocket(b, ok) ELSE ok
          /\ LET a == [slot |-> browser[b].pos, scopeName |-> ScopeName(b, ok)]
             IN Finish(b, [This(b) EXCEPT !.v6 = Append(@, a)], << >>, ok)

Unrecognized(b) == AtAddress(b, "other") /\ Finish(b, This(b), Warn(b, "family"), TRUE)

-----------------------------------------------------------------------------
(* The constructor's maps, and the end of the browser. *)

WithIndex(b, i) == {k \in DOMAIN browser[b].interfaces : browser[b].interfaces[k].index = i}
WithName(b, n)  == {k \in DOMAIN browser[b].interfaces : browser[b].interfaces[k].name = n}

\* A fault in First: a later interface replaces an earlier one.
Last(ks) == IF ks = {} THEN 0 ELSE CHOOSE k \in ks : \A j \in ks : j <= k

\* emplace() into a map keeps the first interface with a key; 0 if there is none.
First(ks) == IF ks = {} THEN 0 ELSE CHOOSE k \in ks : \A j \in ks : k <= j

\* Each interface goes into _indexToInterface and _nameToInterface.
Index(b) ==
    /\ At(b, "next")
    /\ AtEnd(b)
    /\ Update(b, [browser[b] EXCEPT
            !.phase = "built",
            !.indexToInterface = [i \in 0..MaxIndex |-> First(WithIndex(b, i))],
            !.nameToInterface  = [n \in Names |-> First(WithName(b, n))]])
    /\ UNCHANGED <<kernel, descriptors, changes, builds, witnessed, quiet>>

\* get_interface() and operator[] by index and by name; 0 stands for nullptr
\* and for std::out_of_range.
GetByIndex(b, i) == browser[b].indexToInterface[i]
GetByName(b, n)  == browser[b].nameToInterface[n]

\* The browser is destroyed, or the exception dealt with.
Destroy(b) ==
    /\ browser[b].phase \in {"built", "failed"}
    /\ Update(b, Fresh)
    /\ witnessed' = [witnessed EXCEPT ![b] = {}]
    /\ quiet' = [quiet EXCEPT ![b] = TRUE]
    /\ UNCHANGED <<kernel, descriptors, changes, builds>>

-----------------------------------------------------------------------------

\* A step of the constructor once getifaddrs() has returned.
Construct(b) ==
    \/ KnownInterface(b) \/ NewInterface(b) \/ GetMtu(b)
    \/ NoAddress(b) \/ SetMacAddress(b) \/ AddIPv4Address(b) \/ AddIPv6Address(b)
    \/ Unrecognized(b)
    \/ Index(b)

\* No constructor runs, possibly for ever.
Rest ==
    /\ \A b \in Builders : browser[b].phase \in {"idle", "built", "failed"}
    /\ UNCHANGED vars

Next ==
    \/ ChangeKernel
    \/ \E b \in Builders : GetIfAddrs(b) \/ Construct(b) \/ Destroy(b)
    \/ Rest

\* A constructor that runs keeps running; it waits for nobody.
Fairness == \A b \in Builders : WF_vars(Construct(b))

Spec == Init /\ [][Next]_vars /\ Fairness

-----------------------------------------------------------------------------
(* Properties *)

\* How Linux fills the list: each interface has at most one AF_PACKET item.
OneLinkItemEach ==
    \A p, q \in DOMAIN Slots :
        /\ Slots[p].family = "link"
        /\ Slots[q].family = "link"
        /\ Slots[p].origin = Slots[q].origin
        => p = q

Built(b) == At(b, "built")

Warned(b, reason, p) ==
    \E w \in DOMAIN browser[b].warnings : browser[b].warnings[w] = <<reason, p>>

\* The addresses came from the items with the given name and family, one from
\* each and in the list's order.
FromItems(dump, addresses, name, family) ==
    /\ {addresses[a].slot : a \in DOMAIN addresses} =
           {p \in DOMAIN Slots : dump[Slots[p].origin] = name /\ Slots[p].family = family}
    /\ \A a, c \in DOMAIN addresses : a < c => addresses[a].slot < addresses[c].slot

\* Grouping getifaddrs's list by name neither loses, repeats, reorders nor
\* misplaces anything: there is one interface for each name, with its IPv4 and
\* IPv6 addresses in the list's order; what is not kept is warned about.  (A
\* second hardware address would replace the first: see OneLinkItemEach.)
EverythingAccounted ==
    \A b \in Builders : Built(b) =>
        LET br == browser[b]
        IN /\ {br.interfaces[k].name : k \in DOMAIN br.interfaces} =
                   {br.dump[Slots[p].origin] : p \in {q \in DOMAIN Slots : Listed(br.dump, q)}}
           /\ \A k \in DOMAIN br.interfaces :
                LET f == br.interfaces[k]
                IN /\ \A j \in DOMAIN br.interfaces : br.interfaces[j].name = f.name => j = k
                   /\ FromItems(br.dump, f.v4, f.name, "inet")
                   /\ FromItems(br.dump, f.v6, f.name, "inet6")
                   /\ f.mtu = 0 => \E p \in DOMAIN Slots, r \in {"ioctl", "socket"} :
                                       /\ br.dump[Slots[p].origin] = f.name
                                       /\ Warned(b, r, p)
           /\ \A p \in DOMAIN Slots : Listed(br.dump, p) =>
                /\ Slots[p].family = "other" => Warned(b, "family", p)
                /\ Slots[p].family = "link" =>
                       Warned(b, "hardware", p) \/ \E k \in DOMAIN br.interfaces :
                                                      br.interfaces[k].mac = p

\* Every name that a browser gives an IPv6 scope is one that the kernel gave its
\* index at some time during the construction.
HonestScopes ==
    \A b \in Builders : \A k \in DOMAIN browser[b].interfaces :
        \A a \in DOMAIN browser[b].interfaces[k].v6 :
            LET v == browser[b].interfaces[k].v6[a]
            IN v.scopeName # NoName => <<Slots[v.slot].scope, v.scopeName>> \in witnessed[b]

\* What a browser says of a system that was quiet while it was built is right or
\* left open, even if other threads took all of the descriptors now and then:
\* an index is its interface's own and finds it, an MTU is its interface's own
\* and getWarnings() tells if it is missing, a scope's name is its interface's,
\* and every name finds its interface.  Nothing is left open if every call of
\* the constructor had its descriptor.
QuietSnapshot ==
    \A b \in Builders : Built(b) /\ quiet[b] =>
        LET br == browser[b]
        IN \A k \in DOMAIN br.interfaces :
             LET f == br.interfaces[k]
             IN /\ f.index # 0 => <<f.index, f.name>> \in Pairs(kernel) /\ GetByIndex(b, f.index) = k
                /\ f.mtu # 0 => <<f.mtu, f.name>> \in Pairs(kernel)
                /\ f.mtu = 0 => \E p \in DOMAIN Slots : /\ br.dump[Slots[p].origin] = f.name
                                                        /\ Warned(b, "socket", p)
                /\ GetByName(b, f.name) = k
                /\ \A a \in DOMAIN f.v6 :
                      LET v == f.v6[a]
                          s == Slots[v.slot].scope
                      IN /\ v.scopeName # NoName => v.scopeName = kernel[s]
                         /\ ~br.starved /\ s # 0 => v.scopeName = kernel[s]
                /\ ~br.starved => f.index # 0 /\ f.mtu # 0

\* Whatever the kernel did meanwhile, every interface of the browser is found
\* by its name; by its index it is, unless an interface before it has the same.
LookupsFind ==
    \A b \in Builders : Built(b) =>
        \A k \in DOMAIN browser[b].interfaces :
            LET f == browser[b].interfaces[k]
                j == GetByIndex(b, f.index)
            IN /\ GetByName(b, f.name) = k
               /\ j \in 1..k
               /\ browser[b].interfaces[j].index = f.index

\* A constructor comes to an end.
ConstructionEnds ==
    \A b \in Builders :
        browser[b].phase \in {"next", "mtu", "address"} ~>
            browser[b].phase \notin {"next", "mtu", "address"}

\* "assert( index > 0 )" in populateInterfaces.
IndexAsserted == \A b \in Builders : At(b, "mtu") => browser[b].index > 0

\* Interface.getMtu(): "the interface's configured MTU, or null if no MTU is
\* configured".  Every interface here has one.
MtuReported ==
    \A b \in Builders : Built(b) /\ quiet[b] =>
        \A k \in DOMAIN browser[b].interfaces : browser[b].interfaces[k].mtu # 0
=============================================================================
