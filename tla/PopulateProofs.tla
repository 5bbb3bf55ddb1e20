--------------------------- MODULE PopulateProofs ---------------------------
(***************************************************************************)
(* Theorems about Populate, for any list, any number of builders, changes, *)
(* constructions and descriptors: types, honest scopes,                    *)
(* everything on the list accounted for, lookups that find, and a browser  *)
(* that is the system if the system was quiet.                             *)
(***************************************************************************)
EXTENDS Populate, StackLemmas

-----------------------------------------------------------------------------
(* The inductive invariant says of every builder's browser, at every point *)
(* of populateInterfaces, what is done and what is true of it.  Its parts  *)
(* are about a browser br as a value.                                      *)

Active(br) == br.phase \in {"next", "mtu", "address", "built"}

\* The name of the interface of slot p.
NameAt(br, p) == br.dump[Slots[p].origin]

\* No two interfaces have the same name.
Distinct(k) == \A i, j \in Indexes : k[i] = k[j] /\ k[i] # NoName => i = j

\* Where the constructor is on the list.
Position(br) ==
    /\ ~Active(br) => br.interfaces = << >>
    /\ Active(br) =>
         /\ Distinct(br.dump)
         /\ br.pos \in 1..Len(Slots) + 1
         /\ br.pos \in DOMAIN Slots => Listed(br.dump, br.pos)
         /\ br.phase \in {"mtu", "address"} => br.pos \in DOMAIN Slots
         /\ br.phase = "built" => br.pos = Len(Slots) + 1

\* There is an interface for the item in slot p.
Met(br, p) == p < br.pos \/ (p = br.pos /\ br.phase = "address")

\* The interfaces are those of the items met, one for each name.
Grouped(br) ==
    /\ \A j, k \in DOMAIN br.interfaces : br.interfaces[j].name = br.interfaces[k].name => j = k
    /\ \A k \in DOMAIN br.interfaces : \E p \in DOMAIN Slots :
          Met(br, p) /\ br.interfaces[k].name = NameAt(br, p)
    /\ \A p \in DOMAIN Slots : Listed(br.dump, p) /\ Met(br, p) =>
          \E k \in DOMAIN br.interfaces : br.interfaces[k].name = NameAt(br, p)
    /\ br.phase = "mtu" =>
          \A k \in DOMAIN br.interfaces : br.interfaces[k].name # NameAt(br, br.pos)

\* FromItems for the items before pos.
FromPassed(br, addresses, name, family) ==
    /\ \A a \in DOMAIN addresses :
          LET p == addresses[a].slot
          IN /\ p \in DOMAIN Slots /\ p < br.pos
             /\ NameAt(br, p) = name /\ Slots[p].family = family
    /\ \A p \in DOMAIN Slots :
          p < br.pos /\ NameAt(br, p) = name /\ Slots[p].family = family =>
              \E a \in DOMAIN addresses : addresses[a].slot = p
    /\ \A a, c \in DOMAIN addresses : a < c => addresses[a].slot < addresses[c].slot

Addressed(br) ==
    \A k \in DOMAIN br.interfaces :
        LET f == br.interfaces[k]
        IN /\ FromPassed(br, f.v4, f.name, "inet")
           /\ FromPassed(br, f.v6, f.name, "inet6")

\* Warned, of a browser as a value.
HasWarning(br, reason, p) == \E w \in DOMAIN br.warnings : br.warnings[w] = <<reason, p>>

\* What is not kept is warned about: an MTU, an address of another family.
Excused(br) ==
    /\ \A k \in DOMAIN br.interfaces : br.interfaces[k].mtu = 0 =>
          \E p \in DOMAIN Slots, r \in {"ioctl", "socket"} :
              NameAt(br, p) = br.interfaces[k].name /\ HasWarning(br, r, p)
    /\ \A p \in DOMAIN Slots :
          Listed(br.dump, p) /\ p < br.pos /\ Slots[p].family = "other" =>
              HasWarning(br, "family", p)

\* The same of hardware addresses.
Linked(br) ==
    \A p \in DOMAIN Slots :
        Listed(br.dump, p) /\ p < br.pos /\ Slots[p].family = "link" =>
            \/ HasWarning(br, "hardware", p)
            \/ \E k \in DOMAIN br.interfaces :
                  br.interfaces[k].mac = p /\ br.interfaces[k].name = NameAt(br, p)

\* The constructor's maps are there in the end.
Indexed(br) ==
    br.phase = "built" =>
        /\ \A i \in 0..MaxIndex : br.indexToInterface[i] =
              First({k \in DOMAIN br.interfaces : br.interfaces[k].index = i})
        /\ \A n \in Names : br.nameToInterface[n] =
              First({k \in DOMAIN br.interfaces : br.interfaces[k].name = n})

\* Each index, with its name, is one that has been seen in the kernel (w).
Honest(br, w) ==
    /\ br.phase = "mtu" /\ br.index # 0 => <<br.index, NameAt(br, br.pos)>> \in w
    /\ \A k \in DOMAIN br.interfaces : br.interfaces[k].index # 0 =>
          <<br.interfaces[k].index, br.interfaces[k].name>> \in w
    /\ \A i \in Indexes : br.indexToName[i] # NoName => <<i, br.indexToName[i]>> \in w
    /\ \A k \in DOMAIN br.interfaces : \A a \in DOMAIN br.interfaces[k].v6 :
          LET v == br.interfaces[k].v6[a]
          IN v.scopeName # NoName => <<Slots[v.slot].scope, v.scopeName>> \in w

\* The index of every interface has a name.
Named(br) == \A k \in DOMAIN br.interfaces : br.indexToName[br.interfaces[k].index] # NoName

\* What is said of an interface f of a quiet kernel (kn) is right, or left open
\* because a call found no descriptor; then getWarnings() tells of the MTU.
Own(br, kn, f) ==
    /\ f.index = 0 => br.starved
    /\ f.mtu # 0 => <<f.mtu, f.name>> \in Pairs(kn)
    /\ f.mtu = 0 => /\ br.starved
                    /\ \E p \in DOMAIN Slots :
                          NameAt(br, p) = f.name /\ HasWarning(br, "socket", p)
    /\ \A a \in DOMAIN f.v6 :
          LET v == f.v6[a]
              i == Slots[v.slot].scope
          IN i # 0 /\ v.scopeName = NoName => br.starved \/ kn[i] = NoName

Quiet(br, kn, w) ==
    /\ br.dump = kn
    /\ w = Pairs(kn)
    /\ br.phase = "mtu" /\ br.index = 0 => br.starved
    /\ \A k \in DOMAIN br.interfaces : Own(br, kn, br.interfaces[k])

BrowserOK(br, kn, w, q) ==
    /\ Position(br)
    /\ Grouped(br)
    /\ Addressed(br)
    /\ Excused(br)
    /\ OneLinkItemEach => Linked(br)
    /\ Indexed(br)
    /\ Honest(br, w)
    /\ Named(br)
    /\ Active(br) => Pairs(kn) \subseteq w
    /\ Active(br) /\ q => Quiet(br, kn, w)

Inv ==
    /\ TypeOK
    /\ Distinct(kernel)
    /\ \A b \in Builders :
          BrowserOK(browser[b], kernel, witnessed[b], quiet[b])

-----------------------------------------------------------------------------
(* Places on the list, and the list itself. *)

\* The first of some places, if there is any.
LEMMA FirstIsLeast ==
    ASSUME NEW ks, ks \subseteq Nat \ {0}
    PROVE  /\ First(ks) \in Nat
           /\ ks # {} => First(ks) \in ks /\ \A j \in ks : First(ks) <= j
  <1>1. CASE ks = {}
    BY <1>1 DEF First
  <1>2. CASE ks # {}
    <2>1. \E k \in ks : \A j \in ks : k <= j
      BY <1>2, LeastElement
    <2>2. First(ks) \in ks /\ \A j \in ks : First(ks) <= j
      BY <1>2, <2>1, Zenon DEF First
    <2>3. QED
      BY <2>2
  <1>3. QED
    BY <1>1, <1>2

LEMMA SlotTypes ==
    ASSUME NEW p \in DOMAIN Slots
    PROVE  /\ p \in 1..Len(Slots)
           /\ Slots[p].origin \in Indexes
           /\ Slots[p].family \in Families
           /\ Slots[p].flags \in Flags
           /\ Slots[p].scope \in 0..MaxIndex
  <1>1. Slots \in Seq(Slot) /\ p \in 1..Len(Slots)
    BY PopulateAssumption, LenProperties
  <1>2. Slots[p] \in Slot
    BY <1>1, ElementOfSeq
  <1>3. QED
    BY <1>1, <1>2 DEF Slot

LEMMA SlotPlaces == Len(Slots) \in Nat /\ DOMAIN Slots = 1..Len(Slots)
  BY PopulateAssumption, LenProperties

\* The next slot on the list is the first one listed after p, or the end.
LEMMA NextSlotIsNext ==
    ASSUME NEW dump, NEW p \in 0..Len(Slots)
    PROVE  LET q == NextSlot(dump, p)
           IN /\ q \in 1..Len(Slots) + 1
              /\ q > p
              /\ q \in DOMAIN Slots => Listed(dump, q)
              /\ \A r \in DOMAIN Slots : r > p /\ r < q => ~Listed(dump, r)
  <1> DEFINE Good(q) == Listed(dump, q) \/ q = Len(Slots) + 1
             T == {q \in 1..Len(Slots) + 1 : q > p /\ Good(q)}
  <1>1. Len(Slots) \in Nat /\ DOMAIN Slots = 1..Len(Slots)
    BY SlotPlaces
  <1>2. Len(Slots) + 1 \in T /\ T \subseteq Nat
    BY <1>1
  <1>3. PICK q \in T : \A j \in T : q <= j
    <2> HIDE DEF T
    <2>1. QED
      BY <1>2, LeastElement, Zenon
  <1>4. /\ q \in 1..Len(Slots) + 1
        /\ q > p
        /\ Good(q)
    BY <1>3
  <1>5. \A r \in 1..q - 1 : r > p => ~Listed(dump, r)
    <2> SUFFICES ASSUME NEW r \in 1..q - 1, r > p, Listed(dump, r) PROVE FALSE
      OBVIOUS
    <2>1. r \in T /\ r < q
      BY <1>1, <1>4
    <2>2. QED
      BY <1>1, <1>3, <1>4, <2>1
  <1> DEFINE Next1(x) == /\ x > p
                         /\ Listed(dump, x) \/ x = Len(Slots) + 1
                         /\ \A r \in 1..x - 1 : r > p => ~Listed(dump, r)
             n == NextSlot(dump, p)
  <1>6. n = CHOOSE x \in 1..Len(Slots) + 1 : Next1(x)
    BY DEF NextSlot
  <1>7. Next1(q)
    BY <1>4, <1>5
  <1> HIDE DEF Next1
  <1>8. n \in 1..Len(Slots) + 1 /\ Next1(n)
    BY <1>4, <1>6, <1>7, Zenon
  <1> HIDE DEF n
  <1>9. /\ n > p
        /\ Listed(dump, n) \/ n = Len(Slots) + 1
        /\ \A r \in 1..n - 1 : r > p => ~Listed(dump, r)
    BY <1>8 DEF Next1
  <1>10. /\ n \in DOMAIN Slots => Listed(dump, n)
         /\ \A r \in DOMAIN Slots : r > p /\ r < n => ~Listed(dump, r)
    BY <1>1, <1>8, <1>9
  <1>11. QED
    BY <1>8, <1>9, <1>10 DEF n

\* The names on the list.
LEMMA NamesAt ==
    ASSUME NEW br \in Browser, NEW p \in DOMAIN Slots
    PROVE  /\ NameAt(br, p) \in Names \union {NoName}
           /\ Listed(br.dump, p) <=> NameAt(br, p) \in Names
           /\ Listed(br.dump, p) <=> NameAt(br, p) # NoName
  <1>1. Slots[p].origin \in Indexes /\ br.dump \in [Indexes -> Names \union {NoName}]
    BY SlotTypes DEF Browser
  <1>2. br.dump[Slots[p].origin] \in Names \union {NoName}
    BY <1>1
  <1>3. QED
    BY <1>2, PopulateAssumption DEF NameAt, Listed

-----------------------------------------------------------------------------
(* Steps that put nothing on the browser's lists but warnings. *)

\* No warning is taken back.
StillWarned(br, nb) ==
    \A r \in Reasons, p \in DOMAIN Slots : HasWarning(br, r, p) => HasWarning(nb, r, p)

\* Where a browser is, and what it was told, decides what its addresses came from.
LEMMA SamePassed ==
    ASSUME NEW br, NEW nb, nb.dump = br.dump, nb.pos = br.pos, NEW v, NEW n, NEW f,
           FromPassed(br, v, n, f)
    PROVE  FromPassed(nb, v, n, f)
  BY DEF FromPassed, NameAt

LEMMA WarningsGrow ==
    ASSUME NEW br \in Browser, NEW nb, NEW x \in Seq(Reasons \X Nat),
           nb.warnings = br.warnings \o x
    PROVE  /\ nb.warnings \in Seq(Reasons \X Nat)
           /\ StillWarned(br, nb)
           /\ \A i \in DOMAIN x : \A r, p : x[i] = <<r, p>> => HasWarning(nb, r, p)
  <1> DEFINE s == br.warnings
             t == nb.warnings
  <1>1. s \in Seq(Reasons \X Nat)
    BY DEF Browser
  <1>2. t = s \o x
    OBVIOUS
  <1>3. /\ t \in Seq(Reasons \X Nat)
        /\ Len(t) = Len(s) + Len(x)
        /\ \A i \in 1..Len(s) + Len(x) : t[i] = IF i <= Len(s) THEN s[i] ELSE x[i - Len(s)]
    <2> HIDE DEF s, t
    <2>1. QED
      BY <1>1, <1>2, ConcatProperties
  <1>4. /\ Len(s) \in Nat /\ DOMAIN s = 1..Len(s)
        /\ Len(x) \in Nat /\ DOMAIN x = 1..Len(x)
        /\ DOMAIN t = 1..Len(s) + Len(x)
    <2>1. /\ Len(s) \in Nat /\ DOMAIN s = 1..Len(s)
          /\ Len(x) \in Nat /\ DOMAIN x = 1..Len(x)
      BY <1>1, LenProperties
    <2>2. DOMAIN t = 1..Len(t)
      BY <1>3, LenProperties
    <2>3. QED
      BY <1>3, <2>1, <2>2
  <1> HIDE DEF s, t
  <1>5. \A i \in DOMAIN s : i \in DOMAIN t /\ t[i] = s[i]
    BY <1>3, <1>4
  <1>6. ASSUME NEW i \in DOMAIN x PROVE Len(s) + i \in DOMAIN t /\ t[Len(s) + i] = x[i]
    <2>1. /\ i \in Nat /\ Len(s) + i \in 1..Len(s) + Len(x)
          /\ ~ (Len(s) + i <= Len(s)) /\ (Len(s) + i) - Len(s) = i
      BY <1>4
    <2>2. QED
      BY <1>3, <1>4, <2>1, Zenon
  <1>7. \A r, p : HasWarning(br, r, p) => HasWarning(nb, r, p)
    BY <1>5, Zenon DEF HasWarning, s, t
  <1>8. \A i \in DOMAIN x : \A r, p : x[i] = <<r, p>> => HasWarning(nb, r, p)
    BY <1>6, Zenon DEF HasWarning, t
  <1>9. QED
    BY <1>3, <1>7, <1>8 DEF StillWarned, t

\* What is said of an interface stays right.
LEMMA OwnStays ==
    ASSUME NEW br, NEW nb, NEW kn, NEW f, Own(br, kn, f),
           nb.dump = br.dump, StillWarned(br, nb), br.starved => nb.starved
    PROVE  Own(nb, kn, f)
  <1>1. "socket" \in Reasons /\ \A p : NameAt(nb, p) = NameAt(br, p)
    BY DEF Reasons, NameAt
  <1>2. QED
    BY <1>1, Zenon DEF Own, StillWarned

\* KnownInterface: on to the item's address.
LEMMA KnownStep ==
    ASSUME NEW br \in Browser, NEW nb \in Browser, NEW kn, NEW w, NEW q,
           BrowserOK(br, kn, w, q),
           br.phase = "next", br.pos \in DOMAIN Slots,
           NEW k0 \in DOMAIN br.interfaces, br.interfaces[k0].name = NameAt(br, br.pos),
           nb.phase = "address", nb.dump = br.dump, nb.pos = br.pos,
           nb.interfaces = br.interfaces, nb.indexToName = br.indexToName,
           StillWarned(br, nb), br.starved => nb.starved
    PROVE  BrowserOK(nb, kn, w, q)
  <1>1. Position(nb)
    BY DEF BrowserOK, Position, Active
  <1>2. \A p : NameAt(nb, p) = NameAt(br, p)
    BY DEF NameAt
  <1>3. \A p \in DOMAIN Slots : Met(nb, p) <=> Met(br, p) \/ p = br.pos
    BY DEF Met
  <1>4. Grouped(nb)
    <2>1. Grouped(br)
      BY DEF BrowserOK
    <2>2. \A k \in DOMAIN nb.interfaces : \E p \in DOMAIN Slots :
             Met(nb, p) /\ nb.interfaces[k].name = NameAt(nb, p)
      BY <1>2, <1>3, <2>1 DEF Grouped
    <2>3. \A p \in DOMAIN Slots : Listed(nb.dump, p) /\ Met(nb, p) =>
             \E k \in DOMAIN nb.interfaces : nb.interfaces[k].name = NameAt(nb, p)
      BY <1>2, <1>3, <2>1 DEF Grouped
    <2>4. QED
      BY <1>2, <2>1, <2>2, <2>3 DEF Grouped
  <1>5. Addressed(nb)
    <2>1. \A v, n, f : FromPassed(br, v, n, f) => FromPassed(nb, v, n, f)
      BY SamePassed
    <2>2. QED
      BY <2>1, Zenon DEF BrowserOK, Addressed
  <1>6. Excused(nb)
    <2>1. \A r \in {"ioctl", "socket"} : r \in Reasons
      BY DEF Reasons
    <2>2. "family" \in Reasons
      BY DEF Reasons
    <2>3. QED
      BY <1>2, <2>1, <2>2, Zenon DEF BrowserOK, Excused, StillWarned
  <1>7. OneLinkItemEach => Linked(nb)
    <2>1. "hardware" \in Reasons
      BY DEF Reasons
    <2>2. OneLinkItemEach => Linked(br)
      BY Zenon DEF BrowserOK
    <2>3. \A p \in DOMAIN Slots : HasWarning(br, "hardware", p) => HasWarning(nb, "hardware", p)
      BY <2>1, Zenon DEF StillWarned
    <2>4. SUFFICES ASSUME Linked(br), NEW p \in DOMAIN Slots,
                          Listed(nb.dump, p), p < nb.pos, Slots[p].family = "link",
                          ~HasWarning(nb, "hardware", p)
                   PROVE  \E k \in DOMAIN nb.interfaces :
                              nb.interfaces[k].mac = p /\ nb.interfaces[k].name = NameAt(nb, p)
      BY <2>2 DEF Linked
    <2>5. PICK k \in DOMAIN br.interfaces :
             br.interfaces[k].mac = p /\ br.interfaces[k].name = NameAt(br, p)
      BY <2>3, <2>4 DEF Linked
    <2>6. QED
      BY <1>2, <2>5
  <1>8. Indexed(nb)
    BY DEF Indexed
  <1>9. Honest(nb, w)
    BY <1>2 DEF BrowserOK, Honest
  <1>10. Named(nb)
    BY DEF BrowserOK, Named
  <1>11. Active(nb) => Pairs(kn) \subseteq w
    BY DEF BrowserOK, Active
  <1>12. Active(nb) /\ q => Quiet(nb, kn, w)
    <2>1. Active(br) /\ nb.phase # "mtu"
      BY DEF Active
    <2>2. QED
      BY <2>1, OwnStays, Zenon DEF BrowserOK, Quiet
  <1>13. QED
    BY <1>1, <1>4, <1>5, <1>6, <1>7, <1>8, <1>9, <1>10, <1>11, <1>12, Zenon DEF BrowserOK

\* NewInterface: the index i is 0 or one that the kernel just confirmed.
LEMMA NewStep ==
    ASSUME NEW br \in Browser, NEW nb \in Browser, NEW kn, NEW w, NEW q, NEW i,
           BrowserOK(br, kn, w, q),
           br.phase = "next", br.pos \in DOMAIN Slots,
           \A k \in DOMAIN br.interfaces : br.interfaces[k].name # NameAt(br, br.pos),
           i # 0 => <<i, NameAt(br, br.pos)>> \in Pairs(kn),
           i = 0 => nb.starved \/ \A j \in Indexes : kn[j] # NameAt(br, br.pos),
           nb.phase = "mtu", nb.dump = br.dump, nb.pos = br.pos, nb.index = i,
           nb.interfaces = br.interfaces, nb.indexToName = br.indexToName,
           nb.warnings = br.warnings, br.starved => nb.starved
    PROVE  BrowserOK(nb, kn, w, q)
  <1>1. Position(nb)
    BY DEF BrowserOK, Position, Active
  <1>2. \A p : NameAt(nb, p) = NameAt(br, p)
    BY DEF NameAt
  <1>3. \A p \in DOMAIN Slots : Met(nb, p) <=> Met(br, p)
    BY DEF Met
  <1>4. Grouped(nb)
    <2>1. Grouped(br)
      BY DEF BrowserOK
    <2>2. \A k \in DOMAIN nb.interfaces : \E p \in DOMAIN Slots :
             Met(nb, p) /\ nb.interfaces[k].name = NameAt(nb, p)
      BY <1>2, <1>3, <2>1 DEF Grouped
    <2>3. \A p \in DOMAIN Slots : Listed(nb.dump, p) /\ Met(nb, p) =>
             \E k \in DOMAIN nb.interfaces : nb.interfaces[k].name = NameAt(nb, p)
      BY <1>2, <1>3, <2>1 DEF Grouped
    <2>4. QED
      BY <1>2, <2>1, <2>2, <2>3 DEF Grouped
  <1>5. Addressed(nb)
    <2>1. \A v, n, f : FromPassed(br, v, n, f) => FromPassed(nb, v, n, f)
      BY SamePassed
    <2>2. QED
      BY <2>1, Zenon DEF BrowserOK, Addressed
  <1>a. \A r, p : HasWarning(br, r, p) <=> HasWarning(nb, r, p)
    BY DEF HasWarning
  <1>6. Excused(nb)
    BY <1>2, <1>a DEF BrowserOK, Excused
  <1>7. OneLinkItemEach => Linked(nb)
    <2>1. OneLinkItemEach => Linked(br)
      BY Zenon DEF BrowserOK
    <2>2. Linked(br) => Linked(nb)
      BY <1>2, <1>a DEF Linked
    <2>3. QED
      BY <2>1, <2>2
  <1>8. Indexed(nb)
    BY DEF Indexed
  <1>9. Active(br) /\ Pairs(kn) \subseteq w
    BY DEF BrowserOK, Active
  <1>10. Honest(nb, w)
    BY <1>2, <1>9 DEF BrowserOK, Honest
  <1>11. Named(nb)
    BY DEF BrowserOK, Named
  <1>12. Active(nb) => Pairs(kn) \subseteq w
    BY <1>9
  <1>13. ASSUME q PROVE Quiet(nb, kn, w)
    <2>1. Quiet(br, kn, w)
      BY <1>9, <1>13 DEF BrowserOK
    <2>2. i = 0 => nb.starved
      <3>1. Slots[br.pos].origin \in Indexes
        BY SlotTypes
      <3>2. kn[Slots[br.pos].origin] = NameAt(br, br.pos)
        BY <2>1 DEF Quiet, NameAt
      <3>3. QED
        BY <3>1, <3>2
    <2>3. QED
      BY <1>a, <2>1, <2>2, OwnStays, Zenon DEF Quiet, StillWarned
  <1>14. QED
    BY <1>1, <1>4, <1>5, <1>6, <1>7, <1>8, <1>10, <1>11, <1>12, <1>13, Zenon DEF BrowserOK

-----------------------------------------------------------------------------
(* Create: a new interface at the end of the list. *)

LEMMA CreateStep ==
    ASSUME NEW br \in Browser, NEW nb \in Browser, NEW kn, NEW w, NEW q,
           NEW f \in Interface,
           BrowserOK(br, kn, w, q),
           br.phase = "mtu",
           f.index = br.index, f.name = NameAt(br, br.pos),
           f.v4 = << >>, f.v6 = << >>,
           f.mtu # 0 => f.mtu \in Indexes /\ kn[f.mtu] = f.name,
           f.mtu = 0 => \/ HasWarning(nb, "socket", br.pos) /\ nb.starved
                        \/ /\ HasWarning(nb, "ioctl", br.pos)
                           /\ \A j \in Indexes : kn[j] # f.name,
           nb.phase = "address", nb.dump = br.dump, nb.pos = br.pos,
           nb.interfaces = Append(br.interfaces, f),
           nb.indexToName = IF br.indexToName[br.index] = NoName
                            THEN [br.indexToName EXCEPT ![br.index] = f.name]
                            ELSE br.indexToName,
           StillWarned(br, nb), br.starved => nb.starved
    PROVE  BrowserOK(nb, kn, w, q)
  <1> DEFINE s == br.interfaces
             t == nb.interfaces
  <1>1. /\ s \in Seq(Interface) /\ Len(s) \in Nat /\ DOMAIN s = 1..Len(s)
        /\ br.index \in 0..MaxIndex
        /\ br.indexToName \in [0..MaxIndex -> Names \union {NoName}]
    <2>1. s \in Seq(Interface)
      BY DEF Browser
    <2>2. Len(s) \in Nat /\ DOMAIN s = 1..Len(s)
      BY <2>1, LenProperties
    <2>3. QED
      BY <2>1, <2>2 DEF Browser
  <1>2. /\ DOMAIN t = 1..(Len(s) + 1)
        /\ \A k \in 1..Len(s) : t[k] = s[k]
        /\ t[Len(s) + 1] = f
    <2> HIDE DEF s
    <2>1. QED
      BY <1>1, PushLemma DEF s
  <1> DEFINE l == Len(s) + 1
  <1>3. /\ l \in DOMAIN t /\ t[l] = f
        /\ \A k \in DOMAIN t : k = l \/ (k # l /\ k \in DOMAIN s /\ t[k] = s[k])
        /\ \A k \in DOMAIN s : k # l /\ k \in DOMAIN t /\ t[k] = s[k]
    BY <1>1, <1>2
  <1> HIDE DEF l, s, t
  <1>4. /\ Position(br) /\ Active(br) /\ br.pos \in DOMAIN Slots /\ Listed(br.dump, br.pos)
        /\ Pairs(kn) \subseteq w
    BY DEF BrowserOK, Position, Active
  <1>5. Position(nb)
    BY <1>4 DEF Position, Active
  <1>6. \A p : NameAt(nb, p) = NameAt(br, p)
    BY DEF NameAt
  <1>7. \A p \in DOMAIN Slots : Met(nb, p) <=> Met(br, p) \/ p = br.pos
    BY DEF Met
  <1>8. Grouped(br) /\ \A k \in DOMAIN s : s[k].name # f.name
    BY DEF BrowserOK, Grouped, s
  <1>9. Grouped(nb)
    <2>1. \A j, k \in DOMAIN t : t[j].name = t[k].name => j = k
      BY <1>3, <1>8 DEF Grouped, s
    <2>2. \A k \in DOMAIN t : \E p \in DOMAIN Slots : Met(nb, p) /\ t[k].name = NameAt(nb, p)
      BY <1>3, <1>4, <1>6, <1>7, <1>8 DEF Grouped, s
    <2>3. \A p \in DOMAIN Slots : Listed(nb.dump, p) /\ Met(nb, p) =>
             \E k \in DOMAIN t : t[k].name = NameAt(nb, p)
      BY <1>3, <1>6, <1>7, <1>8 DEF Grouped, s
    <2>4. QED
      BY <2>1, <2>2, <2>3 DEF Grouped, t
  <1>10. Addressed(nb)
    <2>1. ASSUME NEW fam PROVE FromPassed(nb, << >>, f.name, fam)
      <3>1. DOMAIN << >> = {}
        OBVIOUS
      <3>2. ASSUME NEW p \in DOMAIN Slots, p < nb.pos, NameAt(nb, p) = f.name PROVE FALSE
        <4>1. Met(br, p) /\ NameAt(br, p) = f.name
          BY <1>6, <3>2 DEF Met
        <4>2. Listed(br.dump, p)
          BY <1>4, <4>1, NamesAt
        <4>3. PICK k \in DOMAIN s : s[k].name = NameAt(br, p)
          BY <1>8, <4>1, <4>2 DEF Grouped, s
        <4>4. QED
          BY <1>8, <4>1, <4>3
      <3>3. QED
        BY <3>1, <3>2 DEF FromPassed
    <2>2. \A v, n, fam : FromPassed(br, v, n, fam) => FromPassed(nb, v, n, fam)
      BY SamePassed
    <2>3. \A k \in DOMAIN s :
             /\ FromPassed(br, s[k].v4, s[k].name, "inet")
             /\ FromPassed(br, s[k].v6, s[k].name, "inet6")
      BY DEF BrowserOK, Addressed, s
    <2>4. \A k \in DOMAIN t :
             /\ FromPassed(nb, t[k].v4, t[k].name, "inet")
             /\ FromPassed(nb, t[k].v6, t[k].name, "inet6")
      BY <1>3, <2>1, <2>2, <2>3
    <2>5. QED
      BY <2>4 DEF Addressed, t
  <1>11. Excused(nb)
    <2>1. Excused(br)
      BY DEF BrowserOK
    <2>2. \A r \in {"ioctl", "socket", "family"} : r \in Reasons
      BY DEF Reasons
    <2>3. f.mtu = 0 => \E p \in DOMAIN Slots, r \in {"ioctl", "socket"} :
                          NameAt(nb, p) = f.name /\ HasWarning(nb, r, p)
      BY <1>4, <1>6
    <2>4. \A k \in DOMAIN s : s[k].mtu = 0 =>
             \E p \in DOMAIN Slots, r \in {"ioctl", "socket"} :
                NameAt(nb, p) = s[k].name /\ HasWarning(nb, r, p)
      BY <1>6, <2>1, <2>2 DEF Excused, StillWarned, s
    <2>5. \A k \in DOMAIN t : t[k].mtu = 0 =>
             \E p \in DOMAIN Slots, r \in {"ioctl", "socket"} :
                NameAt(nb, p) = t[k].name /\ HasWarning(nb, r, p)
      BY <1>3, <2>3, <2>4
    <2>6. \A p \in DOMAIN Slots :
             Listed(nb.dump, p) /\ p < nb.pos /\ Slots[p].family = "other" =>
                HasWarning(nb, "family", p)
      BY <2>1, <2>2 DEF Excused, StillWarned
    <2>7. QED
      BY <2>5, <2>6 DEF Excused, t
  <1>12. ASSUME OneLinkItemEach PROVE Linked(nb)
    <2>1. Linked(br) /\ "hardware" \in Reasons
      BY <1>12 DEF BrowserOK, Reasons
    <2>2. QED
      BY <1>3, <1>6, <2>1 DEF Linked, StillWarned, s, t
  <1>13. Indexed(nb)
    BY DEF Indexed
  <1>14. \A i \in 0..MaxIndex :
            nb.indexToName[i] = IF i = br.index /\ br.indexToName[i] = NoName
                                THEN f.name ELSE br.indexToName[i]
    BY <1>1
  <1>15. Honest(br, w)
    BY DEF BrowserOK
  <1>16. Honest(nb, w)
    <2>1. f.index # 0 => <<f.index, f.name>> \in w
      BY <1>15 DEF Honest
    <2>2. \A k \in DOMAIN t : t[k].index # 0 => <<t[k].index, t[k].name>> \in w
      BY <1>3, <1>15, <2>1 DEF Honest, s
    <2>3. ASSUME NEW i \in Indexes, nb.indexToName[i] # NoName
          PROVE  <<i, nb.indexToName[i]>> \in w
      <3>1. i \in 0..MaxIndex /\ i # 0
        BY PopulateAssumption DEF Indexes
      <3>2. QED
        BY <1>14, <1>15, <2>1, <2>3, <3>1 DEF Honest
    <2>4. DOMAIN f.v6 = {}
      OBVIOUS
    <2>5. \A k \in DOMAIN t : \A a \in DOMAIN t[k].v6 :
             t[k].v6[a].scopeName # NoName =>
                <<Slots[t[k].v6[a].slot].scope, t[k].v6[a].scopeName>> \in w
      BY <1>3, <1>15, <2>4 DEF Honest, s
    <2>6. QED
      BY <2>2, <2>3, <2>5 DEF Honest, t
  <1>17. Named(nb)
    <2>1. f.name # NoName /\ \A k \in DOMAIN s : s[k].index \in 0..MaxIndex
      <3>1. \A k \in DOMAIN s : s[k] \in Interface
        BY <1>1, ElementOfSeq
      <3>2. QED
        BY <3>1, PopulateAssumption DEF Interface
    <2>2. Named(br)
      BY DEF BrowserOK
    <2>3. QED
      BY <1>1, <1>3, <1>14, <2>1, <2>2 DEF Named, s, t
  <1>18. ASSUME q PROVE Quiet(nb, kn, w)
    <2>1. Quiet(br, kn, w)
      BY <1>4, <1>18, SMTT(60) DEF BrowserOK
    <2>2. \A k \in DOMAIN s : Own(nb, kn, s[k])
      BY <2>1, OwnStays, Zenon DEF Quiet, s
    <2>3. f.index = 0 => nb.starved
      BY <1>4, <2>1 DEF Quiet
    <2>4. Slots[br.pos].origin \in Indexes /\ kn[Slots[br.pos].origin] = f.name
      BY <1>4, <2>1, SlotTypes DEF Quiet, NameAt
    <2>5. f.mtu = 0 => nb.starved /\ HasWarning(nb, "socket", br.pos)
      BY <1>4, <2>4
    <2>6. f.mtu # 0 => <<f.mtu, f.name>> \in Pairs(kn)
      <3>1. f.name # NoName
        BY PopulateAssumption DEF Interface
      <3>2. QED
        BY <1>4, <3>1 DEF Pairs
    <2>7. DOMAIN f.v6 = {}
      OBVIOUS
    <2>8. br.pos \in DOMAIN Slots /\ NameAt(nb, br.pos) = f.name
      BY <1>4 DEF NameAt
    <2>9. Own(nb, kn, f)
      BY <2>3, <2>5, <2>6, <2>7, <2>8, Zenon DEF Own
    <2>10. \A k \in DOMAIN t : Own(nb, kn, t[k])
      BY <1>3, <2>2, <2>9
    <2>11. QED
      BY <2>1, <2>10 DEF Quiet, t
  <1>19. QED
    BY <1>4, <1>5, <1>9, <1>10, <1>11, <1>12, <1>13, <1>16, <1>17, <1>18, Zenon DEF BrowserOK

-----------------------------------------------------------------------------
(* Finish: the item's address is dealt with, and the next one's turn comes. *)

\* pos moves past the item to the next one that is listed.
Advanced(br, nb) ==
    /\ nb.dump = br.dump
    /\ \A r \in DOMAIN Slots : Listed(br.dump, r) => (r < nb.pos <=> r < br.pos \/ r = br.pos)

\* Addresses of another interface or family are as before.
LEMMA PassedAlike ==
    ASSUME NEW br \in Browser, NEW nb, NEW v, NEW n \in Names, NEW fam,
           FromPassed(br, v, n, fam), Advanced(br, nb),
           NameAt(br, br.pos) # n \/ Slots[br.pos].family # fam
    PROVE  FromPassed(nb, v, n, fam)
  <1>1. \A p : NameAt(nb, p) = NameAt(br, p)
    BY DEF Advanced, NameAt
  <1>2. \A p \in DOMAIN Slots : NameAt(br, p) = n => Listed(br.dump, p)
    BY NamesAt
  <1>3. \A p \in DOMAIN Slots : NameAt(br, p) = n =>
           (p < nb.pos <=> p < br.pos \/ p = br.pos)
    BY <1>2 DEF Advanced
  <1>4. \A a \in DOMAIN v :
           /\ v[a].slot \in DOMAIN Slots /\ v[a].slot < nb.pos
           /\ NameAt(nb, v[a].slot) = n /\ Slots[v[a].slot].family = fam
    BY <1>1, <1>3 DEF FromPassed
  <1>5. \A p \in DOMAIN Slots :
           p < nb.pos /\ NameAt(nb, p) = n /\ Slots[p].family = fam =>
               \E a \in DOMAIN v : v[a].slot = p
    BY <1>1, <1>3 DEF FromPassed
  <1>6. QED
    BY <1>4, <1>5 DEF FromPassed

\* The item's own address is the last.
LEMMA PassedMore ==
    ASSUME NEW br \in Browser, NEW nb, NEW S, NEW v \in Seq(S), NEW e \in S,
           NEW n \in Names, NEW fam,
           FromPassed(br, v, n, fam), Advanced(br, nb),
           br.pos \in DOMAIN Slots, NameAt(br, br.pos) = n, Slots[br.pos].family = fam,
           e.slot = br.pos
    PROVE  FromPassed(nb, Append(v, e), n, fam)
  <1> DEFINE t == Append(v, e)
             l == Len(v) + 1
  <1>1. Len(v) \in Nat /\ DOMAIN v = 1..Len(v)
    BY LenProperties
  <1>2. /\ DOMAIN t = 1..(Len(v) + 1)
        /\ \A i \in 1..Len(v) : t[i] = v[i]
        /\ t[Len(v) + 1] = e
    BY PushLemma
  <1> HIDE DEF t
  <1>3. /\ l \in DOMAIN t /\ t[l] = e
        /\ \A a \in DOMAIN t : a = l \/ (a < l /\ a \in DOMAIN v /\ t[a] = v[a])
        /\ \A a \in DOMAIN v : a \in DOMAIN t /\ t[a] = v[a]
        /\ \A a \in DOMAIN t : ~ (l < a)
    BY <1>1, <1>2
  <1> HIDE DEF l
  <1>4. \A p : NameAt(nb, p) = NameAt(br, p)
    BY DEF Advanced, NameAt
  <1>5. \A p \in DOMAIN Slots : NameAt(br, p) = n => Listed(br.dump, p)
    BY NamesAt
  <1>6. \A p \in DOMAIN Slots : NameAt(br, p) = n =>
           (p < nb.pos <=> p < br.pos \/ p = br.pos)
    BY <1>5 DEF Advanced
  <1>7. \A a \in DOMAIN t :
           /\ t[a].slot \in DOMAIN Slots /\ t[a].slot < nb.pos
           /\ NameAt(nb, t[a].slot) = n /\ Slots[t[a].slot].family = fam
    BY <1>3, <1>4, <1>6 DEF FromPassed
  <1>8. ASSUME NEW p \in DOMAIN Slots,
               p < nb.pos, NameAt(nb, p) = n, Slots[p].family = fam
        PROVE  \E a \in DOMAIN t : t[a].slot = p
    <2>1. p < br.pos \/ p = br.pos
      BY <1>4, <1>6, <1>8
    <2>2. CASE p = br.pos
      BY <1>3, <2>2
    <2>3. CASE p < br.pos
      <3>1. PICK a \in DOMAIN v : v[a].slot = p
        BY <1>4, <1>8, <2>3 DEF FromPassed
      <3>2. QED
        BY <1>3, <3>1
    <2>4. QED
      BY <2>1, <2>2, <2>3
  <1>9. ASSUME NEW a \in DOMAIN t, NEW c \in DOMAIN t, a < c
        PROVE  t[a].slot < t[c].slot
    <2>1. a # l
      BY <1>3, <1>9
    <2>2. a \in DOMAIN v /\ t[a] = v[a]
      BY <1>3, <2>1
    <2>3. CASE c = l
      BY <1>3, <2>2, <2>3 DEF FromPassed
    <2>4. CASE c # l
      BY <1>3, <1>9, <2>2, <2>4 DEF FromPassed
    <2>5. QED
      BY <2>3, <2>4
  <1>10. FromPassed(nb, t, n, fam)
    BY <1>7, <1>8, <1>9 DEF FromPassed
  <1>11. QED
    BY <1>10 DEF t

AddressesV4 == [slot : Nat, other : Flags]
AddressesV6 == [slot : Nat, scopeName : Names \union {NoName}]

\* How the item in slot p changes its interface from f to g: it adds an address,
\* sets the hardware address, or warns.
DealtWith(br, nb, f, g, e4, e6) ==
    LET p   == br.pos
        fam == Slots[p].family
    IN /\ g.name = f.name /\ g.index = f.index /\ g.mtu = f.mtu
       /\ fam = "inet" => g.v4 = Append(f.v4, e4) /\ e4.slot = p
       /\ fam # "inet" => g.v4 = f.v4
       /\ fam = "inet6" => g.v6 = Append(f.v6, e6) /\ e6.slot = p
       /\ fam # "inet6" => g.v6 = f.v6
       /\ fam = "link" => g.mac = p \/ (g.mac = f.mac /\ HasWarning(nb, "hardware", p))
       /\ fam # "link" => g.mac = f.mac
       /\ fam = "other" => HasWarning(nb, "family", p)

LEMMA FinishStep ==
    ASSUME NEW br \in Browser, NEW nb \in Browser, NEW kn, NEW w, NEW q,
           NEW k0 \in DOMAIN br.interfaces, NEW g,
           NEW e4 \in AddressesV4, NEW e6 \in AddressesV6,
           BrowserOK(br, kn, w, q),
           br.phase = "address",
           br.interfaces[k0].name = NameAt(br, br.pos),
           DealtWith(br, nb, br.interfaces[k0], g, e4, e6),
           e6.scopeName # NoName => <<Slots[br.pos].scope, e6.scopeName>> \in w,
           Slots[br.pos].family = "inet6" /\ Slots[br.pos].scope # 0 /\ e6.scopeName = NoName
              => nb.starved \/ kn[Slots[br.pos].scope] = NoName,
           nb.phase = "next", nb.dump = br.dump, nb.pos = NextSlot(br.dump, br.pos),
           nb.interfaces = [br.interfaces EXCEPT ![k0] = g],
           nb.indexToName = br.indexToName,
           StillWarned(br, nb), br.starved => nb.starved
    PROVE  BrowserOK(nb, kn, w, q)
  <1> DEFINE s == br.interfaces
             t == nb.interfaces
             p0 == br.pos
  <1>1. /\ \A k \in DOMAIN s : s[k] \in Interface
        /\ DOMAIN t = DOMAIN s
        /\ t[k0] = g
        /\ \A k \in DOMAIN s : k # k0 => t[k] = s[k]
    <2>1. s \in Seq(Interface)
      BY DEF Browser
    <2>2. Len(s) \in Nat /\ DOMAIN s = 1..Len(s)
      BY <2>1, LenProperties
    <2>3. \A k \in DOMAIN s : s[k] \in Interface
      BY <2>1, <2>2, ElementOfSeq
    <2>4. t = [s EXCEPT ![k0] = g]
      OBVIOUS
    <2>5. s = [k \in DOMAIN s |-> s[k]]
      BY <2>1
    <2> HIDE DEF s, t
    <2>6. QED
      BY <2>3, <2>4, <2>5 DEF s
  <1>2. /\ Position(br) /\ Active(br) /\ p0 \in DOMAIN Slots /\ Listed(br.dump, p0)
        /\ Pairs(kn) \subseteq w
    BY DEF BrowserOK, Position, Active
  <1>3. p0 \in 0..Len(Slots) /\ p0 \in Nat
    BY <1>2, SlotPlaces
  <1>4. /\ nb.pos \in 1..Len(Slots) + 1
        /\ nb.pos > p0
        /\ nb.pos \in DOMAIN Slots => Listed(br.dump, nb.pos)
        /\ \A r \in DOMAIN Slots : r > p0 /\ r < nb.pos => ~Listed(br.dump, r)
    <2>1. nb.pos = NextSlot(br.dump, p0)
      OBVIOUS
    <2>2. QED
      BY <1>3, <2>1, NextSlotIsNext
  <1>5. Advanced(br, nb)
    <2>1. Len(Slots) \in Nat /\ DOMAIN Slots = 1..Len(Slots)
      BY SlotPlaces
    <2>2. ASSUME NEW r \in DOMAIN Slots, Listed(br.dump, r)
          PROVE  r < nb.pos <=> r < br.pos \/ r = br.pos
      BY <1>3, <1>4, <2>1, <2>2
    <2>3. QED
      BY <2>2 DEF Advanced
  <1>6. Position(nb)
    BY <1>2, <1>4 DEF Position, Active
  <1>7. \A p : NameAt(nb, p) = NameAt(br, p)
    BY DEF NameAt
  <1>8. \A p \in DOMAIN Slots : Listed(br.dump, p) => (Met(nb, p) <=> Met(br, p))
    BY <1>5 DEF Advanced, Met
  <1>9. \A k \in DOMAIN s : /\ t[k].name = s[k].name
                            /\ t[k].index = s[k].index
                            /\ t[k].mtu = s[k].mtu
    BY <1>1 DEF DealtWith
  <1>10. \A k \in DOMAIN s : s[k].name \in Names /\ s[k].index \in 0..MaxIndex
    BY <1>1 DEF Interface
  <1>11. Grouped(br)
    BY DEF BrowserOK
  <1> HIDE DEF s, t, p0
  <1>12. Grouped(nb)
    <2>1. \A j, k \in DOMAIN t : t[j].name = t[k].name => j = k
      BY <1>1, <1>9, <1>11 DEF Grouped, s
    <2>2. ASSUME NEW k \in DOMAIN t
          PROVE  \E p \in DOMAIN Slots : Met(nb, p) /\ t[k].name = NameAt(nb, p)
      <3>1. PICK p \in DOMAIN Slots : Met(br, p) /\ s[k].name = NameAt(br, p)
        BY <1>1, <1>11 DEF Grouped, s
      <3>2. Listed(br.dump, p)
        BY <1>1, <1>10, <3>1, NamesAt
      <3>3. QED
        BY <1>1, <1>7, <1>8, <1>9, <3>1, <3>2
    <2>3. \A p \in DOMAIN Slots : Listed(nb.dump, p) /\ Met(nb, p) =>
             \E k \in DOMAIN t : t[k].name = NameAt(nb, p)
      BY <1>1, <1>7, <1>8, <1>9, <1>11 DEF Grouped, s
    <2>4. QED
      BY <2>1, <2>2, <2>3 DEF Grouped, t
  <1>13. \A k \in DOMAIN s : s[k].name = NameAt(br, br.pos) <=> k = k0
    BY <1>11 DEF Grouped, s
  <1>14. \A k \in DOMAIN s : s[k].v4 \in Seq(AddressesV4) /\ s[k].v6 \in Seq(AddressesV6)
    BY <1>1 DEF Interface, AddressesV4, AddressesV6
  <1>15. \A k \in DOMAIN s : /\ FromPassed(br, s[k].v4, s[k].name, "inet")
                             /\ FromPassed(br, s[k].v6, s[k].name, "inet6")
    BY DEF BrowserOK, Addressed, s
  <1>16. Addressed(nb)
    <2>1. ASSUME NEW k \in DOMAIN t
          PROVE  /\ FromPassed(nb, t[k].v4, t[k].name, "inet")
                 /\ FromPassed(nb, t[k].v6, t[k].name, "inet6")
      <3>1. k \in DOMAIN s /\ s[k].name \in Names
        BY <1>1, <1>10
      <3>2. CASE k # k0
        <4>1. t[k] = s[k] /\ NameAt(br, br.pos) # s[k].name
          BY <1>1, <1>13, <3>1, <3>2
        <4>2. QED
          BY <1>5, <1>15, <3>1, <4>1, PassedAlike
      <3>3. CASE k = k0
        <4>1. t[k].name = s[k].name /\ NameAt(br, br.pos) = s[k].name /\ t[k] = g
          BY <1>1, <1>9, <1>13, <3>1, <3>3
        <4>2. FromPassed(nb, t[k].v4, s[k].name, "inet")
          <5>1. CASE Slots[br.pos].family = "inet"
            <6>1. t[k].v4 = Append(s[k].v4, e4) /\ e4.slot = br.pos
              BY <3>3, <4>1, <5>1 DEF DealtWith, s
            <6>2. s[k].v4 \in Seq(AddressesV4) /\ br.pos \in DOMAIN Slots
              BY <1>2, <1>14, <3>1 DEF p0
            <6>3. FromPassed(nb, Append(s[k].v4, e4), s[k].name, "inet")
              BY <1>5, <1>15, <3>1, <4>1, <5>1, <6>1, <6>2, PassedMore
            <6>4. QED
              BY <6>1, <6>3
          <5>2. CASE Slots[br.pos].family # "inet"
            <6>1. t[k].v4 = s[k].v4
              BY <3>3, <4>1, <5>2 DEF DealtWith, s
            <6>2. QED
              BY <1>5, <1>15, <3>1, <5>2, <6>1, PassedAlike
          <5>3. QED
            BY <5>1, <5>2
        <4>3. FromPassed(nb, t[k].v6, s[k].name, "inet6")
          <5>1. CASE Slots[br.pos].family = "inet6"
            <6>1. t[k].v6 = Append(s[k].v6, e6) /\ e6.slot = br.pos
              BY <3>3, <4>1, <5>1 DEF DealtWith, s
            <6>2. s[k].v6 \in Seq(AddressesV6) /\ br.pos \in DOMAIN Slots
              BY <1>2, <1>14, <3>1 DEF p0
            <6>3. FromPassed(nb, Append(s[k].v6, e6), s[k].name, "inet6")
              BY <1>5, <1>15, <3>1, <4>1, <5>1, <6>1, <6>2, PassedMore
            <6>4. QED
              BY <6>1, <6>3
          <5>2. CASE Slots[br.pos].family # "inet6"
            <6>1. t[k].v6 = s[k].v6
              BY <3>3, <4>1, <5>2 DEF DealtWith, s
            <6>2. QED
              BY <1>5, <1>15, <3>1, <5>2, <6>1, PassedAlike
          <5>3. QED
            BY <5>1, <5>2
        <4>4. QED
          BY <4>1, <4>2, <4>3
      <3>4. QED
        BY <3>2, <3>3
    <2>2. QED
      BY <2>1 DEF Addressed, t
  <1>17. Excused(nb)
    <2>1. Excused(br)
      BY DEF BrowserOK
    <2>2. \A r \in {"ioctl", "socket", "family"} : r \in Reasons
      BY DEF Reasons
    <2>3. \A k \in DOMAIN t : t[k].mtu = 0 =>
             \E p \in DOMAIN Slots, r \in {"ioctl", "socket"} :
                NameAt(nb, p) = t[k].name /\ HasWarning(nb, r, p)
      BY <1>1, <1>7, <1>9, <2>1, <2>2 DEF Excused, StillWarned, s
    <2>4. ASSUME NEW p \in DOMAIN Slots,
                 Listed(nb.dump, p), p < nb.pos, Slots[p].family = "other"
          PROVE  HasWarning(nb, "family", p)
      <3>1. Listed(br.dump, p) /\ (p < br.pos \/ p = br.pos)
        BY <1>5, <2>4 DEF Advanced
      <3>2. QED
        BY <2>1, <2>2, <2>4, <3>1 DEF Excused, StillWarned, DealtWith
    <2>5. QED
      BY <2>3, <2>4 DEF Excused, t
  <1>18. ASSUME OneLinkItemEach PROVE Linked(nb)
    <2>1. Linked(br) /\ "hardware" \in Reasons
      BY <1>18 DEF BrowserOK, Reasons
    <2>2. SUFFICES ASSUME NEW p \in DOMAIN Slots, Listed(br.dump, p), p < nb.pos,
                          Slots[p].family = "link", ~HasWarning(nb, "hardware", p)
                   PROVE  \E k \in DOMAIN t : t[k].mac = p /\ t[k].name = NameAt(nb, p)
      BY DEF Linked, t
    <2>3. CASE p = br.pos
      <3>1. t[k0].mac = p /\ t[k0].name = NameAt(nb, p) /\ k0 \in DOMAIN t
        BY <1>1, <1>7, <1>9, <2>2, <2>3 DEF DealtWith, s
      <3>2. QED
        BY <3>1
    <2>4. CASE p # br.pos
      <3>1. p < br.pos
        BY <1>5, <2>2, <2>4 DEF Advanced
      <3>2. PICK k \in DOMAIN s : s[k].mac = p /\ s[k].name = NameAt(br, p)
        BY <2>1, <2>2, <3>1 DEF Linked, StillWarned, s
      <3>3. t[k].mac = p
        <4>1. CASE k # k0
          BY <1>1, <3>2, <4>1
        <4>2. CASE k = k0
          <5>1. NameAt(br, p) = NameAt(br, br.pos)
            BY <3>2, <4>2 DEF s
          <5>2. Slots[p].origin = Slots[br.pos].origin
            <6>1. /\ Slots[p].origin \in Indexes /\ Slots[br.pos].origin \in Indexes
                  /\ Distinct(br.dump) /\ br.dump[Slots[p].origin] # NoName
              BY <1>2, <2>2, SlotTypes DEF Position, Listed, p0
            <6>2. QED
              BY <5>1, <6>1 DEF Distinct, NameAt
          <5>3. Slots[br.pos].family # "link"
            BY <1>2, <1>18, <2>2, <2>4, <5>2 DEF OneLinkItemEach, p0
          <5>4. g.mac = s[k0].mac
            BY <5>3 DEF DealtWith, s
          <5>5. QED
            BY <1>1, <3>2, <4>2, <5>4
        <4>3. QED
          BY <4>1, <4>2
      <3>4. QED
        BY <1>1, <1>7, <1>9, <3>2, <3>3
    <2>5. QED
      BY <2>3, <2>4
  <1>19. Indexed(nb)
    BY DEF Indexed
  <1>20. Honest(br, w)
    BY DEF BrowserOK
  <1>21. /\ DOMAIN g.v6 \in SUBSET Nat
         /\ \A a \in DOMAIN g.v6 :
              \/ a \in DOMAIN s[k0].v6 /\ g.v6[a] = s[k0].v6[a]
              \/ Slots[br.pos].family = "inet6" /\ g.v6[a] = e6 /\ e6.slot = br.pos
    <2>1. s[k0].v6 \in Seq(AddressesV6) /\ k0 \in DOMAIN s
      BY <1>14 DEF s
    <2>2. Len(s[k0].v6) \in Nat /\ DOMAIN s[k0].v6 = 1..Len(s[k0].v6)
      BY <2>1, LenProperties
    <2>3. CASE Slots[br.pos].family = "inet6"
      <3>1. g.v6 = Append(s[k0].v6, e6) /\ e6.slot = br.pos
        BY <2>3 DEF DealtWith, s
      <3>2. /\ DOMAIN g.v6 = 1..(Len(s[k0].v6) + 1)
            /\ \A i \in 1..Len(s[k0].v6) : g.v6[i] = s[k0].v6[i]
            /\ g.v6[Len(s[k0].v6) + 1] = e6
        BY <2>1, <3>1, PushLemma
      <3>3. \A a \in 1..(Len(s[k0].v6) + 1) : a \in 1..Len(s[k0].v6) \/ a = Len(s[k0].v6) + 1
        BY <2>2
      <3>4. QED
        BY <2>2, <2>3, <3>1, <3>2, <3>3
    <2>4. CASE Slots[br.pos].family # "inet6"
      <3>1. g.v6 = s[k0].v6
        BY <2>4, SMTT(60) DEF DealtWith, s
      <3>2. QED
        BY <2>2, <3>1
    <2>5. QED
      BY <2>3, <2>4
  <1>22. Honest(nb, w)
    <2>1. \A k \in DOMAIN t : t[k].index # 0 => <<t[k].index, t[k].name>> \in w
      BY <1>1, <1>9, <1>20 DEF Honest, s
    <2>2. \A i \in Indexes : nb.indexToName[i] # NoName => <<i, nb.indexToName[i]>> \in w
      BY <1>20 DEF Honest
    <2>3. ASSUME NEW k \in DOMAIN t, NEW a \in DOMAIN t[k].v6, t[k].v6[a].scopeName # NoName
          PROVE  <<Slots[t[k].v6[a].slot].scope, t[k].v6[a].scopeName>> \in w
      <3>1. CASE k # k0
        BY <1>1, <1>20, <2>3, <3>1 DEF Honest, s
      <3>2. CASE k = k0
        <4>1. t[k] = g
          BY <1>1, <3>2, SMTT(60)
        <4>2. CASE a \in DOMAIN s[k0].v6 /\ g.v6[a] = s[k0].v6[a]
          BY <1>20, <2>3, <4>1, <4>2 DEF Honest, s
        <4>3. CASE g.v6[a] = e6 /\ e6.slot = br.pos
          BY <2>3, <4>1, <4>3
        <4>4. QED
          BY <1>21, <4>1, <4>2, <4>3
      <3>3. QED
        BY <3>1, <3>2
    <2>4. QED
      BY <2>1, <2>2, <2>3 DEF Honest, t
  <1>23. Named(nb)
    BY <1>1, <1>9 DEF BrowserOK, Named, s, t
  <1>24. ASSUME q PROVE Quiet(nb, kn, w)
    <2>1. Quiet(br, kn, w)
      BY <1>2, <1>24, SMTT(60) DEF BrowserOK
    <2>2. \A k \in DOMAIN s : Own(nb, kn, s[k])
      BY <2>1, OwnStays, Zenon DEF Quiet, s
    <2>3. Own(nb, kn, s[k0])
      BY <2>2, Zenon DEF s
    <2>4. g.index = s[k0].index /\ g.mtu = s[k0].mtu /\ g.name = s[k0].name
      BY DEF DealtWith, s
    <2>5. ASSUME NEW a \in DOMAIN g.v6, Slots[g.v6[a].slot].scope # 0,
                 g.v6[a].scopeName = NoName
          PROVE  nb.starved \/ kn[Slots[g.v6[a].slot].scope] = NoName
      <3>1. CASE a \in DOMAIN s[k0].v6 /\ g.v6[a] = s[k0].v6[a]
        BY <2>3, <2>5, <3>1 DEF Own
      <3>2. CASE Slots[br.pos].family = "inet6" /\ g.v6[a] = e6 /\ e6.slot = br.pos
        BY <2>5, <3>2
      <3>3. QED
        BY <1>21, <3>1, <3>2
    <2>6. Own(nb, kn, g)
      BY <2>3, <2>4, <2>5, Zenon DEF Own
    <2>7. \A k \in DOMAIN t : Own(nb, kn, t[k])
      BY <1>1, <2>2, <2>6
    <2>8. QED
      BY <2>1, <2>7 DEF Quiet, t
  <1>25. QED
    BY <1>2, <1>6, <1>12, <1>16, <1>17, <1>18, <1>19, <1>22, <1>23, <1>24, Zenon DEF BrowserOK

-----------------------------------------------------------------------------
(* The constructor's end, its beginning, and what happens around it. *)

\* Index: every item has been dealt with.
LEMMA IndexStep ==
    ASSUME NEW br \in Browser, NEW nb \in Browser, NEW kn, NEW w, NEW q,
           BrowserOK(br, kn, w, q),
           br.phase = "next", br.pos = Len(Slots) + 1,
           nb.phase = "built", nb.dump = br.dump, nb.pos = br.pos,
           nb.interfaces = br.interfaces, nb.indexToName = br.indexToName,
           nb.warnings = br.warnings, nb.starved = br.starved,
           \A i \in 0..MaxIndex : nb.indexToInterface[i] =
               First({k \in DOMAIN br.interfaces : br.interfaces[k].index = i}),
           \A n \in Names : nb.nameToInterface[n] =
               First({k \in DOMAIN br.interfaces : br.interfaces[k].name = n})
    PROVE  BrowserOK(nb, kn, w, q)
  <1>1. Position(br) /\ Active(br) /\ Pairs(kn) \subseteq w
    BY DEF BrowserOK, Active
  <1>2. Position(nb)
    BY <1>1 DEF Position, Active
  <1>3. \A p : NameAt(nb, p) = NameAt(br, p)
    BY DEF NameAt
  <1>4. \A p \in DOMAIN Slots : Met(nb, p) <=> Met(br, p)
    BY DEF Met
  <1>5. Grouped(nb)
    BY <1>3, <1>4 DEF BrowserOK, Grouped
  <1>6. Addressed(nb)
    <2>1. \A v, n, f : FromPassed(br, v, n, f) => FromPassed(nb, v, n, f)
      BY SamePassed
    <2>2. QED
      BY <2>1, Zenon DEF BrowserOK, Addressed
  <1>7. \A r, p : HasWarning(br, r, p) <=> HasWarning(nb, r, p)
    BY DEF HasWarning
  <1>8. Excused(nb)
    BY <1>3, <1>7 DEF BrowserOK, Excused
  <1>9. OneLinkItemEach => Linked(nb)
    BY <1>3, <1>7 DEF BrowserOK, Linked
  <1>10. Indexed(nb)
    BY DEF Indexed
  <1>11. Honest(nb, w)
    BY DEF BrowserOK, Honest
  <1>12. Named(nb)
    BY DEF BrowserOK, Named
  <1>13. q => Quiet(nb, kn, w)
    BY <1>1, <1>7, OwnStays, Zenon DEF BrowserOK, Quiet, StillWarned
  <1>14. QED
    BY <1>1, <1>2, <1>5, <1>6, <1>8, <1>9, <1>10, <1>11, <1>12, <1>13 DEF BrowserOK

\* No browser, or one whose constructor threw.
LEMMA EmptyBrowser ==
    ASSUME NEW br, NEW kn, NEW w, NEW q,
           br.phase \in {"idle", "failed"}, br.interfaces = << >>, br.pos = 0,
           \A i \in 0..MaxIndex : br.indexToName[i] = NoName
    PROVE  BrowserOK(br, kn, w, q)
  <1>1. ~Active(br) /\ br.phase # "built" /\ br.phase # "mtu" /\ br.phase # "address"
    BY DEF Active
  <1>2. DOMAIN br.interfaces = {}
    OBVIOUS
  <1>3. \A p \in DOMAIN Slots : ~ (p < br.pos) /\ ~ Met(br, p)
    BY <1>1, SlotPlaces DEF Met
  <1>4. \A i \in Indexes : br.indexToName[i] = NoName
    BY PopulateAssumption DEF Indexes
  <1>5. Position(br) /\ Grouped(br)
    BY <1>1, <1>2, <1>3 DEF Position, Grouped
  <1>6. Addressed(br) /\ Excused(br) /\ Linked(br) /\ Indexed(br) /\ Named(br)
    BY <1>1, <1>2, <1>3 DEF Addressed, Excused, Linked, Indexed, Named
  <1>7. Honest(br, w)
    BY <1>1, <1>2, <1>4 DEF Honest
  <1>8. QED
    BY <1>1, <1>5, <1>6, <1>7 DEF BrowserOK

\* getifaddrs() has returned: the browser starts before the first item.
LEMMA StartStep ==
    ASSUME NEW br, NEW kn, Distinct(kn),
           br.phase = "next", br.interfaces = << >>, br.dump = kn,
           br.pos = NextSlot(kn, 0),
           br.indexToName = [i \in 0..MaxIndex |-> NoName]
    PROVE  BrowserOK(br, kn, Pairs(kn), TRUE)
  <1>1. Active(br) /\ br.phase # "built" /\ br.phase # "mtu" /\ br.phase # "address"
    BY DEF Active
  <1>2. DOMAIN br.interfaces = {}
    OBVIOUS
  <1>3. Len(Slots) \in Nat /\ DOMAIN Slots = 1..Len(Slots) /\ 0 \in 0..Len(Slots)
    BY SlotPlaces
  <1>4. /\ br.pos \in 1..Len(Slots) + 1
        /\ br.pos \in DOMAIN Slots => Listed(br.dump, br.pos)
        /\ \A r \in DOMAIN Slots : r > 0 /\ r < br.pos => ~Listed(br.dump, r)
    BY <1>3, NextSlotIsNext
  <1>5. \A p \in DOMAIN Slots : ~ (Listed(br.dump, p) /\ p < br.pos)
    BY <1>3, <1>4
  <1>6. \A p \in DOMAIN Slots : ~ (Listed(br.dump, p) /\ Met(br, p))
    BY <1>1, <1>5 DEF Met
  <1>7. \A i \in Indexes : br.indexToName[i] = NoName
    BY PopulateAssumption DEF Indexes
  <1>8. Position(br) /\ Grouped(br)
    BY <1>1, <1>2, <1>4, <1>6 DEF Position, Grouped
  <1>9. Addressed(br) /\ Excused(br) /\ Linked(br) /\ Indexed(br) /\ Named(br)
    BY <1>1, <1>2, <1>5 DEF Addressed, Excused, Linked, Indexed, Named
  <1>10. Honest(br, Pairs(kn))
    BY <1>1, <1>2, <1>7 DEF Honest
  <1>11. Quiet(br, kn, Pairs(kn))
    BY <1>1, <1>2 DEF Quiet
  <1>12. QED
    BY <1>1, <1>8, <1>9, <1>10, <1>11 DEF BrowserOK

\* The kernel's interfaces change: what was seen was seen.
LEMMA KernelStep ==
    ASSUME NEW br, NEW kn, NEW w, NEW q, NEW nk,
           BrowserOK(br, kn, w, q)
    PROVE  BrowserOK(br, nk, w \union Pairs(nk), FALSE)
  <1>1. Honest(br, w \union Pairs(nk))
    BY DEF BrowserOK, Honest
  <1>2. QED
    BY <1>1 DEF BrowserOK

-----------------------------------------------------------------------------
(* Every step keeps the invariant. *)

LEMMA FreshTypes ==
    /\ Fresh \in Browser
    /\ Fresh.phase = "idle" /\ Fresh.interfaces = << >> /\ Fresh.pos = 0
    /\ Fresh.indexToName = [i \in 0..MaxIndex |-> NoName]
    /\ \A i \in 0..MaxIndex : Fresh.indexToName[i] = NoName
  <1>1. MaxIndex \in Nat
    BY PopulateAssumption
  <1>2. << >> \in Seq(Interface) /\ << >> \in Seq(Reasons \X Nat)
    BY EmptySeq
  <1>3. /\ [i \in Indexes |-> NoName] \in [Indexes -> Names \union {NoName}]
        /\ [i \in 0..MaxIndex |-> NoName] \in [0..MaxIndex -> Names \union {NoName}]
        /\ [i \in 0..MaxIndex |-> 0] \in [0..MaxIndex -> Nat]
        /\ [n \in Names |-> 0] \in [Names -> Nat]
    OBVIOUS
  <1>4. "idle" \in Phases /\ FALSE \in BOOLEAN /\ 0 \in Nat /\ 0 \in 0..MaxIndex
    BY <1>1 DEF Phases
  <1>5. Fresh \in Browser
    BY <1>2, <1>3, <1>4 DEF Fresh, Browser
  <1>6. QED
    BY <1>5 DEF Fresh

\* It is an empty one.
LEMMA FreshIsEmpty ==
    ASSUME NEW kn, NEW w, NEW q
    PROVE  BrowserOK(Fresh, kn, w, q)
  <1>1. PICK br : br = Fresh
    OBVIOUS
  <1>2. /\ br.phase \in {"idle", "failed"} /\ br.interfaces = << >> /\ br.pos = 0
        /\ \A i \in 0..MaxIndex : br.indexToName[i] = NoName
    BY <1>1, FreshTypes
  <1>3. BrowserOK(br, kn, w, q)
    BY <1>2, EmptyBrowser
  <1>4. QED
    BY <1>1, <1>3

\* Only the browser of b, and the number of descriptors, change.
LEMMA UpdateKeeps ==
    ASSUME Inv, NEW b \in Builders, NEW nb \in Browser, Update(b, nb),
           UNCHANGED <<kernel, changes, builds, witnessed, quiet>>,
           descriptors' \in 0..MaxDescriptors,
           BrowserOK(nb, kernel, witnessed[b], quiet[b])
    PROVE  Inv'
  <1>1. browser' = [browser EXCEPT ![b] = nb] /\ browser \in [Builders -> Browser]
    BY DEF Update, Inv, TypeOK
  <1>2. TypeOK'
    BY <1>1 DEF Inv, TypeOK
  <1>3. Distinct(kernel)'
    BY DEF Inv, Distinct
  <1>4. ASSUME NEW c \in Builders
        PROVE  BrowserOK(browser'[c], kernel, witnessed[c], quiet[c])
    <2>1. CASE c = b
      BY <1>1, <2>1
    <2>2. CASE c # b
      <3>1. browser'[c] = browser[c]
        BY <1>1, <2>2
      <3>2. BrowserOK(browser[c], kernel, witnessed[c], quiet[c])
        BY DEF Inv
      <3>3. QED
        BY <3>1, <3>2
    <2>3. QED
      BY <2>1, <2>2
  <1>5. QED
    BY <1>2, <1>3, <1>4 DEF Inv

\* No descriptor is used up.
LEMMA PlainUpdateKeeps ==
    ASSUME Inv, NEW b \in Builders, NEW nb \in Browser, Update(b, nb),
           UNCHANGED <<kernel, descriptors, changes, builds, witnessed, quiet>>,
           BrowserOK(nb, kernel, witnessed[b], quiet[b])
    PROVE  Inv'
  <1>1. descriptors' \in 0..MaxDescriptors
    BY DEF Inv, TypeOK
  <1>2. QED
    BY <1>1, UpdateKeeps

LEMMA NamesOfItems ==
    ASSUME NEW b PROVE ItemName(b) = NameAt(browser[b], browser[b].pos)
  BY DEF ItemName, Item, NameAt

LEMMA PlaceIsKnown ==
    ASSUME NEW b, Known(b)
    PROVE  /\ Place(b) \in DOMAIN browser[b].interfaces
           /\ browser[b].interfaces[Place(b)].name = NameAt(browser[b], browser[b].pos)
  BY NamesOfItems, Zenon DEF Known, Place

\* What the invariant says of the browser under construction.
LEMMA Under ==
    ASSUME Inv, NEW b \in Builders
    PROVE  /\ browser[b] \in Browser
           /\ BrowserOK(browser[b], kernel, witnessed[b], quiet[b])
           /\ browser[b].phase \in {"mtu", "address"} => browser[b].pos \in DOMAIN Slots
           /\ browser[b].phase = "next" /\ ~AtEnd(b) => browser[b].pos \in DOMAIN Slots
  <1>1. /\ browser[b] \in Browser
        /\ BrowserOK(browser[b], kernel, witnessed[b], quiet[b])
    BY DEF Inv, TypeOK
  <1>2. Position(browser[b])
    BY <1>1 DEF BrowserOK
  <1>3. Len(Slots) \in Nat /\ DOMAIN Slots = 1..Len(Slots)
    BY SlotPlaces
  <1>4. browser[b].phase \in {"next", "mtu", "address"} => browser[b].pos \in 1..Len(Slots) + 1
    BY <1>2 DEF Position, Active
  <1>5. browser[b].phase \in {"mtu", "address"} => browser[b].pos \in DOMAIN Slots
    BY <1>2 DEF Position, Active
  <1>6. QED
    BY <1>1, <1>3, <1>4, <1>5 DEF AtEnd

LEMMA WarnTypes ==
    ASSUME NEW b, NEW r \in Reasons, browser[b].pos \in Nat
    PROVE  /\ Warn(b, r) \in Seq(Reasons \X Nat)
           /\ 1 \in DOMAIN Warn(b, r) /\ Warn(b, r)[1] = <<r, browser[b].pos>>
  BY DEF Warn

LEMMA KnownInterfaceKeeps ==
    ASSUME Inv, NEW b \in Builders, KnownInterface(b)
    PROVE  Inv'
  <1> DEFINE br   == browser[b]
             same == br.interfaces[Place(b)].flags = ItemFlags(b)
  <1>1. /\ br \in Browser /\ br.phase = "next" /\ br.pos \in DOMAIN Slots
        /\ BrowserOK(br, kernel, witnessed[b], quiet[b])
    BY Under DEF KnownInterface, At
  <1>2. /\ Place(b) \in DOMAIN br.interfaces
        /\ br.interfaces[Place(b)].name = NameAt(br, br.pos)
    BY PlaceIsKnown DEF KnownInterface
  <1>3. br.pos \in Nat /\ br.warnings \in Seq(Reasons \X Nat)
    BY <1>1 DEF Browser
  <1>4. PICK nb : nb = [br EXCEPT !.phase = "address",
                                  !.warnings = IF same THEN @ ELSE @ \o Warn(b, "flags")]
    OBVIOUS
  <1>5. Update(b, nb) /\ UNCHANGED <<kernel, descriptors, changes, builds, witnessed, quiet>>
    BY <1>4 DEF KnownInterface
  <1> HIDE DEF same, br
  <1>6. /\ nb.phase = "address" /\ nb.dump = br.dump /\ nb.pos = br.pos
        /\ nb.interfaces = br.interfaces /\ nb.indexToName = br.indexToName
        /\ nb.warnings = IF same THEN br.warnings ELSE br.warnings \o Warn(b, "flags")
        /\ nb.starved = br.starved
    BY <1>1, <1>4 DEF Browser
  <1>7. nb.warnings \in Seq(Reasons \X Nat) /\ StillWarned(br, nb)
    <2>1. CASE same
      BY <1>3, <1>6, <2>1 DEF StillWarned, HasWarning
    <2>2. CASE ~same
      <3>1. Warn(b, "flags") \in Seq(Reasons \X Nat)
        BY <1>3, WarnTypes DEF Reasons, br
      <3>2. nb.warnings = br.warnings \o Warn(b, "flags")
        BY <1>6, <2>2
      <3>3. QED
        BY <1>1, <3>1, <3>2, WarningsGrow
    <2>3. QED
      BY <2>1, <2>2
  <1>8. nb \in Browser
    <2>1. nb = [br EXCEPT !.phase = "address", !.warnings = nb.warnings]
      BY <1>1, <1>4, <1>6 DEF Browser
    <2>2. "address" \in Phases
      BY DEF Phases
    <2>3. QED
      BY <1>1, <1>7, <2>1, <2>2 DEF Browser
  <1>9. BrowserOK(nb, kernel, witnessed[b], quiet[b])
    BY <1>1, <1>2, <1>6, <1>7, <1>8, KnownStep
  <1>10. QED
    BY <1>5, <1>8, <1>9, PlainUpdateKeeps

LEMMA NewInterfaceKeeps ==
    ASSUME Inv, NEW b \in Builders, NewInterface(b)
    PROVE  Inv'
  <1> DEFINE br == browser[b]
             n  == NameAt(br, br.pos)
  <1>1. /\ br \in Browser /\ br.phase = "next" /\ br.pos \in DOMAIN Slots
        /\ BrowserOK(br, kernel, witnessed[b], quiet[b])
    BY Under DEF NewInterface, At
  <1>2. n \in Names /\ n # NoName
    <2>1. Listed(br.dump, br.pos)
      BY <1>1 DEF BrowserOK, Position, Active
    <2>2. QED
      BY <1>1, <2>1, NamesAt, PopulateAssumption
  <1>3. \A k \in DOMAIN br.interfaces : br.interfaces[k].name # n
    BY NamesOfItems DEF NewInterface, Known
  <1>a. PICK ok \in BOOLEAN :
             Update(b, [br EXCEPT !.phase = "mtu", !.index = NameToIndex(n, ok),
                                  !.starved = @ \/ ~ok])
    BY NamesOfItems DEF NewInterface
  <1>4. PICK i : i = NameToIndex(n, ok)
    OBVIOUS
  <1>5. /\ i = 0 => ~ok \/ \A j \in Indexes : kernel[j] # n
        /\ i # 0 => i \in Indexes /\ kernel[i] = n
        /\ i \in 0..MaxIndex
    <2>1. MaxIndex \in Nat /\ 0 \notin Indexes /\ Indexes \subseteq 0..MaxIndex
      BY PopulateAssumption DEF Indexes
    <2>2. CASE ok /\ \E j \in Indexes : kernel[j] = n
      <3>1. i = CHOOSE j \in Indexes : kernel[j] = n
        BY <1>4, <2>2 DEF NameToIndex
      <3>2. i \in Indexes /\ kernel[i] = n
        BY <2>2, <3>1, Zenon
      <3>3. QED
        BY <2>1, <3>2
    <2>3. CASE ~ (ok /\ \E j \in Indexes : kernel[j] = n)
      <3>1. i = 0
        BY <1>4, <2>3 DEF NameToIndex
      <3>2. QED
        BY <2>1, <2>3, <3>1
    <2>4. QED
      BY <2>2, <2>3
  <1>6. i # 0 => <<i, n>> \in Pairs(kernel)
    BY <1>2, <1>5 DEF Pairs
  <1>7. PICK nb : nb = [br EXCEPT !.phase = "mtu", !.index = i, !.starved = @ \/ ~ok]
    OBVIOUS
  <1>8. Update(b, nb) /\ UNCHANGED <<kernel, descriptors, changes, builds, witnessed, quiet>>
    BY <1>4, <1>7, <1>a DEF NewInterface
  <1> HIDE DEF n, br
  <1>9. /\ nb.phase = "mtu" /\ nb.dump = br.dump /\ nb.pos = br.pos /\ nb.index = i
        /\ nb.interfaces = br.interfaces /\ nb.indexToName = br.indexToName
        /\ nb.warnings = br.warnings /\ nb.starved = (br.starved \/ ~ok)
    BY <1>1, <1>7 DEF Browser
  <1>10. nb \in Browser
    <2>1. "mtu" \in Phases
      BY DEF Phases
    <2>2. QED
      BY <1>1, <1>5, <1>7, <2>1 DEF Browser
  <1>11. BrowserOK(nb, kernel, witnessed[b], quiet[b])
    BY <1>1, <1>3, <1>5, <1>6, <1>9, <1>10, NewStep DEF n
  <1>12. QED
    BY <1>8, <1>10, <1>11, PlainUpdateKeeps

\* What getMtu() tells (m is 0 if it tells nothing) and warns of (x).
LEMMA CreateKeeps ==
    ASSUME Inv, NEW b \in Builders, At(b, "mtu"),
           NEW m \in 0..MaxIndex, NEW x \in Seq(Reasons \X Nat),
           NEW ok \in BOOLEAN, Create(b, m, x, ok),
           m # 0 => m \in Indexes /\ kernel[m] = ItemName(b),
           m = 0 => \/ x = Warn(b, "socket") /\ ~ok
                    \/ x = Warn(b, "ioctl") /\ \A i \in Indexes : kernel[i] # ItemName(b),
           descriptors' \in 0..MaxDescriptors,
           UNCHANGED <<kernel, changes, builds, witnessed, quiet>>
    PROVE  Inv'
  <1> DEFINE br == browser[b]
             n  == NameAt(br, br.pos)
  <1>1. /\ br \in Browser /\ br.phase = "mtu" /\ br.pos \in DOMAIN Slots
        /\ BrowserOK(br, kernel, witnessed[b], quiet[b])
    BY Under DEF At
  <1>2. n \in Names /\ n # NoName /\ ItemName(b) = n
    <2>1. Listed(br.dump, br.pos)
      BY <1>1 DEF BrowserOK, Position, Active
    <2>2. QED
      BY <1>1, <2>1, NamesAt, NamesOfItems, PopulateAssumption
  <1>3. /\ br.index \in 0..MaxIndex /\ br.interfaces \in Seq(Interface)
        /\ br.indexToName \in [0..MaxIndex -> Names \union {NoName}]
        /\ br.pos \in Nat /\ br.moved \in BOOLEAN
    BY <1>1 DEF Browser
  <1>4. PICK f : f = [index |-> br.index, name |-> ItemName(b), flags |-> ItemFlags(b),
                      mtu |-> m, mac |-> 0, v4 |-> << >>, v6 |-> << >>]
    OBVIOUS
  <1>5. /\ f.index = br.index /\ f.name = n /\ f.mtu = m
        /\ f.v4 = << >> /\ f.v6 = << >>
    BY <1>2, <1>4
  <1>6. f \in Interface
    <2>1. ItemFlags(b) \in Flags \X BOOLEAN
      <3>1. Item(b).flags \in Flags
        BY <1>1, SlotTypes DEF Item
      <3>2. (browser[b].moved /\ Item(b).family # "link") \in BOOLEAN
        OBVIOUS
      <3>3. QED
        BY <3>1, <3>2 DEF ItemFlags
    <2>2. << >> \in Seq([slot : Nat, other : Flags])
      BY EmptySeq
    <2>3. << >> \in Seq([slot : Nat, scopeName : Names \union {NoName}])
      BY EmptySeq
    <2>4. QED
      BY <1>2, <1>3, <1>4, <2>1, <2>2, <2>3 DEF Interface
  <1>7. PICK nb : nb = [br EXCEPT
            !.phase = "address",
            !.starved = @ \/ ~ok,
            !.interfaces = Append(@, f),
            !.warnings = @ \o x,
            !.indexToName = IF @[br.index] = NoName THEN [@ EXCEPT ![br.index] = f.name] ELSE @]
    OBVIOUS
  <1>8. Update(b, nb)
    BY <1>2, <1>4, <1>5, <1>7 DEF Create
  <1> HIDE DEF n, br
  <1>9. /\ nb.phase = "address" /\ nb.dump = br.dump /\ nb.pos = br.pos
        /\ nb.interfaces = Append(br.interfaces, f)
        /\ nb.warnings = br.warnings \o x
        /\ nb.indexToName = IF br.indexToName[br.index] = NoName
                            THEN [br.indexToName EXCEPT ![br.index] = f.name]
                            ELSE br.indexToName
        /\ nb.starved = (br.starved \/ ~ok)
    BY <1>1, <1>7 DEF Browser
  <1>10. /\ nb.warnings \in Seq(Reasons \X Nat) /\ StillWarned(br, nb)
         /\ \A i \in DOMAIN x : \A r, p : x[i] = <<r, p>> => HasWarning(nb, r, p)
    BY <1>1, <1>9, WarningsGrow
  <1>11. /\ x = Warn(b, "socket") => HasWarning(nb, "socket", br.pos)
         /\ x = Warn(b, "ioctl") => HasWarning(nb, "ioctl", br.pos)
    <2>1. "socket" \in Reasons /\ "ioctl" \in Reasons
      BY DEF Reasons
    <2>2. QED
      BY <1>3, <1>10, <2>1, WarnTypes DEF br
  <1>12. nb \in Browser
    <2>1. nb.interfaces \in Seq(Interface)
      BY <1>3, <1>6, <1>9, PushLemma
    <2>2. nb.indexToName \in [0..MaxIndex -> Names \union {NoName}]
      BY <1>2, <1>3, <1>5, <1>9
    <2>3. nb = [br EXCEPT !.phase = "address", !.interfaces = nb.interfaces,
                          !.starved = nb.starved, !.warnings = nb.warnings, !.indexToName = nb.indexToName]
      BY <1>1, <1>7, <1>9 DEF Browser
    <2>4. "address" \in Phases
      BY DEF Phases
    <2>5. nb.starved \in BOOLEAN
      BY <1>9
    <2>6. QED
      BY <1>1, <1>10, <2>1, <2>2, <2>3, <2>4, <2>5 DEF Browser
  <1>13. /\ f.mtu # 0 => f.mtu \in Indexes /\ kernel[f.mtu] = f.name
         /\ f.mtu = 0 => \/ HasWarning(nb, "socket", br.pos) /\ nb.starved
                         \/ /\ HasWarning(nb, "ioctl", br.pos)
                            /\ \A j \in Indexes : kernel[j] # f.name
    BY <1>2, <1>5, <1>9, <1>11
  <1>14. BrowserOK(nb, kernel, witnessed[b], quiet[b])
    BY <1>1, <1>5, <1>6, <1>9, <1>10, <1>12, <1>13, CreateStep DEF n
  <1>15. QED
    BY <1>8, <1>12, <1>14, UpdateKeeps

LEMMA GetMtuKeeps ==
    ASSUME Inv, NEW b \in Builders, GetMtu(b)
    PROVE  Inv'
  <1>1. /\ descriptors \in 0..MaxDescriptors /\ MaxDescriptors \in Nat
        /\ browser[b].pos \in Nat /\ At(b, "mtu")
    BY Under, PopulateAssumption DEF Inv, TypeOK, Browser, GetMtu
  <1>2. "socket" \in Reasons /\ "ioctl" \in Reasons
    BY DEF Reasons
  <1>3. /\ Warn(b, "ioctl") \in Seq(Reasons \X Nat)
        /\ Warn(b, "socket") \in Seq(Reasons \X Nat)
        /\ << >> \in Seq(Reasons \X Nat)
    BY <1>1, <1>2, WarnTypes, EmptySeq
  <1>4. MaxIndex \in Nat /\ 0 \in 0..MaxIndex /\ \A i \in Indexes : i \in 0..MaxIndex /\ i # 0
    BY PopulateAssumption DEF Indexes
  <1>5. UNCHANGED <<kernel, changes, builds, witnessed, quiet>>
    BY DEF GetMtu
  <1>6. CASE DescriptorFree /\ descriptors' = descriptors + 1
    <2>1. descriptors' \in 0..MaxDescriptors
      BY <1>1, <1>6 DEF DescriptorFree
    <2>2. ASSUME NEW i \in Indexes, kernel[i] = ItemName(b), Create(b, i, << >>, TRUE)
          PROVE  Inv'
      BY <1>1, <1>3, <1>4, <1>5, <1>6, <2>1, <2>2, CreateKeeps
    <2>3. ASSUME \A i \in Indexes : kernel[i] # ItemName(b), Create(b, 0, Warn(b, "ioctl"), TRUE)
          PROVE  Inv'
      BY <1>1, <1>3, <1>4, <1>5, <1>6, <2>1, <2>3, CreateKeeps
    <2>4. \/ \E i \in Indexes : kernel[i] = ItemName(b) /\ Create(b, i, << >>, TRUE)
          \/ /\ \A i \in Indexes : kernel[i] # ItemName(b)
             /\ Create(b, 0, Warn(b, "ioctl"), TRUE)
      <3>1. ~ UNCHANGED descriptors
        BY <1>1, <1>6
      <3>2. QED
        BY <3>1, Zenon DEF GetMtu
    <2>5. QED
      BY <2>2, <2>3, <2>4
  <1>7. CASE Create(b, 0, Warn(b, "socket"), FALSE) /\ UNCHANGED descriptors
    <2>1. descriptors' \in 0..MaxDescriptors
      BY <1>1, <1>7
    <2>2. QED
      BY <1>1, <1>3, <1>4, <1>5, <1>7, <2>1, CreateKeeps
  <1>8. QED
    BY <1>6, <1>7 DEF GetMtu, OpensSocket

-----------------------------------------------------------------------------
(* Dealing with an address. *)

LEMMA FinishKeeps ==
    ASSUME Inv, NEW b \in Builders, At(b, "address"),
           NEW g \in Interface, NEW e4 \in AddressesV4, NEW e6 \in AddressesV6,
           NEW x \in Seq(Reasons \X Nat), NEW ok \in BOOLEAN, Finish(b, g, x, ok),
           \A nb : (\A i \in DOMAIN x : \A r, p : x[i] = <<r, p>> => HasWarning(nb, r, p))
                      => DealtWith(browser[b], nb, This(b), g, e4, e6),
           e6.scopeName # NoName => <<Item(b).scope, e6.scopeName>> \in witnessed[b],
           Item(b).family = "inet6" /\ Item(b).scope # 0 /\ e6.scopeName = NoName
              => ~ok \/ kernel[Item(b).scope] = NoName
    PROVE  Inv'
  <1> DEFINE br == browser[b]
             k0 == Place(b)
  <1>1. /\ br \in Browser /\ br.phase = "address" /\ br.pos \in DOMAIN Slots
        /\ BrowserOK(br, kernel, witnessed[b], quiet[b])
    BY Under DEF At
  <1>2. k0 \in DOMAIN br.interfaces /\ br.interfaces[k0].name = NameAt(br, br.pos)
    <2>1. Known(b)
      <3>1. Listed(br.dump, br.pos) /\ Met(br, br.pos)
        BY <1>1 DEF BrowserOK, Position, Active, Met
      <3>2. \E k \in DOMAIN br.interfaces : br.interfaces[k].name = NameAt(br, br.pos)
        BY <1>1, <3>1 DEF BrowserOK, Grouped
      <3>3. QED
        BY <3>2, NamesOfItems DEF Known
    <2>2. QED
      BY <2>1, PlaceIsKnown
  <1>3. PICK nb : nb = [br EXCEPT
            !.phase = "next", !.pos = NextSlot(br.dump, @),
            !.starved = @ \/ ~ok,
            !.interfaces = [@ EXCEPT ![k0] = g],
            !.warnings = @ \o x]
    OBVIOUS
  <1>4. Update(b, nb) /\ UNCHANGED <<kernel, descriptors, changes, builds, witnessed, quiet>>
    BY <1>3 DEF Finish
  <1>5. This(b) = br.interfaces[k0] /\ Item(b) = Slots[br.pos]
    BY DEF This, Item
  <1> HIDE DEF br, k0
  <1>6. /\ nb.phase = "next" /\ nb.dump = br.dump /\ nb.pos = NextSlot(br.dump, br.pos)
        /\ nb.interfaces = [br.interfaces EXCEPT ![k0] = g]
        /\ nb.warnings = br.warnings \o x
        /\ nb.indexToName = br.indexToName
        /\ nb.starved = (br.starved \/ ~ok)
    BY <1>1, <1>3 DEF Browser
  <1>7. /\ nb.warnings \in Seq(Reasons \X Nat) /\ StillWarned(br, nb)
        /\ \A i \in DOMAIN x : \A r, p : x[i] = <<r, p>> => HasWarning(nb, r, p)
    BY <1>1, <1>6, WarningsGrow
  <1>8. DealtWith(br, nb, br.interfaces[k0], g, e4, e6)
    BY <1>5, <1>7 DEF br
  <1>9. nb \in Browser
    <2>1. nb.interfaces \in Seq(Interface)
      <3>1. br.interfaces \in Seq(Interface)
        BY <1>1 DEF Browser
      <3>2. DOMAIN br.interfaces = 1..Len(br.interfaces)
        BY <3>1, LenProperties
      <3>3. k0 \in 1..Len(br.interfaces)
        BY <1>2, <3>2
      <3>4. [br.interfaces EXCEPT ![k0] = g] \in Seq(Interface)
        BY <3>1, <3>3, ExceptSeq
      <3>5. QED
        BY <1>6, <3>4
    <2>2. nb.pos \in Nat
      <3>1. br.pos \in 0..Len(Slots) /\ Len(Slots) \in Nat
        BY <1>1, SlotPlaces
      <3>2. NextSlot(br.dump, br.pos) \in 1..Len(Slots) + 1
        BY <3>1, NextSlotIsNext
      <3>3. QED
        BY <1>6, <3>1, <3>2
    <2>3. nb = [br EXCEPT !.phase = "next", !.pos = nb.pos, !.starved = nb.starved,
                          !.interfaces = nb.interfaces, !.warnings = nb.warnings]
      BY <1>1, <1>3, <1>6 DEF Browser
    <2>4. "next" \in Phases
      BY DEF Phases
    <2>5. nb.starved \in BOOLEAN
      BY <1>6
    <2>6. QED
      BY <1>1, <1>7, <2>1, <2>2, <2>3, <2>4, <2>5 DEF Browser
  <1>10. /\ e6.scopeName # NoName => <<Slots[br.pos].scope, e6.scopeName>> \in witnessed[b]
         /\ Slots[br.pos].family = "inet6" /\ Slots[br.pos].scope # 0 /\ e6.scopeName = NoName
               => nb.starved \/ kernel[Slots[br.pos].scope] = NoName
         /\ br.starved => nb.starved
    BY <1>5, <1>6 DEF br
  <1>11. BrowserOK(nb, kernel, witnessed[b], quiet[b])
    BY <1>1, <1>2, <1>6, <1>7, <1>8, <1>9, <1>10, FinishStep, ZenonT(60)
  <1>12. QED
    BY <1>4, <1>9, <1>11, PlainUpdateKeeps

\* The interface of the item.
LEMMA ThisIsInterface ==
    ASSUME Inv, NEW b \in Builders, At(b, "address")
    PROVE  /\ This(b) \in Interface
           /\ browser[b].pos \in Nat
           /\ Item(b) = Slots[browser[b].pos]
           /\ Item(b).family \in Families /\ Item(b).scope \in 0..MaxIndex
  <1>1. /\ browser[b] \in Browser /\ browser[b].pos \in DOMAIN Slots
        /\ BrowserOK(browser[b], kernel, witnessed[b], quiet[b])
        /\ browser[b].phase = "address"
    BY Under DEF At
  <1>2. Place(b) \in DOMAIN browser[b].interfaces
    <2>1. Listed(browser[b].dump, browser[b].pos) /\ Met(browser[b], browser[b].pos)
      BY <1>1 DEF BrowserOK, Position, Active, Met
    <2>2. \E k \in DOMAIN browser[b].interfaces :
             browser[b].interfaces[k].name = NameAt(browser[b], browser[b].pos)
      BY <1>1, <2>1 DEF BrowserOK, Grouped
    <2>3. QED
      BY <2>2, NamesOfItems, PlaceIsKnown DEF Known
  <1>3. browser[b].interfaces \in Seq(Interface)
    BY <1>1 DEF Browser
  <1>4. This(b) \in Interface
    BY <1>2, <1>3, ElementOfSeq, LenProperties DEF This
  <1>5. Item(b) = Slots[browser[b].pos]
    BY DEF Item
  <1>6. browser[b].pos \in Nat
    BY <1>1 DEF Browser
  <1>7. QED
    BY <1>1, <1>4, <1>5, <1>6, SlotTypes

NoV4 == [slot |-> 0, other |-> "plain"]
NoV6 == [slot |-> 0, scopeName |-> NoName]

LEMMA NoAddresses ==
    /\ NoV4 \in AddressesV4
    /\ NoV6 \in AddressesV6
    /\ NoV6.scopeName = NoName
  BY DEF NoV4, NoV6, AddressesV4, AddressesV6, Flags

LEMMA NoAddressKeeps ==
    ASSUME Inv, NEW b \in Builders, NoAddress(b)
    PROVE  Inv'
  <1>1. At(b, "address") /\ Item(b).family = "null" /\ Finish(b, This(b), << >>, TRUE)
    BY DEF NoAddress, AtAddress
  <1>2. << >> \in Seq(Reasons \X Nat)
    BY EmptySeq
  <1>3. Slots[browser[b].pos].family = "null"
    BY <1>1 DEF Item
  <1>4. \A nb : DealtWith(browser[b], nb, This(b), This(b), NoV4, NoV6)
    BY <1>3 DEF DealtWith
  <1>5. QED
    BY <1>1, <1>2, <1>4, ThisIsInterface, NoAddresses, FinishKeeps

LEMMA UnrecognizedKeeps ==
    ASSUME Inv, NEW b \in Builders, Unrecognized(b)
    PROVE  Inv'
  <1> DEFINE x == Warn(b, "family")
  <1>1. At(b, "address") /\ Item(b).family = "other" /\ Finish(b, This(b), x, TRUE)
    BY DEF Unrecognized, AtAddress
  <1>2. /\ x \in Seq(Reasons \X Nat)
        /\ 1 \in DOMAIN x /\ x[1] = <<"family", browser[b].pos>>
    BY <1>1, ThisIsInterface, WarnTypes DEF Reasons
  <1>3. Slots[browser[b].pos].family = "other"
    BY <1>1 DEF Item
  <1> HIDE DEF x
  <1>4. ASSUME NEW nb, \A i \in DOMAIN x : \A r, p : x[i] = <<r, p>> => HasWarning(nb, r, p)
        PROVE  DealtWith(browser[b], nb, This(b), This(b), NoV4, NoV6)
    <2>1. HasWarning(nb, "family", browser[b].pos)
      BY <1>2, <1>4
    <2>2. QED
      BY <1>3, <2>1 DEF DealtWith
  <1>5. QED
    BY <1>1, <1>2, <1>4, ThisIsInterface, NoAddresses, FinishKeeps

LEMMA SetMacAddressKeeps ==
    ASSUME Inv, NEW b \in Builders, SetMacAddress(b)
    PROVE  Inv'
  <1>1. At(b, "address") /\ Item(b).family = "link" /\ Slots[browser[b].pos].family = "link"
    BY DEF SetMacAddress, AtAddress, Item
  <1>2. CASE Finish(b, [This(b) EXCEPT !.mac = browser[b].pos], << >>, TRUE)
    <2> DEFINE g == [This(b) EXCEPT !.mac = browser[b].pos]
    <2>1. This(b) \in Interface /\ browser[b].pos \in Nat
      BY <1>1, ThisIsInterface
    <2>2. /\ g \in Interface
          /\ g.name = This(b).name /\ g.index = This(b).index /\ g.mtu = This(b).mtu
          /\ g.v4 = This(b).v4 /\ g.v6 = This(b).v6 /\ g.mac = browser[b].pos
      BY <2>1 DEF Interface
    <2>3. << >> \in Seq(Reasons \X Nat)
      BY EmptySeq
    <2>4. Finish(b, g, << >>, TRUE)
      BY <1>2
    <2> HIDE DEF g
    <2>5. \A nb : DealtWith(browser[b], nb, This(b), g, NoV4, NoV6)
      BY <1>1, <2>2 DEF DealtWith
    <2>6. QED
      BY <1>1, <2>2, <2>3, <2>4, <2>5, NoAddresses, FinishKeeps
  <1>3. CASE Finish(b, This(b), Warn(b, "hardware"), TRUE)
    <2> DEFINE x == Warn(b, "hardware")
    <2>1. /\ x \in Seq(Reasons \X Nat)
          /\ 1 \in DOMAIN x /\ x[1] = <<"hardware", browser[b].pos>>
      BY <1>1, ThisIsInterface, WarnTypes DEF Reasons
    <2>2. Finish(b, This(b), x, TRUE)
      BY <1>3
    <2> HIDE DEF x
    <2>3. ASSUME NEW nb, \A i \in DOMAIN x : \A r, p : x[i] = <<r, p>> => HasWarning(nb, r, p)
          PROVE  DealtWith(browser[b], nb, This(b), This(b), NoV4, NoV6)
      <3>1. HasWarning(nb, "hardware", browser[b].pos)
        BY <2>1, <2>3
      <3>2. QED
        BY <1>1, <3>1 DEF DealtWith
    <2>4. QED
      BY <1>1, <2>1, <2>2, <2>3, ThisIsInterface, NoAddresses, FinishKeeps
  <1>4. QED
    BY <1>2, <1>3 DEF SetMacAddress

LEMMA AddIPv4AddressKeeps ==
    ASSUME Inv, NEW b \in Builders, AddIPv4Address(b)
    PROVE  Inv'
  <1>1. At(b, "address") /\ Item(b).family = "inet" /\ Slots[browser[b].pos].family = "inet"
    BY DEF AddIPv4Address, AtAddress, Item
  <1> DEFINE f == This(b)
             a == [slot |-> browser[b].pos,
                   other |-> IF Item(b).other THEN f.flags[1] ELSE "plain"]
             g == [f EXCEPT !.v4 = Append(@, a)]
  <1>2. f \in Interface /\ browser[b].pos \in Nat
    BY <1>1, ThisIsInterface
  <1>3. a \in AddressesV4 /\ a.slot = browser[b].pos
    <2>1. f.flags[1] \in Flags /\ "plain" \in Flags
      BY <1>2 DEF Interface, Flags
    <2>2. QED
      BY <1>2, <2>1 DEF AddressesV4
  <1>4. Finish(b, g, << >>, TRUE)
    BY DEF AddIPv4Address
  <1> HIDE DEF a, f
  <1>5. f.v4 \in Seq(AddressesV4)
    BY <1>2 DEF Interface, AddressesV4
  <1>6. Append(f.v4, a) \in Seq(AddressesV4)
    BY <1>3, <1>5, PushLemma
  <1>7. /\ g \in Interface
        /\ g.name = f.name /\ g.index = f.index /\ g.mtu = f.mtu
        /\ g.v4 = Append(f.v4, a) /\ g.v6 = f.v6 /\ g.mac = f.mac
    BY <1>2, <1>6 DEF Interface, AddressesV4
  <1>8. << >> \in Seq(Reasons \X Nat)
    BY EmptySeq
  <1> HIDE DEF g
  <1>9. \A nb : DealtWith(browser[b], nb, This(b), g, a, NoV6)
    BY <1>1, <1>3, <1>7 DEF DealtWith, f
  <1>10. QED
    BY <1>1, <1>3, <1>4, <1>7, <1>8, <1>9, NoAddresses, FinishKeeps

\* The scope's name is the kernel's: the one noted for the index, or today's.
LEMMA ScopeNameIsHonest ==
    ASSUME Inv, NEW b \in Builders, At(b, "address"), NEW ok \in BOOLEAN
    PROVE  /\ ScopeName(b, ok) \in Names \union {NoName}
           /\ ScopeName(b, ok) # NoName => <<Item(b).scope, ScopeName(b, ok)>> \in witnessed[b]
           /\ Item(b).scope # 0 /\ ScopeName(b, ok) = NoName
                 => ~ok \/ kernel[Item(b).scope] = NoName
  <1> DEFINE s == Item(b).scope
  <1>1. /\ browser[b] \in Browser /\ browser[b].phase = "address"
        /\ BrowserOK(browser[b], kernel, witnessed[b], quiet[b])
        /\ kernel \in [Indexes -> Names \union {NoName}]
    BY Under DEF At, Inv, TypeOK
  <1>2. s \in 0..MaxIndex /\ (s # 0 => s \in Indexes)
    <2>1. s \in 0..MaxIndex /\ MaxIndex \in Nat
      BY ThisIsInterface, PopulateAssumption
    <2>2. QED
      BY <2>1 DEF Indexes
  <1>3. CASE s = 0
    BY <1>3 DEF ScopeName
  <1>4. CASE s # 0 /\ browser[b].indexToName[s] # NoName
    <2>1. ScopeName(b, ok) = browser[b].indexToName[s]
      BY <1>4, SMTT(60) DEF ScopeName, LooksUpScope
    <2>2. <<s, browser[b].indexToName[s]>> \in witnessed[b]
      BY <1>1, <1>2, <1>4 DEF BrowserOK, Honest
    <2>3. browser[b].indexToName[s] \in Names \union {NoName}
      BY <1>1, <1>2 DEF Browser
    <2>4. QED
      BY <1>4, <2>1, <2>2, <2>3
  <1>5. CASE s # 0 /\ browser[b].indexToName[s] = NoName
    <2>1. ScopeName(b, ok) = IndexToName(s, ok)
      BY <1>5 DEF ScopeName, LooksUpScope
    <2>2. Pairs(kernel) \subseteq witnessed[b]
      BY <1>1 DEF BrowserOK, Active
    <2>3. CASE ok
      <3>1. ScopeName(b, ok) = kernel[s]
        BY <1>2, <1>5, <2>1, <2>3 DEF IndexToName
      <3>2. kernel[s] # NoName => <<s, kernel[s]>> \in Pairs(kernel)
        BY <1>2, <1>5 DEF Pairs
      <3>3. QED
        BY <1>1, <1>2, <1>5, <2>2, <3>1, <3>2
    <2>4. CASE ~ok
      BY <1>5, <2>1, <2>4 DEF IndexToName
    <2>5. QED
      BY <2>3, <2>4
  <1>6. QED
    BY <1>3, <1>4, <1>5

LEMMA AddIPv6AddressKeeps ==
    ASSUME Inv, NEW b \in Builders, AddIPv6Address(b)
    PROVE  Inv'
  <1>1. At(b, "address") /\ Item(b).family = "inet6" /\ Slots[browser[b].pos].family = "inet6"
    BY DEF AddIPv6Address, AtAddress, Item
  <1>0. PICK ok \in BOOLEAN :
           LET a == [slot |-> browser[b].pos, scopeName |-> ScopeName(b, ok)]
           IN Finish(b, [This(b) EXCEPT !.v6 = Append(@, a)], << >>, ok)
    BY DEF AddIPv6Address
  <1> DEFINE f == This(b)
             a == [slot |-> browser[b].pos, scopeName |-> ScopeName(b, ok)]
             g == [f EXCEPT !.v6 = Append(@, a)]
  <1>2. f \in Interface /\ browser[b].pos \in Nat
    BY <1>1, ThisIsInterface
  <1>3. /\ a \in AddressesV6 /\ a.slot = browser[b].pos
        /\ a.scopeName # NoName => <<Item(b).scope, a.scopeName>> \in witnessed[b]
        /\ Item(b).scope # 0 /\ a.scopeName = NoName => ~ok \/ kernel[Item(b).scope] = NoName
    BY <1>1, <1>2, ScopeNameIsHonest DEF AddressesV6
  <1>4. Finish(b, g, << >>, ok)
    BY <1>0
  <1> HIDE DEF a, f
  <1>5. f.v6 \in Seq(AddressesV6)
    BY <1>2 DEF Interface, AddressesV6
  <1>6. Append(f.v6, a) \in Seq(AddressesV6)
    BY <1>3, <1>5, PushLemma
  <1>7. /\ g \in Interface
        /\ g.name = f.name /\ g.index = f.index /\ g.mtu = f.mtu
        /\ g.v4 = f.v4 /\ g.v6 = Append(f.v6, a) /\ g.mac = f.mac
    BY <1>2, <1>6 DEF Interface, AddressesV6
  <1>8. << >> \in Seq(Reasons \X Nat)
    BY EmptySeq
  <1> HIDE DEF g
  <1>9. \A nb : DealtWith(browser[b], nb, This(b), g, NoV4, a)
    BY <1>1, <1>3, <1>7 DEF DealtWith, f
  <1>10. QED
    BY <1>1, <1>3, <1>4, <1>7, <1>8, <1>9, NoAddresses, FinishKeeps

-----------------------------------------------------------------------------
(* The other actions. *)

LEMMA IndexKeeps ==
    ASSUME Inv, NEW b \in Builders, Index(b)
    PROVE  Inv'
  <1> DEFINE br == browser[b]
             mi == [i \in 0..MaxIndex |-> First(WithIndex(b, i))]
             mn == [n \in Names |-> First(WithName(b, n))]
  <1>1. /\ br \in Browser /\ br.phase = "next" /\ br.pos = Len(Slots) + 1
        /\ BrowserOK(br, kernel, witnessed[b], quiet[b])
    BY Under DEF Index, At, AtEnd
  <1>2. \A k \in DOMAIN br.interfaces : k \in Nat \ {0}
    <2>1. br.interfaces \in Seq(Interface)
      BY <1>1 DEF Browser
    <2>2. Len(br.interfaces) \in Nat /\ DOMAIN br.interfaces = 1..Len(br.interfaces)
      BY <2>1, LenProperties
    <2>3. QED
      BY <2>2
  <1>3. /\ \A i : WithIndex(b, i) \subseteq Nat \ {0}
        /\ \A n : WithName(b, n) \subseteq Nat \ {0}
    BY <1>2 DEF WithIndex, WithName
  <1>4. /\ \A i : First(WithIndex(b, i)) \in Nat
        /\ \A n : First(WithName(b, n)) \in Nat
    BY <1>3, FirstIsLeast
  <1>5. mi \in [0..MaxIndex -> Nat] /\ mn \in [Names -> Nat]
    BY <1>4
  <1>6. /\ \A i \in 0..MaxIndex : mi[i] =
              First({k \in DOMAIN br.interfaces : br.interfaces[k].index = i})
        /\ \A n \in Names : mn[n] =
              First({k \in DOMAIN br.interfaces : br.interfaces[k].name = n})
    BY DEF WithIndex, WithName
  <1>7. PICK nb : nb = [br EXCEPT !.phase = "built", !.indexToInterface = mi,
                                  !.nameToInterface = mn]
    OBVIOUS
  <1>8. Update(b, nb) /\ UNCHANGED <<kernel, descriptors, changes, builds, witnessed, quiet>>
    BY <1>7 DEF Index
  <1> HIDE DEF br, mi, mn
  <1>9. /\ nb.phase = "built" /\ nb.dump = br.dump /\ nb.pos = br.pos
        /\ nb.interfaces = br.interfaces /\ nb.indexToName = br.indexToName
        /\ nb.warnings = br.warnings /\ nb.starved = br.starved
        /\ nb.indexToInterface = mi /\ nb.nameToInterface = mn
    BY <1>1, <1>7 DEF Browser
  <1>10. nb \in Browser
    <2>1. "built" \in Phases
      BY DEF Phases
    <2>2. QED
      BY <1>1, <1>5, <1>7, <2>1 DEF Browser
  <1>11. BrowserOK(nb, kernel, witnessed[b], quiet[b])
    BY <1>1, <1>6, <1>9, <1>10, IndexStep
  <1>12. QED
    BY <1>8, <1>10, <1>11, PlainUpdateKeeps

\* A browser is replaced by one that has only just begun, or by none.
LEMMA RestartKeeps ==
    ASSUME Inv, NEW b \in Builders, NEW nb \in Browser, Update(b, nb),
           NEW w \in SUBSET (Indexes \X Names), NEW q \in BOOLEAN,
           witnessed' = [witnessed EXCEPT ![b] = w],
           quiet' = [quiet EXCEPT ![b] = q],
           UNCHANGED <<kernel, descriptors, changes>>,
           builds' \in 0..MaxBuilds,
           BrowserOK(nb, kernel, w, q)
    PROVE  Inv'
  <1>1. /\ browser' = [browser EXCEPT ![b] = nb] /\ browser \in [Builders -> Browser]
        /\ witnessed \in [Builders -> SUBSET (Indexes \X Names)]
        /\ quiet \in [Builders -> BOOLEAN]
    BY DEF Update, Inv, TypeOK
  <1>2. TypeOK'
    BY <1>1 DEF Inv, TypeOK
  <1>3. Distinct(kernel)'
    BY DEF Inv, Distinct
  <1>4. ASSUME NEW c \in Builders
        PROVE  BrowserOK(browser'[c], kernel, witnessed'[c], quiet'[c])
    <2>1. CASE c = b
      <3>1. browser'[c] = nb /\ witnessed'[c] = w /\ quiet'[c] = q
        BY <1>1, <2>1
      <3>2. QED
        BY <3>1
    <2>2. CASE c # b
      <3>1. browser'[c] = browser[c] /\ witnessed'[c] = witnessed[c] /\ quiet'[c] = quiet[c]
        BY <1>1, <2>2
      <3>2. BrowserOK(browser[c], kernel, witnessed[c], quiet[c])
        BY DEF Inv
      <3>3. QED
        BY <3>1, <3>2
    <2>3. QED
      BY <2>1, <2>2
  <1>5. QED
    BY <1>2, <1>3, <1>4 DEF Inv

LEMMA GetIfAddrsKeeps ==
    ASSUME Inv, NEW b \in Builders, GetIfAddrs(b)
    PROVE  Inv'
  <1>1. builds' \in 0..MaxBuilds /\ UNCHANGED <<kernel, descriptors, changes>>
    <2>1. /\ builds \in 0..MaxBuilds /\ builds < MaxBuilds /\ builds' = builds + 1
          /\ MaxBuilds \in Nat
      BY PopulateAssumption DEF Inv, TypeOK, GetIfAddrs
    <2>2. builds' \in 0..MaxBuilds
      BY <2>1
    <2>3. QED
      BY <2>2 DEF GetIfAddrs
  <1>2. Distinct(kernel) /\ kernel \in [Indexes -> Names \union {NoName}]
    BY DEF Inv, TypeOK
  <1>3. Pairs(kernel) \in SUBSET (Indexes \X Names)
    BY <1>2 DEF Pairs
  <1>4. ASSUME NEW moved \in BOOLEAN,
               Update(b, [Fresh EXCEPT !.phase = "next", !.dump = kernel,
                                       !.moved = moved, !.pos = NextSlot(kernel, 0)]),
               witnessed' = [witnessed EXCEPT ![b] = Pairs(kernel)],
               quiet' = [quiet EXCEPT ![b] = TRUE]
        PROVE  Inv'
    <2>1. PICK nb : nb = [Fresh EXCEPT !.phase = "next", !.dump = kernel,
                                       !.moved = moved, !.pos = NextSlot(kernel, 0)]
      OBVIOUS
    <2>2. /\ nb.phase = "next" /\ nb.dump = kernel /\ nb.pos = NextSlot(kernel, 0)
          /\ nb.interfaces = << >>
          /\ nb.indexToName = [i \in 0..MaxIndex |-> NoName]
      BY <2>1, FreshTypes DEF Browser
    <2>3. nb \in Browser
      <3>1. NextSlot(kernel, 0) \in Nat
        <4>1. Len(Slots) \in Nat /\ 0 \in 0..Len(Slots)
          BY SlotPlaces
        <4>2. NextSlot(kernel, 0) \in 1..Len(Slots) + 1
          BY <4>1, NextSlotIsNext
        <4>3. QED
          BY <4>1, <4>2
      <3>2. "next" \in Phases
        BY DEF Phases
      <3>3. QED
        BY <1>2, <2>1, <3>1, <3>2, FreshTypes DEF Browser
    <2>4. BrowserOK(nb, kernel, Pairs(kernel), TRUE)
      BY <1>2, <2>2, StartStep
    <2>5. Update(b, nb)
      BY <1>4, <2>1
    <2>6. QED
      BY <1>1, <1>3, <1>4, <2>3, <2>4, <2>5, RestartKeeps
  <1>5. ASSUME Update(b, [Fresh EXCEPT !.phase = "failed"]), UNCHANGED <<witnessed, quiet>>
        PROVE  Inv'
    <2>1. PICK nb : nb = [Fresh EXCEPT !.phase = "failed"]
      OBVIOUS
    <2>2. /\ nb.phase = "failed" /\ nb.interfaces = << >> /\ nb.pos = 0
          /\ \A i \in 0..MaxIndex : nb.indexToName[i] = NoName
      BY <2>1, FreshTypes DEF Browser
    <2>3. nb \in Browser
      <3>1. "failed" \in Phases
        BY DEF Phases
      <3>2. QED
        BY <2>1, <3>1, FreshTypes DEF Browser
    <2>4. BrowserOK(nb, kernel, witnessed[b], quiet[b])
      <3>1. nb.phase \in {"idle", "failed"}
        BY <2>2
      <3>2. QED
        BY <2>2, <3>1, EmptyBrowser
    <2>5. Update(b, nb)
      BY <1>5, <2>1
    <2>6. /\ witnessed[b] \in SUBSET (Indexes \X Names) /\ quiet[b] \in BOOLEAN
          /\ witnessed' = [witnessed EXCEPT ![b] = witnessed[b]]
          /\ quiet' = [quiet EXCEPT ![b] = quiet[b]]
      BY <1>5 DEF Inv, TypeOK
    <2>7. QED
      BY <1>1, <2>3, <2>4, <2>5, <2>6, RestartKeeps
  <1>6. QED
    BY <1>4, <1>5 DEF GetIfAddrs

LEMMA DestroyKeeps ==
    ASSUME Inv, NEW b \in Builders, Destroy(b)
    PROVE  Inv'
  <1>1. BrowserOK(Fresh, kernel, {}, TRUE)
    BY FreshIsEmpty
  <1>2. builds' \in 0..MaxBuilds
    BY DEF Inv, TypeOK, Destroy
  <1>3. {} \in SUBSET (Indexes \X Names) /\ TRUE \in BOOLEAN
    OBVIOUS
  <1>4. /\ Update(b, Fresh)
        /\ witnessed' = [witnessed EXCEPT ![b] = {}]
        /\ quiet' = [quiet EXCEPT ![b] = TRUE]
        /\ UNCHANGED <<kernel, descriptors, changes>>
    BY DEF Destroy
  <1>5. QED
    BY <1>1, <1>2, <1>3, <1>4, FreshTypes, RestartKeeps

LEMMA ChangeKernelKeeps ==
    ASSUME Inv, ChangeKernel
    PROVE  Inv'
  <1>1. PICK i \in Indexes, n \in Names \union {NoName} :
           /\ n # NoName => \A j \in Indexes : kernel[j] # n
           /\ kernel' = [kernel EXCEPT ![i] = n]
    BY DEF ChangeKernel
  <1>2. /\ kernel \in [Indexes -> Names \union {NoName}] /\ Distinct(kernel)
        /\ witnessed \in [Builders -> SUBSET (Indexes \X Names)]
        /\ changes' \in 0..MaxChanges
    <2>1. changes \in 0..MaxChanges /\ MaxChanges \in Nat /\ changes < MaxChanges
          /\ changes' = changes + 1
      BY PopulateAssumption DEF Inv, TypeOK, ChangeKernel
    <2>2. QED
      BY <2>1 DEF Inv, TypeOK
  <1>3. kernel' \in [Indexes -> Names \union {NoName}]
    BY <1>1, <1>2
  <1>4. Distinct(kernel)'
    BY <1>1, <1>2 DEF Distinct
  <1>5. Pairs(kernel') \in SUBSET (Indexes \X Names)
    BY <1>3 DEF Pairs
  <1>6. /\ witnessed' = [b \in Builders |-> witnessed[b] \union Pairs(kernel')]
        /\ quiet' = [b \in Builders |-> FALSE]
        /\ UNCHANGED <<descriptors, builds, browser>>
    BY DEF ChangeKernel
  <1>7. TypeOK'
    <2>1. witnessed' \in [Builders -> SUBSET (Indexes \X Names)]
      BY <1>2, <1>5, <1>6
    <2>2. QED
      BY <1>2, <1>3, <1>6, <2>1 DEF Inv, TypeOK
  <1>8. ASSUME NEW b \in Builders
        PROVE  BrowserOK(browser'[b], kernel', witnessed'[b], quiet'[b])
    <2>1. BrowserOK(browser[b], kernel, witnessed[b], quiet[b])
      BY DEF Inv
    <2>2. BrowserOK(browser[b], kernel', witnessed[b] \union Pairs(kernel'), FALSE)
      BY <2>1, KernelStep
    <2>3. /\ browser'[b] = browser[b] /\ quiet'[b] = FALSE
          /\ witnessed'[b] = witnessed[b] \union Pairs(kernel')
      BY <1>6
    <2>4. QED
      BY <2>2, <2>3
  <1>9. QED
    BY <1>4, <1>7, <1>8 DEF Inv

LEMMA InitInv == Init => Inv
  <1> SUFFICES ASSUME Init PROVE Inv
    OBVIOUS
  <1>1. TypeOK
    BY PopulateAssumption, FreshTypes DEF Init, TypeOK
  <1>2. Distinct(kernel)
    BY PopulateAssumption DEF Init, Distinct
  <1>3. ASSUME NEW b \in Builders
        PROVE  BrowserOK(browser[b], kernel, witnessed[b], quiet[b])
    <2>1. browser[b] = Fresh
      BY DEF Init
    <2>2. QED
      BY <2>1, FreshIsEmpty
  <1>4. QED
    BY <1>1, <1>2, <1>3 DEF Inv

LEMMA StutterKeeps == ASSUME Inv, UNCHANGED vars PROVE Inv'
  BY DEF Inv, TypeOK, vars, Distinct

LEMMA NextKeeps == ASSUME Inv, [Next]_vars PROVE Inv'
  <1>1. CASE ChangeKernel
    BY <1>1, ChangeKernelKeeps
  <1>2. ASSUME NEW b \in Builders, GetIfAddrs(b) PROVE Inv'
    BY <1>2, GetIfAddrsKeeps
  <1>3. ASSUME NEW b \in Builders, Construct(b) PROVE Inv'
    BY <1>3, KnownInterfaceKeeps, NewInterfaceKeeps, GetMtuKeeps, NoAddressKeeps,
       SetMacAddressKeeps, AddIPv4AddressKeeps, AddIPv6AddressKeeps,
       UnrecognizedKeeps, IndexKeeps DEF Construct
  <1>4. ASSUME NEW b \in Builders, Destroy(b) PROVE Inv'
    BY <1>4, DestroyKeeps
  <1>5. CASE Rest
    BY <1>5, StutterKeeps DEF Rest
  <1>6. CASE UNCHANGED vars
    BY <1>6, StutterKeeps
  <1>7. QED
    BY <1>1, <1>2, <1>3, <1>4, <1>5, <1>6 DEF Next

\* The invariant holds of every browser, always.
THEOREM AlwaysInv == Spec => []Inv
  <1>1. Inv /\ [Next]_vars => Inv'
    BY NextKeeps
  <1>2. QED
    BY <1>1, InitInv, PTL DEF Spec

-----------------------------------------------------------------------------
(* What the invariant implies of a browser that is built. *)

LEMMA BuiltBrowser ==
    ASSUME Inv, NEW b \in Builders, Built(b)
    PROVE  /\ browser[b] \in Browser /\ browser[b].phase = "built" /\ Active(browser[b])
           /\ BrowserOK(browser[b], kernel, witnessed[b], quiet[b])
           /\ browser[b].pos = Len(Slots) + 1
           /\ \A p \in DOMAIN Slots : p < browser[b].pos /\ Met(browser[b], p)
  <1>1. /\ browser[b] \in Browser /\ browser[b].phase = "built" /\ Active(browser[b])
        /\ BrowserOK(browser[b], kernel, witnessed[b], quiet[b])
    BY Under DEF Built, At, Active
  <1>2. browser[b].pos = Len(Slots) + 1
    BY <1>1 DEF BrowserOK, Position
  <1>3. \A p \in DOMAIN Slots : p < browser[b].pos
    BY <1>2, SlotPlaces
  <1>4. QED
    BY <1>1, <1>2, <1>3 DEF Met

\* At the end, all of the items have been passed.
LEMMA AllPassed ==
    ASSUME NEW br, NEW v, NEW n, NEW fam,
           \A p \in DOMAIN Slots : p < br.pos,
           FromPassed(br, v, n, fam)
    PROVE  FromItems(br.dump, v, n, fam)
  <1>1. ASSUME NEW a \in DOMAIN v
        PROVE  /\ v[a].slot \in DOMAIN Slots
               /\ br.dump[Slots[v[a].slot].origin] = n /\ Slots[v[a].slot].family = fam
    BY DEF FromPassed, NameAt
  <1>2. ASSUME NEW p \in DOMAIN Slots,
               br.dump[Slots[p].origin] = n, Slots[p].family = fam
        PROVE  \E a \in DOMAIN v : v[a].slot = p
    BY <1>2 DEF FromPassed, NameAt
  <1>3. {v[a].slot : a \in DOMAIN v} =
           {p \in DOMAIN Slots : br.dump[Slots[p].origin] = n /\ Slots[p].family = fam}
    BY <1>1, <1>2
  <1>4. QED
    BY <1>3 DEF FromItems, FromPassed

LEMMA InvAccounted == ASSUME OneLinkItemEach, Inv PROVE EverythingAccounted
  <1> SUFFICES ASSUME NEW b \in Builders, Built(b)
               PROVE
        LET br == browser[b]
        IN /\ {br.interfaces[k].name : k \in DOMAIN br.interfaces} =
                   {br.dump[Slots[p].origin] : p \in {q \in DOMAIN Slots : Listed(br.dump, q)}}
           /\ \A k \in DOMAIN br.interfaces :
                LET f == br.interfaces[k]
                IN /\ \A j \in DOMAIN br.interfaces : br.interfaces[j].name = f.name => j = k
                   /\ FromItems(br.dump, f.v4, f.name, "inet")
                   /\ FromItems(br.dump, f.v6, f.name, "inet6")
                   /\ f.mtu = 0 => \E p \in DOMAIN Slots, r \in {"ioctl", "socket"} :
                                       /\ br.dump[Slots[p].origin] = f.name
                                       /\ Warned(b, r, p)
           /\ \A p \in DOMAIN Slots : Listed(br.dump, p) =>
                /\ Slots[p].family = "other" => Warned(b, "family", p)
                /\ Slots[p].family = "link" =>
                       Warned(b, "hardware", p) \/ \E k \in DOMAIN br.interfaces :
                                                      br.interfaces[k].mac = p
    BY DEF EverythingAccounted
  <1> DEFINE br == browser[b]
             s  == br.interfaces
  <1>1. /\ br \in Browser
        /\ BrowserOK(br, kernel, witnessed[b], quiet[b])
        /\ \A p \in DOMAIN Slots : p < br.pos /\ Met(br, p)
    BY BuiltBrowser
  <1>2. \A p : NameAt(br, p) = br.dump[Slots[p].origin]
    BY DEF NameAt
  <1>3. \A r, p : Warned(b, r, p) <=> HasWarning(br, r, p)
    BY DEF Warned, HasWarning
  <1>4. \A k \in DOMAIN s : s[k].name \in Names
    <2>1. s \in Seq(Interface)
      BY <1>1 DEF Browser
    <2>2. \A k \in DOMAIN s : s[k] \in Interface
      BY <2>1, ElementOfSeq, LenProperties
    <2>3. QED
      BY <2>2 DEF Interface
  <1> HIDE DEF br
  <1>5. Grouped(br) /\ Addressed(br) /\ Excused(br) /\ Linked(br)
    BY <1>1 DEF BrowserOK
  <1>6. {s[k].name : k \in DOMAIN s} =
           {br.dump[Slots[p].origin] : p \in {q \in DOMAIN Slots : Listed(br.dump, q)}}
    <2>1. ASSUME NEW k \in DOMAIN s
          PROVE  \E p \in {q \in DOMAIN Slots : Listed(br.dump, q)} :
                    s[k].name = br.dump[Slots[p].origin]
      <3>1. PICK p \in DOMAIN Slots : s[k].name = NameAt(br, p)
        BY <1>5 DEF Grouped
      <3>2. Listed(br.dump, p)
        BY <1>1, <1>4, <3>1, NamesAt
      <3>3. QED
        BY <1>2, <3>1, <3>2
    <2>2. ASSUME NEW p \in DOMAIN Slots, Listed(br.dump, p)
          PROVE  \E k \in DOMAIN s : s[k].name = br.dump[Slots[p].origin]
      BY <1>1, <1>2, <1>5, <2>2 DEF Grouped
    <2>3. QED
      BY <2>1, <2>2
  <1>7. ASSUME NEW k \in DOMAIN s
        PROVE  /\ \A j \in DOMAIN s : s[j].name = s[k].name => j = k
               /\ FromItems(br.dump, s[k].v4, s[k].name, "inet")
               /\ FromItems(br.dump, s[k].v6, s[k].name, "inet6")
               /\ s[k].mtu = 0 => \E p \in DOMAIN Slots, r \in {"ioctl", "socket"} :
                                     /\ br.dump[Slots[p].origin] = s[k].name
                                     /\ Warned(b, r, p)
    <2>1. \A j \in DOMAIN s : s[j].name = s[k].name => j = k
      BY <1>5 DEF Grouped
    <2>2. FromPassed(br, s[k].v4, s[k].name, "inet") /\ FromPassed(br, s[k].v6, s[k].name, "inet6")
      BY <1>5 DEF Addressed
    <2>3. FromItems(br.dump, s[k].v4, s[k].name, "inet")
      BY <1>1, <2>2, AllPassed
    <2>4. FromItems(br.dump, s[k].v6, s[k].name, "inet6")
      BY <1>1, <2>2, AllPassed
    <2>5. QED
      BY <1>2, <1>3, <1>5, <2>1, <2>3, <2>4 DEF Excused
  <1>8. ASSUME NEW p \in DOMAIN Slots, Listed(br.dump, p)
        PROVE  /\ Slots[p].family = "other" => Warned(b, "family", p)
               /\ Slots[p].family = "link" =>
                     Warned(b, "hardware", p) \/ \E k \in DOMAIN s : s[k].mac = p
    BY <1>1, <1>3, <1>5, <1>8 DEF Excused, Linked
  <1>9. QED
    BY <1>6, <1>7, <1>8 DEF br

LEMMA InvHonest == ASSUME Inv PROVE HonestScopes
  <1>1. ASSUME NEW b \in Builders PROVE Honest(browser[b], witnessed[b])
    BY Under DEF BrowserOK
  <1>2. QED
    BY <1>1 DEF HonestScopes, Honest

\* Lookups in a browser that is built.
LEMMA Lookups ==
    ASSUME Inv, NEW b \in Builders, Built(b), NEW k \in DOMAIN browser[b].interfaces
    PROVE  LET f == browser[b].interfaces[k]
               j == GetByIndex(b, f.index)
           IN /\ f \in Interface
              /\ GetByName(b, f.name) = k
              /\ j \in 1..k
              /\ j \in DOMAIN browser[b].interfaces
              /\ browser[b].interfaces[j].index = f.index
  <1> DEFINE s == browser[b].interfaces
             f == s[k]
             I == {j \in DOMAIN s : s[j].index = f.index}
             N == {j \in DOMAIN s : s[j].name = f.name}
  <1>1. s \in Seq(Interface) /\ Indexed(browser[b]) /\ Grouped(browser[b])
        /\ browser[b].phase = "built"
    BY BuiltBrowser DEF Browser, BrowserOK
  <1>2. Len(s) \in Nat /\ DOMAIN s = 1..Len(s) /\ f \in Interface
    BY <1>1, LenProperties, ElementOfSeq
  <1>3. f.index \in 0..MaxIndex /\ f.name \in Names
    BY <1>2 DEF Interface
  <1>4. /\ GetByIndex(b, f.index) = First(I)
        /\ GetByName(b, f.name) = First(N)
    BY <1>1, <1>3 DEF Indexed, GetByIndex, GetByName
  <1>5. I \subseteq Nat \ {0} /\ N \subseteq Nat \ {0} /\ k \in I /\ k \in N
    BY <1>2
  <1> HIDE DEF s
  <1>6. First(I) \in I /\ First(I) <= k
    <2> HIDE DEF I
    <2>1. QED
      BY <1>5, FirstIsLeast
  <1>7. First(N) \in N
    <2> HIDE DEF N
    <2>1. QED
      BY <1>5, FirstIsLeast
  <1>8. First(N) = k
    BY <1>1, <1>7 DEF Grouped, s
  <1>9. First(I) \in 1..k /\ First(I) \in DOMAIN s /\ s[First(I)].index = f.index
    BY <1>2, <1>6
  <1>10. QED
    BY <1>2, <1>4, <1>8, <1>9 DEF s

LEMMA InvLookups == ASSUME Inv PROVE LookupsFind
  BY Lookups, SMTT(60) DEF LookupsFind

LEMMA InvQuiet == ASSUME Inv PROVE QuietSnapshot
  <1> SUFFICES ASSUME NEW b \in Builders, Built(b), quiet[b],
                      NEW k \in DOMAIN browser[b].interfaces
               PROVE
        LET br == browser[b]
            f  == br.interfaces[k]
        IN /\ f.index # 0 => <<f.index, f.name>> \in Pairs(kernel) /\ GetByIndex(b, f.index) = k
           /\ f.mtu # 0 => <<f.mtu, f.name>> \in Pairs(kernel)
           /\ f.mtu = 0 => \E p \in DOMAIN Slots : /\ br.dump[Slots[p].origin] = f.name
                                                   /\ Warned(b, "socket", p)
           /\ GetByName(b, f.name) = k
           /\ \A a \in DOMAIN f.v6 :
                 LET v == f.v6[a]
                     s == Slots[v.slot].scope
                 IN /\ v.scopeName # NoName => v.scopeName = kernel[s]
                    /\ ~br.starved /\ s # 0 => v.scopeName = kernel[s]
           /\ ~br.starved => f.index # 0 /\ f.mtu # 0
    BY DEF QuietSnapshot
  <1> DEFINE br == browser[b]
             f  == br.interfaces[k]
             j  == GetByIndex(b, f.index)
  <1>1. /\ br \in Browser
        /\ Quiet(br, kernel, witnessed[b])
        /\ Honest(br, witnessed[b]) /\ Grouped(br)
    BY BuiltBrowser DEF BrowserOK
  <1>2. witnessed[b] = Pairs(kernel) /\ Own(br, kernel, f)
    BY <1>1 DEF Quiet
  <1>3. \A i, n : <<i, n>> \in Pairs(kernel) => i \in Indexes /\ n = kernel[i]
    BY Zenon DEF Pairs
  <1>4. /\ GetByName(b, f.name) = k
        /\ j \in DOMAIN br.interfaces
        /\ br.interfaces[j].index = f.index
    BY Lookups
  <1>5. ASSUME f.index # 0
        PROVE  <<f.index, f.name>> \in Pairs(kernel) /\ j = k
    <2>1. <<f.index, f.name>> \in Pairs(kernel)
      BY <1>1, <1>2, <1>5 DEF Honest
    <2>2. <<f.index, br.interfaces[j].name>> \in Pairs(kernel)
      BY <1>1, <1>2, <1>4, <1>5 DEF Honest
    <2>3. br.interfaces[j].name = f.name
      BY <1>3, <2>1, <2>2
    <2>4. QED
      BY <1>1, <1>4, <2>1, <2>3 DEF Grouped
  <1>6. ASSUME f.mtu = 0
        PROVE  \E p \in DOMAIN Slots : br.dump[Slots[p].origin] = f.name /\ Warned(b, "socket", p)
    BY <1>2, <1>6, SMTT(60) DEF Own, NameAt, Warned, HasWarning
  <1>7. ASSUME NEW a \in DOMAIN f.v6
        PROVE  LET v == f.v6[a]
                   s == Slots[v.slot].scope
               IN /\ v.scopeName # NoName => v.scopeName = kernel[s]
                  /\ ~br.starved /\ s # 0 => v.scopeName = kernel[s]
    <2> DEFINE v == f.v6[a]
               s == Slots[v.slot].scope
    <2>1. v.scopeName # NoName => v.scopeName = kernel[s]
      <3>1. v.scopeName # NoName => <<s, v.scopeName>> \in Pairs(kernel)
        BY <1>1, <1>2 DEF Honest
      <3>2. QED
        BY <1>3, <3>1, Zenon
    <2>2. ~br.starved /\ s # 0 /\ v.scopeName = NoName => kernel[s] = NoName
      BY <1>2, Zenon DEF Own
    <2>3. QED
      BY <2>1, <2>2, Zenon
  <1>8. /\ f.mtu # 0 => <<f.mtu, f.name>> \in Pairs(kernel)
        /\ ~br.starved => f.index # 0 /\ f.mtu # 0
    BY <1>2, Zenon DEF Own
  <1>9. QED
    BY <1>4, <1>5, <1>6, <1>7, <1>8, ZenonT(60)

-----------------------------------------------------------------------------
(* The theorems. *)

\* TypeOK, of the specification.
THEOREM TypeCorrect == Spec => []TypeOK
  <1>1. Inv => TypeOK
    BY DEF Inv
  <1>2. QED
    BY <1>1, AlwaysInv, PTL

\* Grouping getifaddrs's list loses, repeats, reorders and misplaces nothing,
\* however the kernel changes meanwhile and whatever runs out.
THEOREM AlwaysAccounted ==
    ASSUME OneLinkItemEach
    PROVE  Spec => []EverythingAccounted
  <1>1. Inv => EverythingAccounted
    BY InvAccounted
  <1>2. QED
    BY <1>1, AlwaysInv, PTL

\* A name that a browser gives an IPv6 scope is one that the kernel gave the
\* scope's index during the construction.
THEOREM AlwaysHonestScopes == Spec => []HonestScopes
  <1>1. Inv => HonestScopes
    BY InvHonest
  <1>2. QED
    BY <1>1, AlwaysInv, PTL

\* The lookup maps find what is on the list, the first one of those that have
\* the same index.
THEOREM LookupsAlwaysFind == Spec => []LookupsFind
  <1>1. Inv => LookupsFind
    BY InvLookups
  <1>2. QED
    BY <1>1, AlwaysInv, PTL

\* Of a quiet system nothing wrong is said, whoever takes the descriptors and
\* for however long, and nothing is left open if none was missing.
THEOREM AlwaysQuietSnapshot == Spec => []QuietSnapshot
  <1>1. Inv => QuietSnapshot
    BY InvQuiet
  <1>2. QED
    BY <1>1, AlwaysInv, PTL

=============================================================================
