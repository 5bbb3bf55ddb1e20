---------------------------- MODULE ValuesProofs ----------------------------
(***************************************************************************)
(* Proofs about Values: what holds of scopes for every kernel, every text  *)
(* and every size of an id, of iterators for lists of any length, of the   *)
(* library that is loaded for every system and set of files, and of MAC    *)
(* addresses for texts and octets of any number.                           *)
(***************************************************************************)
EXTENDS Values, StackLemmas

-----------------------------------------------------------------------------
(* Scopes. *)

\* An id that fits is not cut off.
LEMMA SmallId ==
    ASSUME NEW n \in 0..(IdModulus - 1)
    PROVE  n % IdModulus = n
  BY IpAddressAssumption DEF IpAddressAssumption

\* An id fits once it is cut off.
LEMMA CutId ==
    ASSUME NEW n \in Nat
    PROVE  n % IdModulus \in 0..(IdModulus - 1)
  BY IpAddressAssumption DEF IpAddressAssumption

\* No text is not a number.
LEMMA NoDigits == ~NoText.digits
  BY DEF NoText, Name

\* What the kernel may know.
Kernel(k) ==
    /\ DOMAIN k \subseteq 1..(IdModulus - 1)
    /\ \A i \in DOMAIN k : k[i] \in Text \ {NoText} /\ ~k[i].digits
    /\ \A i, j \in DOMAIN k : k[i] = k[j] => i = j

\* The three forms of a scope.
IsScope(k, s) ==
    \/ s = NoScope
    \/ \E i \in 1..(IdModulus - 1) :
          s = [id |-> i, name |-> IF i \in DOMAIN k THEN k[i] ELSE NoText]
    \/ \E t \in Text \ {NoText} :
          /\ t.digits => t.value % IdModulus = 0 /\ t.value < LongModulus
          /\ t \notin {k[i] : i \in DOMAIN k}
          /\ s = [id |-> NoId, name |-> t]

\* The kernel finds the index of a name it knows.
LEMMA IndexOfName ==
    ASSUME NEW k, Kernel(k), NEW t
    PROVE  /\ \A i \in DOMAIN k : k[i] = t => IndexOf(k, t) = i
           /\ t \notin {k[i] : i \in DOMAIN k} => IndexOf(k, t) = NoId
  BY DEF Kernel, IndexOf

\* A text of digits that fits denotes the interface of that id.
LEMMA IdOfDigits ==
    ASSUME NEW k, Kernel(k), NEW i \in 1..(IdModulus - 1)
    PROVE  /\ ExtractScope(k, Digits(i)) = [id |-> i, name |-> IF i \in DOMAIN k THEN k[i] ELSE NoText]
           /\ ScopeFromId(k, i) = [id |-> i, name |-> IF i \in DOMAIN k THEN k[i] ELSE NoText]
           /\ ~Refused(Digits(i))
  <1>1. i \in Nat \ {0} /\ i % IdModulus = i /\ i < LongModulus
    BY SmallId, IpAddressAssumption DEF IpAddressAssumption
  <1>2. ScopeFromId(k, i) = [id |-> i, name |-> IF i \in DOMAIN k THEN k[i] ELSE NoText]
    BY <1>1 DEF ScopeFromId, FillOutScope, NoScope, NoId
  <1>3. Digits(i) # NoText /\ Digits(i).digits /\ Digits(i).value = i
    BY DEF Digits, NoText, Name
  <1>4. ExtractScope(k, Digits(i)) = ScopeFromId(k, i)
    BY <1>1, <1>3 DEF ExtractScope
  <1>5. ~Refused(Digits(i))
    BY <1>1, <1>3, IpAddressAssumption DEF Refused, IpAddressAssumption
  <1>6. QED
    BY <1>2, <1>4, <1>5

\* A name that is not a number, or one that is 0 once it is cut off, stays.
LEMMA ScopeOfName ==
    ASSUME NEW k, Kernel(k), NEW t \in Text \ {NoText},
           t.digits => t.value % IdModulus = 0
    PROVE  ExtractScope(k, t) = [id |-> IndexOf(k, t), name |-> t]
  <1>1. ExtractScope(k, t) = ScopeFromName(k, t)
    BY DEF ExtractScope
  <1>2. QED
    BY <1>1 DEF ScopeFromName, FillOutScope, NoScope, NoId

\* What extractScope() yields has one of the three forms.
LEMMA ScopeForms ==
    ASSUME NEW k, Kernel(k), NEW t \in Text, ~Refused(t)
    PROVE  IsScope(k, ExtractScope(k, t))
  <1>1. CASE t = NoText
    BY <1>1 DEF ExtractScope, IsScope
  <1>2. CASE t # NoText /\ t.digits /\ t.value % IdModulus # 0
    <2>1. t.value % IdModulus \in 1..(IdModulus - 1)
      BY <1>2, CutId, IpAddressAssumption DEF Text, IpAddressAssumption
    <2>2. ExtractScope(k, t) = ScopeFromId(k, t.value % IdModulus)
      BY <1>2 DEF ExtractScope
    <2>3. QED
      BY <2>1, <2>2, IdOfDigits DEF IsScope
  <1>3. CASE t # NoText /\ (t.digits => t.value % IdModulus = 0)
    <2>1. ExtractScope(k, t) = [id |-> IndexOf(k, t), name |-> t]
      BY <1>3, ScopeOfName
    <2>2. CASE t \in {k[i] : i \in DOMAIN k}
      <3>1. PICK i \in DOMAIN k : k[i] = t
        BY <2>2
      <3>2. IndexOf(k, t) = i /\ i \in 1..(IdModulus - 1)
        BY <3>1, IndexOfName DEF Kernel
      <3>3. QED
        BY <2>1, <3>1, <3>2 DEF IsScope
    <2>3. CASE t \notin {k[i] : i \in DOMAIN k}
      <3>1. IndexOf(k, t) = NoId
        BY <2>3, IndexOfName
      <3>2. t.digits => t.value < LongModulus
        BY IpAddressAssumption DEF Refused, Text, IpAddressAssumption
      <3>3. QED
        BY <2>1, <2>3, <3>1, <3>2, <1>3 DEF IsScope
    <2>4. QED
      BY <2>2, <2>3
  <1>4. QED
    BY <1>1, <1>2, <1>3

\* What is printed after '%', and the id or the name alone, are read as the same
\* scope again, and never refused.
LEMMA ScopeRoundTrip ==
    ASSUME NEW k, Kernel(k), NEW s, IsScope(k, s)
    PROVE  /\ ExtractScope(k, AddScope(s)) = s
           /\ ExtractScope(k, ScopeIdOrName(s)) = s
           /\ ~Refused(AddScope(s))
  <1>1. CASE s = NoScope
    BY <1>1 DEF AddScope, ScopeIdOrName, ExtractScope, NoScope, Refused, NoText, Name, NoId
  <1>2. ASSUME NEW i \in 1..(IdModulus - 1),
               s = [id |-> i, name |-> IF i \in DOMAIN k THEN k[i] ELSE NoText]
        PROVE  /\ ExtractScope(k, AddScope(s)) = s
               /\ ExtractScope(k, ScopeIdOrName(s)) = s
               /\ ~Refused(AddScope(s))
    <2>1. i # NoId /\ s # NoScope /\ s.id = i
      BY <1>2 DEF NoScope, NoId
    <2>2. ExtractScope(k, Digits(i)) = s /\ ~Refused(Digits(i))
      BY <1>2, IdOfDigits
    <2>3. ScopeIdOrName(s) = Digits(i)
      BY <2>1 DEF ScopeIdOrName
    <2>4. CASE i \in DOMAIN k
      <3>1. k[i] \in Text \ {NoText} /\ ~k[i].digits /\ s.name = k[i]
        BY <1>2, <2>4 DEF Kernel
      <3>2. AddScope(s) = k[i]
        BY <2>1, <3>1 DEF AddScope
      <3>3. ExtractScope(k, k[i]) = [id |-> i, name |-> k[i]]
        BY <2>4, <3>1, ScopeOfName, IndexOfName
      <3>4. ~Refused(k[i])
        BY <3>1 DEF Refused
      <3>5. QED
        BY <1>2, <2>2, <2>3, <2>4, <3>2, <3>3, <3>4
    <2>5. CASE i \notin DOMAIN k
      <3>1. AddScope(s) = Digits(i)
        BY <1>2, <2>1, <2>5 DEF AddScope
      <3>2. QED
        BY <2>2, <2>3, <3>1
    <2>6. QED
      BY <2>4, <2>5
  <1>3. ASSUME NEW t \in Text \ {NoText},
               t.digits => t.value % IdModulus = 0 /\ t.value < LongModulus,
               t \notin {k[i] : i \in DOMAIN k},
               s = [id |-> NoId, name |-> t]
        PROVE  /\ ExtractScope(k, AddScope(s)) = s
               /\ ExtractScope(k, ScopeIdOrName(s)) = s
               /\ ~Refused(AddScope(s))
    <2>1. AddScope(s) = t /\ ScopeIdOrName(s) = t
      BY <1>3 DEF AddScope, ScopeIdOrName, NoScope
    <2>2. ExtractScope(k, t) = s
      BY <1>3, ScopeOfName, IndexOfName
    <2>3. ~Refused(t)
      BY <1>3, IpAddressAssumption DEF Refused, Text, IpAddressAssumption
    <2>4. QED
      BY <2>1, <2>2, <2>3
  <1>4. QED
    BY <1>1, <1>2, <1>3 DEF IsScope

\* A scope whose name, if it has one, is not a number.
NamedScope(k, s) ==
    \/ s = NoScope
    \/ \E i \in 1..(IdModulus - 1) :
          s = [id |-> i, name |-> IF i \in DOMAIN k THEN k[i] ELSE NoText]
    \/ \E t \in Text \ {NoText} :
          ~t.digits /\ t \notin {k[i] : i \in DOMAIN k} /\ s = [id |-> NoId, name |-> t]

\* Digits that fit, and names, yield such a scope.
LEMMA NamedScopeForms ==
    ASSUME NEW k, Kernel(k), NEW t \in Text, t.digits => t.value \in 1..(IdModulus - 1)
    PROVE  NamedScope(k, ExtractScope(k, t))
  <1>1. CASE t = NoText
    BY <1>1 DEF ExtractScope, NamedScope
  <1>2. CASE t # NoText /\ t.digits
    <2> DEFINE i == t.value
    <2>1. i \in 0..(IdModulus - 1) /\ i # 0
      BY <1>2, IpAddressAssumption DEF IpAddressAssumption
    <2>2. i % IdModulus = i
      BY <2>1, SmallId
    <2>3. ExtractScope(k, t) = ScopeFromId(k, i)
      BY <1>2, <2>1, <2>2 DEF ExtractScope
    <2>4. QED
      BY <1>2, <2>3, IdOfDigits DEF NamedScope
  <1>3. CASE t # NoText /\ ~t.digits
    <2>1. ExtractScope(k, t) = [id |-> IndexOf(k, t), name |-> t]
      BY <1>3, ScopeOfName
    <2>2. CASE t \in {k[i] : i \in DOMAIN k}
      <3>1. PICK i \in DOMAIN k : k[i] = t
        BY <2>2
      <3>2. IndexOf(k, t) = i /\ i \in 1..(IdModulus - 1)
        BY <3>1, IndexOfName DEF Kernel
      <3>3. QED
        BY <2>1, <3>1, <3>2 DEF NamedScope
    <2>3. CASE t \notin {k[i] : i \in DOMAIN k}
      BY <1>3, <2>1, <2>3, IndexOfName DEF NamedScope
    <2>4. QED
      BY <2>2, <2>3
  <1>4. QED
    BY <1>1, <1>2, <1>3

\* In Python a scope has its number and its name, in Java its number.
Travels(k, s) ==
    /\ ~PythonScope(s).throws
    /\ PythonScope(s).number = s.id
    /\ ExtractScope(k, PythonScope(s).id) = s
    /\ JavaScope(s) = s.id
    /\ s.id < IdModulus \div 2 =>
           ExtractScope(k, JavaScopeText(s)) = ScopeOfId(k, JavaScope(s))

\* So has a scope that consists of a name.
LEMMA NameTravels ==
    ASSUME NEW k, NEW s, s.id = NoId, ~s.name.digits, ExtractScope(k, s.name) = s
    PROVE  Travels(k, s)
  <1>1. JavaScopeText(s) = NoText /\ ScopeOfId(k, JavaScope(s)) = NoScope
    BY DEF JavaScopeText, JavaScope, ScopeOfId, NoId
  <1>2. /\ ~PythonScope(s).throws
        /\ PythonScope(s).number = NoId
        /\ PythonScope(s).id = s.name
    BY DEF PythonScope
  <1>3. ExtractScope(k, NoText) = NoScope
    BY DEF ExtractScope
  <1>4. QED
    BY <1>1, <1>2, <1>3 DEF Travels, JavaScope

\* So has one with an id.
LEMMA IdTravels ==
    ASSUME NEW k, Kernel(k), NEW i \in 1..(IdModulus - 1),
           NEW s, s = [id |-> i, name |-> IF i \in DOMAIN k THEN k[i] ELSE NoText]
    PROVE  Travels(k, s)
  <1>1. ~s.name.digits
    <2>1. i \in DOMAIN k => ~k[i].digits
      BY DEF Kernel
    <2>2. QED
      BY <2>1, NoDigits
  <1>2. s.id = i /\ i # NoId /\ i \in Nat
    BY IpAddressAssumption DEF NoId, IpAddressAssumption
  <1>3. ExtractScope(k, Digits(i)) = s /\ ScopeFromId(k, i) = s
    BY IdOfDigits
  <1>4. /\ ~PythonScope(s).throws
        /\ PythonScope(s).number = i
        /\ PythonScope(s).id = IF s.name = NoText THEN Digits(i) ELSE s.name
    BY <1>1, <1>2 DEF PythonScope
  <1>5. ExtractScope(k, PythonScope(s).id) = s
    <2>1. CASE i \in DOMAIN k
      <3>1. k[i] \in Text \ {NoText} /\ ~k[i].digits /\ s.name = k[i]
        BY <2>1 DEF Kernel
      <3>2. ExtractScope(k, k[i]) = [id |-> i, name |-> k[i]]
        BY <2>1, <3>1, ScopeOfName, IndexOfName
      <3>3. QED
        BY <1>4, <2>1, <3>1, <3>2
    <2>2. CASE i \notin DOMAIN k
      BY <1>3, <1>4, <2>2
    <2>3. QED
      BY <2>1, <2>2
  <1>6. ASSUME i < IdModulus \div 2
        PROVE  JavaScopeText(s) = Digits(i)
    <2>1. i \in 1..(IdModulus \div 2 - 1)
      BY <1>2, <1>6, IpAddressAssumption DEF IpAddressAssumption, NoId
    <2>2. QED
      BY <1>2, <2>1 DEF JavaScopeText
  <1>7. QED
    BY <1>2, <1>3, <1>4, <1>5, <1>6 DEF Travels, JavaScope, ScopeOfId

\* So has each scope whose name is not a number.
LEMMA ScopeForeign ==
    ASSUME NEW k, Kernel(k), NEW s, NamedScope(k, s)
    PROVE  Travels(k, s)
  <1>1. CASE s = NoScope
    <2>1. s.id = NoId /\ s.name = NoText /\ ~s.name.digits
      BY <1>1 DEF NoScope, NoText, Name
    <2>2. ExtractScope(k, s.name) = s
      BY <1>1, <2>1 DEF ExtractScope
    <2>3. QED
      BY <2>1, <2>2, NameTravels
  <1>2. ASSUME NEW t \in Text \ {NoText}, ~t.digits, t \notin {k[i] : i \in DOMAIN k},
               s = [id |-> NoId, name |-> t]
        PROVE  Travels(k, s)
    <2>1. ExtractScope(k, t) = s
      BY <1>2, ScopeOfName, IndexOfName
    <2>2. QED
      BY <1>2, <2>1, NameTravels
  <1>3. QED
    BY <1>1, <1>2, IdTravels DEF NamedScope

\* Normalizing changes only how the host is written.
LEMMA NormalizeLemma ==
    ASSUME NEW h, NEW w, NEW s
    PROVE  /\ Normalize(IPv6Address(h, w, s)) = IPv6Address(ToRepr(w), w, s)
           /\ Normalize(Normalize(IPv6Address(h, w, s))) = Normalize(IPv6Address(h, w, s))
           /\ SameIPv6(Normalize(IPv6Address(h, w, s)), IPv6Address(h, w, s))
  BY DEF Normalize, IPv6OfData, IPv6Address, SameIPv6

-----------------------------------------------------------------------------
(* The values that are taken. *)

\* A text whose scope is looked at, and the kernel's table, are of the given ones.
ScopeTaken ==
    value.kind = "scope" => value.kernel \in KernelTables /\ value.text.scope \in ScopeTexts

\* Every step keeps to the given texts and tables.
LEMMA ScopeTakenLemma == Spec => []ScopeTaken
  <1>1. Init => ScopeTaken
    BY DEF Init, Nothing, ScopeTaken
  <1>2. ScopeTaken /\ [Next]_vars => ScopeTaken'
    <2> SUFFICES ASSUME ScopeTaken, [Next]_vars
                 PROVE  ScopeTaken'
      OBVIOUS
    <2>1. CASE TakeScope
      BY <2>1 DEF TakeScope, Take, ScopeTaken
    <2>2. CASE CallNext \/ UNCHANGED vars
      BY <2>2 DEF CallNext, vars, ScopeTaken
    <2>3. CASE TakeIPv4 \/ TakeIPv6 \/ TakeText
      BY <2>3 DEF TakeIPv4, TakeIPv6, TakeText, Take, ScopeTaken
    <2>4. CASE TakeMacText \/ TakeMacData \/ TakeMask
      BY <2>4 DEF TakeMacText, TakeMacData, TakeMask, Take, ScopeTaken
    <2>5. CASE TakeFlags \/ TakeSystem
      BY <2>5 DEF TakeFlags, TakeSystem, Take, ScopeTaken
    <2>6. CASE TakeLists \/ PutBack
      BY <2>6 DEF TakeLists, PutBack, Nothing, ScopeTaken
    <2>7. QED
      BY <2>1, <2>2, <2>3, <2>4, <2>5, <2>6 DEF Next
  <1>3. QED
    BY <1>1, <1>2, PTL DEF Spec

\* A table whose names are not numbers is one of a kernel.
LEMMA KernelLemma ==
    ASSUME NEW k \in KernelTables, NamesAreNames(k)
    PROVE  Kernel(k)
  BY ValuesAssumption DEF ValuesAssumption, NamesAreNames, Kernel

\* An IPv6 address survives being printed and read again, with its scope, for every
\* table of interfaces, every text and every size of an id (the constructors,
\* extractScope, addScope and normalize of impl/IpAddress.ipp).
THEOREM TextAlwaysSurvives == Spec => []TextSurvives
  <1>1. ScopeTaken => TextSurvives
    <2> SUFFICES ASSUME ScopeTaken, value.kind = "scope", NamesAreNames(value.kernel),
                        IPv6OfText(value.kernel, value.text) # Thrown
                 PROVE  LET k == value.kernel
                            text == value.text
                            address == IPv6OfText(k, text)
                            normal == Normalize(address)
                            scope == address.scope
                        IN /\ IPv6OfText(k, address.representation) = address
                           /\ IPv6OfText(k, normal.representation) = normal
                           /\ SameIPv6(normal, address) /\ Normalize(normal) = normal
                           /\ ExtractScope(k, ScopeIdOrName(scope)) = scope
                           /\ text.scope.digits /\ text.scope.value \in 1..(IdModulus - 1) =>
                                  scope.id = text.scope.value
                           /\ ~text.scope.digits /\ text.scope # NoText =>
                                  scope = [id |-> IndexOf(k, text.scope), name |-> text.scope]
      BY DEF TextSurvives
    <2> DEFINE k == value.kernel
               t == value.text.scope
               h == value.text.host
               s == ExtractScope(k, t)
               address == IPv6Address(h, FromRepr(h), s)
               normal == IPv6Address(ToRepr(FromRepr(h)), FromRepr(h), s)
    <2>1. Kernel(k) /\ t \in Text
      BY KernelLemma, ValuesAssumption DEF ScopeTaken, ValuesAssumption
    <2>2. /\ IPv6OfText(k, value.text) = address
          /\ FromRepr(h) # << >> /\ ~Refused(t)
      BY DEF IPv6OfText
    <2>3. /\ ExtractScope(k, AddScope(s)) = s
          /\ ExtractScope(k, ScopeIdOrName(s)) = s
          /\ ~Refused(AddScope(s))
      BY <2>1, <2>2, ScopeForms, ScopeRoundTrip
    <2>4. address.scope = s /\ address.representation = [host |-> h, scope |-> AddScope(s)]
      BY DEF IPv6Address
    <2>5. IPv6OfText(k, address.representation) = address
      BY <2>2, <2>3, <2>4 DEF IPv6OfText
    <2>6. IPv6OfText(k, normal.representation) = normal
      <3>1. normal.representation = [host |-> ToRepr(FromRepr(h)), scope |-> AddScope(s)]
        BY DEF IPv6Address
      <3>2. FromRepr(ToRepr(FromRepr(h))) = FromRepr(h)
        BY DEF FromRepr, ToRepr
      <3>3. QED
        BY <2>2, <2>3, <3>1, <3>2 DEF IPv6OfText
    <2>7. /\ Normalize(address) = normal
          /\ SameIPv6(normal, address) /\ Normalize(normal) = normal
      BY NormalizeLemma
    <2>8. ASSUME t.digits, t.value \in 1..(IdModulus - 1)
          PROVE  s.id = t.value
      <3> DEFINE i == t.value
      <3>1. t # NoText
        BY <2>8, NoDigits
      <3>2. i \in 0..(IdModulus - 1) /\ i # 0
        BY <2>8, IpAddressAssumption DEF IpAddressAssumption
      <3>3. i % IdModulus = i
        BY <3>2, SmallId
      <3>4. s = ScopeFromId(k, i)
        BY <2>8, <3>1, <3>2, <3>3 DEF ExtractScope
      <3>5. QED
        BY <2>1, <2>8, <3>4, IdOfDigits
    <2>9. ASSUME ~t.digits, t # NoText
          PROVE  s = [id |-> IndexOf(k, t), name |-> t]
      BY <2>1, <2>9, ScopeOfName
    <2> HIDE DEF address, normal, s
    <2>10. QED
      BY <2>2, <2>3, <2>4, <2>5, <2>6, <2>7, <2>8, <2>9
  <1>2. QED
    BY <1>1, ScopeTakenLemma, PTL

\* The number, the text and the name that Python and Java are given lead back to
\* the interface, for every table of interfaces and every id that fits
\* (InetAddressHelper.java, IPv6Address.__init__ of ip_address.py).
THEOREM ScopeAlwaysTravels == Spec => []ScopeTravels
  <1>1. ScopeTaken => ScopeTravels
    <2> SUFFICES ASSUME ScopeTaken, value.kind = "scope", NamesAreNames(value.kernel),
                        value.text.scope.digits => value.text.scope.value \in 1..(IdModulus - 1)
                 PROVE  Travels(value.kernel, ExtractScope(value.kernel, value.text.scope))
      BY DEF ScopeTravels, Travels
    <2> DEFINE k == value.kernel
               t == value.text.scope
               s == ExtractScope(k, t)
    <2>1. Kernel(k) /\ t \in Text
      BY KernelLemma, ValuesAssumption DEF ScopeTaken, ValuesAssumption
    <2>2. NamedScope(k, s)
      BY <2>1, NamedScopeForms
    <2>3. QED
      BY <2>1, <2>2, ScopeForeign
  <1>2. QED
    BY <1>1, ScopeTakenLemma, PTL

-----------------------------------------------------------------------------
(* Iterators. *)

\* How many elements lie before place in the current list.
Before(lists, current, place) ==
    IF current = 2 THEN Len(lists[1]) + place ELSE place

\* The iterator it stands in one of the two lists, or before them, and what it has
\* yielded is all that lies before.
Stands(lists, it, elements, current, place) ==
    /\ current \in 0..2
    /\ place \in Nat
    /\ current = 0 => place = 0
    /\ current # 0 => place <= Len(lists[current])
    /\ it = [lists |-> lists, current |-> current, place |-> place]
    /\ elements = SubSeq(lists[1] \o lists[2], 1, Before(lists, current, place))

IteratorInv ==
    value.kind = "lists" =>
        /\ value.lists \in AddressLists
        /\ \E current \in 0..2, place \in Nat : Stands(value.lists, iterator, yielded, current, place)

\* Two sequences, and what they are together.
LEMMA TogetherLemma ==
    ASSUME NEW S, NEW l \in Seq(S), NEW m \in Seq(S)
    PROVE  /\ l \o m \in Seq(S)
           /\ Len(l) \in Nat /\ Len(m) \in Nat
           /\ Len(l \o m) = Len(l) + Len(m)
           /\ \A i \in 1..Len(l) : (l \o m)[i] = l[i]
           /\ \A i \in 1..Len(m) : (l \o m)[Len(l) + i] = m[i]
  <1>1. PICK p \in Nat : p = Len(l)
    BY LenProperties
  <1>2. PICK q \in Nat : q = Len(m)
    BY LenProperties
  <1>3. /\ l \o m \in Seq(S) /\ Len(l \o m) = p + q
        /\ \A i \in 1..(p + q) : (l \o m)[i] = IF i <= p THEN l[i] ELSE m[i - p]
    BY <1>1, <1>2, ConcatProperties
  <1>4. ASSUME NEW i \in 1..p
        PROVE  (l \o m)[i] = l[i]
    <2>1. i \in 1..(p + q) /\ i <= p
      OBVIOUS
    <2>2. QED
      BY <1>3, <2>1
  <1>5. ASSUME NEW i \in 1..q
        PROVE  (l \o m)[p + i] = m[i]
    <2>1. p + i \in 1..(p + q) /\ ~(p + i <= p) /\ p + i - p = i
      OBVIOUS
    <2>2. QED
      BY <1>3, <2>1
  <1>6. QED
    BY <1>1, <1>2, <1>3, <1>4, <1>5

\* An interface has two lists of elements.
LEMMA ListsLemma ==
    ASSUME NEW lists \in AddressLists
    PROVE  Len(lists) = 2 /\ \E S : lists[1] \in Seq(S) /\ lists[2] \in Seq(S)
  <1> DEFINE A == {lists[1][i] : i \in DOMAIN lists[1]}
             B == {lists[2][i] : i \in DOMAIN lists[2]}
  <1>1. DOMAIN lists = 1..2 /\ IsSequence(lists) /\ \A i \in 1..2 : IsSequence(lists[i])
    BY ValuesAssumption DEF ValuesAssumption
  <1>2. lists[1] \in Seq(A) /\ lists[2] \in Seq(B)
    BY <1>1 DEF IsSequence
  <1>3. lists[1] \in Seq(A \union B) /\ lists[2] \in Seq(A \union B)
    <2> HIDE DEF A, B
    <2>1. A \subseteq A \union B /\ B \subseteq A \union B
      OBVIOUS
    <2>2. QED
      BY <1>2, <2>1, SeqMonotonic
  <1>4. Len(lists) = 2
    <2>1. Len(lists) \in Nat /\ DOMAIN lists = 1..Len(lists)
      BY <1>1, LenProperties DEF IsSequence
    <2>2. QED
      BY <1>1, <2>1
  <1>5. QED
    BY <1>3, <1>4

\* One element more.
LEMMA OneMore ==
    ASSUME NEW S, NEW s \in Seq(S), NEW n \in Nat, n < Len(s)
    PROVE  Append(SubSeq(s, 1, n), s[n + 1]) = SubSeq(s, 1, n + 1)
  <1>1. Len(s) \in Nat /\ 1 \in 1..Len(s) /\ n + 1 \in 1..Len(s) /\ (n + 1) - 1 = n
    BY LenProperties
  <1>2. SubSeq(s, 1, n + 1) = SubSeq(s, 1, n) \o <<s[n + 1]>>
    BY <1>1, SubSeqRecursiveSecond
  <1>3. s[n + 1] \in S /\ \A i \in 1..n : s[i] \in S
    BY <1>1, ElementOfSeq
  <1>4. SubSeq(s, 1, n) \in Seq(S)
    BY <1>3, SubSeqProperties
  <1>5. QED
    BY <1>2, <1>3, <1>4, AppendIsConcat

\* How long what was yielded is.
LEMMA PrefixLemma ==
    ASSUME NEW S, NEW s \in Seq(S), NEW n \in 0..Len(s)
    PROVE  Len(SubSeq(s, 1, n)) = n
  <1>1. Len(s) \in Nat /\ n \in Int
    BY LenProperties
  <1>2. \A i \in 1..n : s[i] \in S
    BY <1>1, ElementOfSeq
  <1>3. Len(SubSeq(s, 1, n)) = IF 1 <= n THEN n - 1 + 1 ELSE 0
    BY <1>1, <1>2, SubSeqProperties
  <1>4. QED
    BY <1>1, <1>3

\* hasNext() says no only at the end of the second list.
LEMMA HasNextLemma ==
    ASSUME NEW lists, Len(lists) = 2, NEW c \in 0..2, NEW p \in Nat,
           NEW it, it = [lists |-> lists, current |-> c, place |-> p]
    PROVE  F!HasNext(it) <=> c # 2 \/ p < Len(lists[2])
  <1>1. F!MoreLists(it) <=> c # 2
    <2>1. c < 2 <=> c # 2
      OBVIOUS
    <2>2. it.current = c /\ it.lists = lists
      OBVIOUS
    <2>3. QED
      BY <2>1, <2>2 DEF F!MoreLists
  <1>2. F!CurrentHasNext(it) <=> c # 0 /\ p < Len(lists[c])
    BY DEF F!CurrentHasNext
  <1>3. QED
    BY <1>1, <1>2 DEF F!HasNext

\* next() inside a list yields its next element.
LEMMA NextInside ==
    ASSUME NEW lists, NEW c \in 1..2, NEW p \in Nat, p < Len(lists[c]),
           NEW it, it = [lists |-> lists, current |-> c, place |-> p]
    PROVE  /\ ~F!NextThrows(it)
           /\ F!NextElement(it) = lists[c][p + 1]
           /\ F!AfterNext(it) = [lists |-> lists, current |-> c, place |-> p + 1]
  <1>1. F!CurrentHasNext(it)
    BY DEF F!CurrentHasNext
  <1>2. F!Advance(it) = it
    BY <1>1 DEF F!Advance
  <1>3. QED
    BY <1>1, <1>2 DEF F!NextThrows, F!NextElement, F!AfterNext

\* next() at the end of a list yields the first element of the next one, and
\* throws if that is empty.
LEMMA NextOver ==
    ASSUME NEW lists, Len(lists) = 2, NEW c \in 0..1, NEW p \in Nat,
           c # 0 => ~(p < Len(lists[c])),
           NEW len \in Nat, len = Len(lists[c + 1]),
           NEW it, it = [lists |-> lists, current |-> c, place |-> p]
    PROVE  /\ F!NextThrows(it) <=> len = 0
           /\ F!NextElement(it) = lists[c + 1][1]
           /\ F!AfterNext(it) =
                  [lists |-> lists, current |-> c + 1, place |-> IF len = 0 THEN 0 ELSE 1]
  <1> DEFINE a == [lists |-> lists, current |-> c + 1, place |-> 0]
  <1>1. ~F!CurrentHasNext(it) /\ F!MoreLists(it)
    BY DEF F!CurrentHasNext, F!MoreLists
  <1>2. F!Advance(it) = a
    BY <1>1 DEF F!Advance
  <1>3. F!CurrentHasNext(a) <=> len # 0
    BY DEF F!CurrentHasNext
  <1>4. F!NextThrows(it) <=> len = 0
    BY <1>2, <1>3 DEF F!NextThrows
  <1>5. F!NextElement(it) = lists[c + 1][1]
    BY <1>2 DEF F!NextElement
  <1>6. F!AfterNext(it) =
            [lists |-> lists, current |-> c + 1, place |-> IF len = 0 THEN 0 ELSE 1]
    BY <1>2, <1>4 DEF F!AfterNext
  <1>7. QED
    BY <1>4, <1>5, <1>6

\* A call of next() moves the iterator past one element at most, the one it yields.
LEMMA NextKeeps ==
    ASSUME NEW S, NEW l \in Seq(S), NEW m \in Seq(S),
           NEW lists, Len(lists) = 2, lists[1] = l, lists[2] = m,
           NEW it, NEW y, F!HasNext(it),
           NEW c \in 0..2, NEW p \in Nat, Stands(lists, it, y, c, p)
    PROVE  \E d \in 0..2, q \in Nat :
               Stands(lists, F!AfterNext(it),
                      IF F!NextThrows(it) THEN y ELSE Append(y, F!NextElement(it)), d, q)
  <1>1. PICK all : all = l \o m
    OBVIOUS
  <1>2. PICK a \in Nat : a = Len(l)
    BY LenProperties
  <1>3. PICK b \in Nat : b = Len(m)
    BY LenProperties
  <1>4. /\ all \in Seq(S) /\ Len(all) = a + b
        /\ \A i \in 1..a : all[i] = l[i]
        /\ \A i \in 1..b : all[a + i] = m[i]
    BY <1>1, <1>2, <1>3, TogetherLemma
  <1>5. ASSUME NEW n \in Nat, n < a + b
        PROVE  Append(SubSeq(all, 1, n), all[n + 1]) = SubSeq(all, 1, n + 1)
    BY <1>4, <1>5, OneMore
  <1>6. /\ it = [lists |-> lists, current |-> c, place |-> p]
        /\ y = SubSeq(all, 1, IF c = 2 THEN a + p ELSE p)
        /\ c = 0 => p = 0
        /\ c # 0 => p <= Len(lists[c])
    BY <1>1, <1>2 DEF Stands, Before
  <1>7. ASSUME NEW d \in 1..2, NEW q \in Nat, q <= (IF d = 1 THEN a ELSE b),
               NEW j, j = [lists |-> lists, current |-> d, place |-> q]
        PROVE  Stands(lists, j, SubSeq(all, 1, IF d = 2 THEN a + q ELSE q), d, q)
    <2>1. CASE d = 1
      BY <1>1, <1>2, <1>3, <1>7, <2>1 DEF Stands, Before
    <2>2. CASE d = 2
      BY <1>1, <1>2, <1>3, <1>7, <2>2 DEF Stands, Before
    <2>3. QED
      BY <2>1, <2>2
  <1>8. PICK next, z : /\ next = F!AfterNext(it)
                       /\ z = IF F!NextThrows(it) THEN y ELSE Append(y, F!NextElement(it))
    OBVIOUS
  <1>9. CASE c = 1 /\ p < a
    <2>1. /\ next = [lists |-> lists, current |-> 1, place |-> p + 1]
          /\ z = Append(y, l[p + 1])
      <3>1. it = [lists |-> lists, current |-> 1, place |-> p] /\ p < Len(lists[1]) /\ 1 \in 1..2
        BY <1>2, <1>6, <1>9
      <3>2. /\ ~F!NextThrows(it) /\ F!NextElement(it) = lists[1][p + 1]
            /\ F!AfterNext(it) = [lists |-> lists, current |-> 1, place |-> p + 1]
        BY <3>1, NextInside, SMTT(60)
      <3>3. QED
        BY <1>8, <3>2
    <2>2. p + 1 \in 1..a /\ p < a + b
      BY <1>9
    <2>3. z = SubSeq(all, 1, p + 1)
      BY <1>4, <1>5, <1>6, <1>9, <2>1, <2>2, SMTT(60)
    <2>4. Stands(lists, next, z, 1, p + 1)
      BY <1>7, <2>1, <2>2, <2>3
    <2>5. QED
      BY <1>8, <2>4
  <1>10. CASE c = 2 /\ p < b
    <2>1. /\ next = [lists |-> lists, current |-> 2, place |-> p + 1]
          /\ z = Append(y, m[p + 1])
      <3>1. it = [lists |-> lists, current |-> 2, place |-> p] /\ p < Len(lists[2]) /\ 2 \in 1..2
        BY <1>3, <1>6, <1>10
      <3>2. /\ ~F!NextThrows(it) /\ F!NextElement(it) = lists[2][p + 1]
            /\ F!AfterNext(it) = [lists |-> lists, current |-> 2, place |-> p + 1]
        BY <3>1, NextInside
      <3>3. QED
        BY <1>8, <3>2
    <2>2. p + 1 \in 1..b /\ a + p \in Nat /\ a + p < a + b /\ (a + p) + 1 = a + (p + 1)
      BY <1>10
    <2>3. Append(SubSeq(all, 1, a + p), all[(a + p) + 1]) = SubSeq(all, 1, (a + p) + 1)
      BY <1>5, <2>2
    <2>4. z = SubSeq(all, 1, a + (p + 1))
      BY <1>4, <1>6, <1>10, <2>1, <2>2, <2>3
    <2>5. Stands(lists, next, z, 2, p + 1)
      BY <1>7, <2>1, <2>2, <2>4
    <2>6. QED
      BY <1>8, <2>5
  <1>11. CASE c = 0 \/ (c = 1 /\ ~(p < a))
    <2>1. PICK d \in 1..2 : d = c + 1
      BY <1>11
    <2>2. PICK len \in Nat : len = Len(lists[d]) /\ len = (IF d = 1 THEN a ELSE b)
      BY <1>2, <1>3
    <2>3. PICK n \in Nat : n = (IF d = 2 THEN a ELSE 0)
      OBVIOUS
    <2>4. y = SubSeq(all, 1, n)
      BY <1>2, <1>6, <1>11, <2>1, <2>3
    <2>5. /\ next = [lists |-> lists, current |-> d, place |-> IF len = 0 THEN 0 ELSE 1]
          /\ z = IF len = 0 THEN y ELSE Append(y, lists[d][1])
      <3>1. c \in 0..1 /\ c + 1 = d /\ it = [lists |-> lists, current |-> c, place |-> p]
        BY <1>6, <1>11, <2>1
      <3>2. c # 0 => ~(p < Len(lists[c]))
        BY <1>2, <1>11
      <3>3. len = Len(lists[c + 1])
        BY <2>2, <3>1
      <3>4. /\ F!NextThrows(it) <=> len = 0
            /\ F!NextElement(it) = lists[c + 1][1]
            /\ F!AfterNext(it) =
                   [lists |-> lists, current |-> c + 1, place |-> IF len = 0 THEN 0 ELSE 1]
        BY <3>1, <3>2, <3>3, NextOver
      <3>5. QED
        BY <1>8, <3>1, <3>4
    <2>6. CASE len = 0
      <3>1. Stands(lists, next, SubSeq(all, 1, IF d = 2 THEN a + 0 ELSE 0), d, 0)
        BY <1>7, <2>2, <2>5, <2>6
      <3>2. z = SubSeq(all, 1, IF d = 2 THEN a + 0 ELSE 0)
        BY <2>3, <2>4, <2>5, <2>6
      <3>3. Stands(lists, next, z, d, 0) /\ d \in 0..2 /\ 0 \in Nat
        BY <3>1, <3>2
      <3>4. QED
        BY <1>8, <3>3
    <2>7. CASE len # 0
      <3>1. Stands(lists, next, SubSeq(all, 1, IF d = 2 THEN a + 1 ELSE 1), d, 1)
        BY <1>7, <2>2, <2>5, <2>7
      <3>2. all[n + 1] = lists[d][1] /\ n < a + b
        BY <1>4, <2>2, <2>3, <2>7
      <3>3. Append(SubSeq(all, 1, n), all[n + 1]) = SubSeq(all, 1, n + 1)
        BY <1>5, <3>2
      <3>4. z = SubSeq(all, 1, IF d = 2 THEN a + 1 ELSE 1)
        BY <2>3, <2>4, <2>5, <2>7, <3>2, <3>3
      <3>5. Stands(lists, next, z, d, 1) /\ d \in 0..2 /\ 1 \in Nat
        BY <3>1, <3>4
      <3>6. QED
        BY <1>8, <3>5
    <2>8. QED
      BY <2>6, <2>7
  <1>12. ~(c = 2 /\ ~(p < b))
    BY <1>3, <1>6, HasNextLemma
  <1>13. QED
    BY <1>9, <1>10, <1>11, <1>12

\* The iterator and what it has yielded fit together in every state.
LEMMA IteratorLemma == Spec => []IteratorInv
  <1>1. Init => IteratorInv
    BY DEF Init, Nothing, IteratorInv
  <1>2. IteratorInv /\ [Next]_vars => IteratorInv'
    <2> SUFFICES ASSUME IteratorInv, [Next]_vars
                 PROVE  IteratorInv'
      OBVIOUS
    <2>1. CASE TakeLists
      <3>1. PICK lists \in AddressLists :
                /\ value' = [kind |-> "lists", lists |-> lists]
                /\ iterator' = [lists |-> lists, current |-> 0, place |-> 0]
                /\ yielded' = << >>
        BY <2>1 DEF TakeLists, F!NewIterator
      <3>2. SubSeq(lists[1] \o lists[2], 1, 0) = << >>
        BY SubSeqEmpty
      <3>3. Stands(lists, iterator', yielded', 0, 0)
        BY <3>1, <3>2 DEF Stands, Before
      <3>4. QED
        BY <3>1, <3>3 DEF IteratorInv
    <2>2. CASE CallNext
      <3>1. value.kind = "lists" /\ F!HasNext(iterator) /\ value' = value
        BY <2>2 DEF CallNext
      <3>2. PICK c \in 0..2, p \in Nat : Stands(value.lists, iterator, yielded, c, p)
        BY <3>1 DEF IteratorInv
      <3>3. /\ iterator' = F!AfterNext(iterator)
            /\ yielded' = IF F!NextThrows(iterator) THEN yielded
                          ELSE Append(yielded, F!NextElement(iterator))
        BY <2>2 DEF CallNext
      <3>4. value.lists \in AddressLists
        BY <3>1 DEF IteratorInv
      <3>5. \E d \in 0..2, q \in Nat : Stands(value.lists, iterator', yielded', d, q)
        BY <3>1, <3>2, <3>3, <3>4, NextKeeps, ListsLemma
      <3>6. QED
        BY <3>1, <3>4, <3>5 DEF IteratorInv
    <2>3. CASE UNCHANGED vars
      BY <2>3 DEF vars, IteratorInv
    <2>4. CASE TakeIPv4 \/ TakeIPv6 \/ TakeText \/ TakeScope
      BY <2>4 DEF TakeIPv4, TakeIPv6, TakeText, TakeScope, Take, IteratorInv
    <2>5. CASE TakeMacText \/ TakeMacData \/ TakeMask
      BY <2>5 DEF TakeMacText, TakeMacData, TakeMask, Take, IteratorInv
    <2>6. CASE TakeFlags \/ TakeSystem
      BY <2>6 DEF TakeFlags, TakeSystem, Take, IteratorInv
    <2>7. CASE PutBack
      BY <2>7 DEF PutBack, Nothing, IteratorInv
    <2>8. QED
      BY <2>1, <2>2, <2>3, <2>4, <2>5, <2>6, <2>7 DEF Next
  <1>3. QED
    BY <1>1, <1>2, PTL DEF Spec

\* Iterating over an interface yields the IPv4 and then the IPv6 addresses, each
\* once and in order, for lists of any length (GenericAddressIterator of
\* Interface.java).
THEOREM AlwaysInOrder == Spec => []IteratesInOrder
  <1>1. IteratorInv => IteratesInOrder
    <2> SUFFICES ASSUME IteratorInv, value.kind = "lists"
                 PROVE  LET all == value.lists[1] \o value.lists[2]
                        IN /\ yielded = SubSeq(all, 1, Len(yielded))
                           /\ ~F!HasNext(iterator) => yielded = all
      BY DEF IteratesInOrder
    <2>1. value.lists \in AddressLists
      BY DEF IteratorInv
    <2>2. PICK c \in 0..2, p \in Nat : Stands(value.lists, iterator, yielded, c, p)
      BY DEF IteratorInv
    <2>3. PICK S, l, m : /\ l \in Seq(S) /\ m \in Seq(S)
                         /\ value.lists[1] = l /\ value.lists[2] = m
      BY <2>1, ListsLemma
    <2>4. PICK a \in Nat, b \in Nat : a = Len(l) /\ b = Len(m)
      BY <2>3, LenProperties
    <2>5. PICK all : all = l \o m /\ all \in Seq(S) /\ Len(all) = a + b
      <3>1. l \o m \in Seq(S) /\ Len(l \o m) = Len(l) + Len(m)
        BY <2>3, TogetherLemma
      <3>2. QED
        BY <2>4, <3>1
    <2>6. PICK n \in Nat : n = (IF c = 2 THEN a + p ELSE p)
      OBVIOUS
    <2>7. /\ iterator = [lists |-> value.lists, current |-> c, place |-> p]
          /\ yielded = SubSeq(all, 1, n)
          /\ c = 0 => p = 0
          /\ c = 1 => p <= a
          /\ c = 2 => p <= b
      BY <2>2, <2>3, <2>4, <2>5, <2>6 DEF Stands, Before
    <2>8. n \in 0..(a + b)
      BY <2>6, <2>7
    <2>9. Len(yielded) = n
      BY <2>5, <2>7, <2>8, PrefixLemma
    <2>10. ASSUME ~F!HasNext(iterator)
           PROVE  yielded = all
      <3>1. Len(value.lists) = 2
        BY <2>1, ListsLemma
      <3>2. c = 2 /\ ~(p < Len(value.lists[2]))
        BY <2>7, <2>10, <3>1, HasNextLemma
      <3>3. p = b
        BY <2>3, <2>4, <2>7, <3>2
      <3>4. n = Len(all)
        BY <2>5, <2>6, <3>2, <3>3
      <3>5. QED
        BY <2>5, <2>7, <3>4, SubSeqFull
    <2>11. QED
      BY <2>3, <2>5, <2>7, <2>9, <2>10
  <1>2. QED
    BY <1>1, IteratorLemma, PTL

-----------------------------------------------------------------------------
(* The library. *)

\* The parts of a name.
LEMMA NameLemma ==
    ASSUME NEW name \in LibraryName
    PROVE  /\ name = <<name[1], name[2], name[3]>>
           /\ name[3] \in {"so", "dylib", "dll"}
           /\ name[2] # "" => name[1] # ""
  <1>1. name \in STRING \X STRING \X {"so", "dylib", "dll"}
    BY Zenon DEF LibraryName
  <1>2. name = <<name[1], name[2], name[3]>> /\ name[3] \in {"so", "dylib", "dll"}
    BY <1>1
  <1>3. name[2] # "" => name[1] # ""
    BY Zenon DEF LibraryName
  <1>4. QED
    BY <1>2, <1>3

LEMMA TwoPlaces == \A i \in 1..2 : i = 1 \/ i = 2
  OBVIOUS

\* Of two names the second says all that the first says.
LEMMA DetailLemma ==
    ASSUME NEW name, NEW other, name[1] # "" => other[1] # "", name[2] # "" => other[2] # ""
    PROVE  Detail(name) \subseteq Detail(other)
  <1>1. \A i \in 1..2 : i = 1 \/ i = 2
    BY TwoPlaces
  <1>2. \A i \in 1..2 : name[i] # "" => other[i] # ""
    BY <1>1, Zenon
  <1>3. QED
    BY <1>2, Zenon DEF Detail

\* The first of three options that is there.
LEMMA FirstInLemma ==
    ASSUME NEW a, NEW b, NEW c, NEW names
    PROVE  L!FirstIn(<<a, b, c>>, names) =
               IF a \in names THEN a ELSE IF b \in names THEN b
               ELSE IF c \in names THEN c ELSE L!NoName
  <1> DEFINE options == <<a, b, c>>
             there == {k \in DOMAIN options : options[k] \in names}
  <1>1. DOMAIN options = 1..3 /\ options[1] = a /\ options[2] = b /\ options[3] = c
    OBVIOUS
  <1> HIDE DEF options
  <1>2. \A k \in there : (\A j \in there : k <= j) => L!FirstIn(options, names) = options[k]
    BY <1>1 DEF L!FirstIn, L!Min
  <1>3. QED
    BY <1>1, <1>2 DEF L!FirstIn, options

\* What is looked for: for a system that is known its own libraries, the one that
\* says most first.
LEMMA OptionsLemma ==
    ASSUME NEW p \in Platforms
    PROVE  L!Options(p) =
               IF p.is.system # ""
               THEN <<<<p.is.system, p.is.processor, p.is.kind>>, <<p.is.system, "", p.is.kind>>,
                      <<"", "", p.is.kind>>>>
               ELSE <<<<"", "", "so">>, <<"", "", "dylib">>, <<"", "", "dll">>>>
  <1>1. ShowsWhatItIs(p)
    BY LoaderAssumption
  <1>2. CASE p.is.system = "macos"
    BY <1>1, <1>2 DEF ShowsWhatItIs, L!Options, L!KnownPlatform, L!Platform, L!Mac
  <1>3. CASE p.is.system = "windows"
    BY <1>1, <1>3 DEF ShowsWhatItIs, L!Options, L!KnownPlatform, L!Platform, L!Mac, L!Windows
  <1>4. CASE p.is.system \notin {"", "macos", "windows"}
    BY <1>1, <1>4 DEF ShowsWhatItIs, L!Options, L!KnownPlatform, L!Platform, L!Mac,
                      L!Windows, L!Unix
  <1>5. CASE p.is.system = ""
    BY <1>1, <1>5 DEF ShowsWhatItIs, L!Options, L!KnownPlatform, L!Platform, L!Mac,
                      L!Windows, L!Unix
  <1>6. QED
    BY <1>2, <1>3, <1>4, <1>5

Fits(names, p) == {n \in names : Suits(n, p)}

\* The first option among some names fits the system, and none of the names that do
\* says more; there is none only if no name fits.
LEMMA BestName ==
    ASSUME NEW p \in Platforms, NEW names \in SUBSET LibraryName
    PROVE  LET name == L!FirstIn(L!Options(p), names)
           IN /\ name = L!NoName => Fits(names, p) = {}
              /\ name # L!NoName =>
                     /\ name \in Fits(names, p)
                     /\ \A n \in Fits(names, p) : Detail(n) \subseteq Detail(name)
  <1> DEFINE s == p.is.system
             q == p.is.processor
             kind == p.is.kind
             name == L!FirstIn(L!Options(p), names)
  <1>1. \A n \in names : /\ n = <<n[1], n[2], n[3]>>
                         /\ n[3] \in {"so", "dylib", "dll"}
                         /\ n[2] # "" => n[1] # ""
    BY NameLemma
  <1>2. L!NoName \notin names
    BY <1>1 DEF L!NoName
  <1>3. CASE s # ""
    <2> DEFINE a == <<s, q, kind>>
               b == <<s, "", kind>>
               c == <<"", "", kind>>
    <2>1. name = IF a \in names THEN a ELSE IF b \in names THEN b
                 ELSE IF c \in names THEN c ELSE L!NoName
      <3>1. L!Options(p) = <<a, b, c>>
        BY <1>3, OptionsLemma
      <3> HIDE DEF a, b, c
      <3>2. QED
        BY <3>1, FirstInLemma
    <2>2. Fits(names, p) = names \intersect {a, b, c}
      <3>1. \A n \in names : Suits(n, p) => n \in {a, b, c}
        <4> SUFFICES ASSUME NEW n \in names, Suits(n, p)
                     PROVE  n \in {a, b, c}
          OBVIOUS
        <4>1. n[3] = kind /\ n[1] \in {"", s} /\ n[2] \in {"", q}
          BY <1>3 DEF Suits
        <4>2. PICK x, y, z : n = <<x, y, z>> /\ x = n[1] /\ y = n[2] /\ z = n[3]
          BY <1>1
        <4>3. QED
          BY <1>1, <4>1, <4>2
      <3>2. Suits(a, p) /\ Suits(b, p) /\ Suits(c, p)
        BY DEF Suits
      <3>3. QED
        BY <3>1, <3>2 DEF Fits
    <2>3. Detail(c) \subseteq Detail(b) /\ Detail(b) \subseteq Detail(a)
      <3>1. a[1] = s /\ a[2] = q /\ b[1] = s /\ b[2] = "" /\ c[1] = "" /\ c[2] = ""
        OBVIOUS
      <3> HIDE DEF a, b, c
      <3>2. QED
        BY <1>3, <3>1, DetailLemma
    <2> HIDE DEF a, b, c, name, s, q, kind
    <2>4. QED
      BY <1>2, <2>1, <2>2, <2>3 DEF name
  <1>4. CASE s = ""
    <2> DEFINE a == <<"", "", "so">>
               b == <<"", "", "dylib">>
               c == <<"", "", "dll">>
    <2>1. name = IF a \in names THEN a ELSE IF b \in names THEN b
                 ELSE IF c \in names THEN c ELSE L!NoName
      <3>1. L!Options(p) = <<a, b, c>>
        BY <1>4, OptionsLemma
      <3> HIDE DEF a, b, c
      <3>2. QED
        BY <3>1, FirstInLemma
    <2>2. Fits(names, p) = names \intersect {a, b, c}
      <3>1. q = ""
        BY <1>4, LoaderAssumption DEF ShowsWhatItIs
      <3>2. \A n \in names : Suits(n, p) => n \in {a, b, c}
        <4> SUFFICES ASSUME NEW n \in names, Suits(n, p)
                     PROVE  n \in {a, b, c}
          OBVIOUS
        <4>1. n[1] = "" /\ n[2] = ""
          BY <1>4, <3>1 DEF Suits
        <4>2. PICK x, y, z : n = <<x, y, z>> /\ x = n[1] /\ y = n[2] /\ z = n[3]
          BY <1>1
        <4>3. QED
          BY <1>1, <4>1, <4>2
      <3>3. Suits(a, p) /\ Suits(b, p) /\ Suits(c, p)
        BY <1>4 DEF Suits
      <3>4. QED
        BY <3>2, <3>3 DEF Fits
    <2>3. /\ Detail(a) \subseteq Detail(b) /\ Detail(b) \subseteq Detail(a)
          /\ Detail(a) \subseteq Detail(c) /\ Detail(c) \subseteq Detail(a)
      <3>1. a[1] = "" /\ a[2] = "" /\ b[1] = "" /\ b[2] = "" /\ c[1] = "" /\ c[2] = ""
        OBVIOUS
      <3> HIDE DEF a, b, c
      <3>2. QED
        BY <3>1, DetailLemma
    <2> HIDE DEF a, b, c, name, s, q, kind
    <2>4. QED
      BY <1>2, <2>1, <2>2, <2>3 DEF name
  <1>5. QED
    BY <1>3, <1>4

\* A file on java.library.path: in the first directory that has one that fits.
LEMMA BestOnPath ==
    ASSUME NEW p \in Platforms, NEW path, IsSequence(path),
           \A d \in DOMAIN path : path[d] \subseteq LibraryName,
           NEW file, file = L!FileOnPath(L!Options(p), path)
    PROVE  \/ /\ file = L!NoFile
              /\ \A d \in DOMAIN path : Fits(path[d], p) = {}
           \/ /\ file.where = "path"
              /\ \E d \in DOMAIN path :
                     /\ file.name \in Fits(path[d], p)
                     /\ \A m \in Fits(path[d], p) : Detail(m) \subseteq Detail(file.name)
                     /\ \A e \in 1..(d - 1) : Fits(path[e], p) = {}
  <1> DEFINE name(d) == L!FirstIn(L!Options(p), path[d])
             there == {d \in DOMAIN path : name(d) # L!NoName}
  <1>1. PICK n \in Nat : DOMAIN path = 1..n
    BY DEF IsSequence
  <1>2. \A d \in DOMAIN path :
            /\ name(d) = L!NoName => Fits(path[d], p) = {}
            /\ name(d) # L!NoName =>
                   /\ name(d) \in Fits(path[d], p)
                   /\ \A m \in Fits(path[d], p) : Detail(m) \subseteq Detail(name(d))
    BY BestName
  <1>3. CASE there = {}
    <2>1. file = L!NoFile
      BY <1>3 DEF L!FileOnPath
    <2>2. QED
      BY <1>2, <1>3, <2>1
  <1>4. CASE there # {}
    <2>1. \E d \in there : \A e \in there : d <= e
      <3>1. there \subseteq Nat
        BY <1>1
      <3> HIDE DEF there
      <3>2. QED
        BY <1>4, <3>1, LeastElement
    <2>2. PICK d \in there : d = L!Min(there) /\ \A e \in there : d <= e
      BY <2>1 DEF L!Min
    <2>3. file.where = "path" /\ file.name = name(d)
      BY <1>4, <2>2 DEF L!FileOnPath
    <2>4. \A e \in 1..(d - 1) : Fits(path[e], p) = {}
      <3> SUFFICES ASSUME NEW e \in 1..(d - 1)
                   PROVE  Fits(path[e], p) = {}
        OBVIOUS
      <3>1. e \in DOMAIN path /\ ~ (d <= e)
        BY <1>1
      <3>2. name(e) = L!NoName
        BY <2>2, <3>1
      <3>3. QED
        BY <1>2, <3>1, <3>2
    <2>5. QED
      BY <1>2, <2>2, <2>3, <2>4
  <1>5. QED
    BY <1>3, <1>4

\* Whatever is found is the best of what there is.
LEMMA BestFile ==
    ASSUME NEW p \in Platforms, NEW i \in Installations, NEW file \in L!Found(p, i)
    PROVE  LET Fitting(names) == {n \in names : Suits(n, p)}
           IN CASE file.where = "resource" ->
                      /\ file.name \in Fitting(i.resources)
                      /\ \A n \in Fitting(i.resources) : Detail(n) \subseteq Detail(file.name)
                [] file.where = "path" ->
                      /\ Fitting(i.resources) = {}
                      /\ \E d \in DOMAIN i.path :
                            /\ file.name \in Fitting(i.path[d])
                            /\ \A n \in Fitting(i.path[d]) : Detail(n) \subseteq Detail(file.name)
                            /\ \A e \in 1..(d - 1) : Fitting(i.path[e]) = {}
                [] OTHER ->
                      \/ i.jar /\ Fitting(i.resources) # {}
                      \/ \A names \in {i.resources} \union {i.path[d] : d \in DOMAIN i.path} :
                            Fitting(names) = {}
  <1> DEFINE name == L!FirstIn(L!Options(p), i.resources)
  <1>1. PICK path : path = i.path
    OBVIOUS
  <1>2. /\ i.resources \in SUBSET LibraryName
        /\ IsSequence(path)
        /\ \A d \in DOMAIN path : path[d] \subseteq LibraryName
    BY <1>1, LoaderAssumption
  <1>3. CASE name = L!NoName
    <2>1. Fits(i.resources, p) = {}
      BY <1>2, <1>3, BestName
    <2>2. file = L!FileOnPath(L!Options(p), path)
      BY <1>1, <1>3 DEF L!Found
    <2>4. \/ /\ file = L!NoFile
             /\ \A d \in DOMAIN path : Fits(path[d], p) = {}
          \/ /\ file.where = "path"
             /\ \E d \in DOMAIN path :
                    /\ file.name \in Fits(path[d], p)
                    /\ \A m \in Fits(path[d], p) : Detail(m) \subseteq Detail(file.name)
                    /\ \A e \in 1..(d - 1) : Fits(path[e], p) = {}
      BY <1>2, <2>2, BestOnPath
    <2>5. L!NoFile.where = "nowhere"
      BY DEF L!NoFile
    <2>6. QED
      BY <1>1, <2>1, <2>4, <2>5 DEF Fits
  <1>4. CASE name # L!NoName
    <2>1. /\ name \in Fits(i.resources, p)
          /\ \A m \in Fits(i.resources, p) : Detail(m) \subseteq Detail(name)
      BY <1>2, <1>4, BestName
    <2>2. \/ file.where = "resource" /\ file.name = name
          \/ i.jar /\ file.where = "nowhere"
      BY <1>4 DEF L!Found, L!NoFile
    <2>3. QED
      BY <2>1, <2>2 DEF Fits
  <1>5. QED
    BY <1>3, <1>4

\* The system and its files are ones of the constants.
SystemTaken ==
    value.kind = "system" =>
        value.platform \in Platforms /\ value.installed \in Installations

LEMMA SystemLemma == Spec => []SystemTaken
  <1>1. Init => SystemTaken
    BY DEF Init, Nothing, SystemTaken
  <1>2. SystemTaken /\ [Next]_vars => SystemTaken'
    <2> SUFFICES ASSUME SystemTaken, [Next]_vars
                 PROVE  SystemTaken'
      OBVIOUS
    <2>1. CASE TakeIPv4
      BY <2>1 DEF TakeIPv4, Take, SystemTaken
    <2>2. CASE TakeIPv6
      BY <2>2 DEF TakeIPv6, Take, SystemTaken
    <2>3. CASE TakeText
      BY <2>3 DEF TakeText, Take, SystemTaken
    <2>4. CASE TakeScope
      BY <2>4 DEF TakeScope, Take, SystemTaken
    <2>5. CASE TakeMacText
      BY <2>5 DEF TakeMacText, Take, SystemTaken
    <2>6. CASE TakeMacData
      BY <2>6 DEF TakeMacData, Take, SystemTaken
    <2>7. CASE TakeMask
      BY <2>7 DEF TakeMask, Take, SystemTaken
    <2>8. CASE TakeFlags
      BY <2>8 DEF TakeFlags, Take, SystemTaken
    <2>9. CASE TakeSystem
      BY <2>9 DEF TakeSystem, Take, SystemTaken
    <2>10. CASE TakeLists
      BY <2>10 DEF TakeLists, SystemTaken
    <2>11. CASE PutBack
      BY <2>11 DEF PutBack, Nothing, SystemTaken
    <2>12. CASE UNCHANGED value
      BY <2>12 DEF SystemTaken
    <2>13. QED
      BY <2>1, <2>2, <2>3, <2>4, <2>5, <2>6, <2>7, <2>8, <2>9, <2>10, <2>11, <2>12
         DEF Next, CallNext, vars
  <1>3. QED
    BY <1>1, <1>2, PTL DEF Spec

\* On every system that shows what it is, and whatever files there are, the library
\* that is loaded is the best fitting one of the class path, or else the best of the
\* first directory of java.library.path that has one (Loader.java).
THEOREM AlwaysBestLibrary == Spec => []BestLibraryLoaded
  <1>1. SystemTaken => BestLibraryLoaded
    BY BestFile DEF SystemTaken, BestLibraryLoaded
  <1>2. QED
    BY <1>1, SystemLemma, PTL

-----------------------------------------------------------------------------
(* MAC addresses. *)

\* What the loop over the characters keeps.
Scanning == [data : Seq(Octet), byte : Octet, chars : Nat, ok : BOOLEAN]

\* Whether the first i characters are as in a well-formed text.
Pairs(text, i) ==
    \A j \in 1..i : IF j % 3 = 0 THEN text[j] \in M!Separators ELSE text[j] < 16

\* What the loop has read after i characters.
ReadSoFar(text, i, s) ==
    /\ s \in Scanning
    /\ s.ok <=> Pairs(text, i)
    /\ s.ok =>
          /\ s.chars = i % 3
          /\ Len(s.data) = i \div 3
          /\ \A k \in 1..(i \div 3) : s.data[k] = text[3 * k - 2] * 16 + text[3 * k - 1]
          /\ i % 3 = 0 => s.byte = 0
          /\ i % 3 = 1 => s.byte = text[i]
          /\ i % 3 = 2 => s.byte = text[i - 1] * 16 + text[i]

\* Every position belongs to an octet, as one of its two digits or as what follows.
LEMMA Thirds ==
    ASSUME NEW i \in Nat
    PROVE  \E q \in Nat, r \in 0..2 : i = 3 * q + r /\ i % 3 = r /\ i \div 3 = q
  <1> DEFINE q == i \div 3
             r == i % 3
  <1>1. q \in Nat /\ r \in 0..2 /\ i = 3 * q + r
    OBVIOUS
  <1>2. QED
    BY <1>1

\* The range of an octet, and of a character.
LEMMA OctetRange == \A x : x \in Octet <=> x \in Nat /\ x < 256
  BY DEF Octet

\* A digit, a separator or another character.
LEMMA CharacterKinds ==
    ASSUME NEW c \in MacCharacter
    PROVE  /\ c \in Nat
           /\ c \in M!Separators <=> c = 16 \/ c = 17
           /\ c < 16 <=> c \notin M!Separators /\ c # M!Other
  <1>1. c \in Nat /\ c <= 18
    BY DEF MacCharacter
  <1>2. M!Separators = {16, 17} /\ M!Other = 18
    BY DEF M!Separators, M!Colon, M!Hyphen, M!Other
  <1>3. QED
    BY <1>1, <1>2

\* The parts of a state of the loop.
LEMMA PartsOfScanning ==
    ASSUME NEW s \in Scanning
    PROVE  s.data \in Seq(Octet) /\ s.byte \in Octet /\ s.chars \in Nat /\ s.ok \in BOOLEAN
  BY DEF Scanning

\* A turn of the loop that reads a separator.
LEMMA ScanSeparator ==
    ASSUME NEW s \in Scanning, NEW c \in M!Separators
    PROVE  /\ M!Scan(s, c) \in Scanning
           /\ M!Scan(s, c).ok <=> s.ok /\ s.chars = 2
           /\ M!Scan(s, c).data = Append(s.data, s.byte)
           /\ M!Scan(s, c).byte = 0 /\ M!Scan(s, c).chars = 0
  <1>1. PICK ok \in BOOLEAN : ok = (s.ok /\ s.chars = 2)
    OBVIOUS
  <1>2. M!Scan(s, c) = [data |-> Append(s.data, s.byte), byte |-> 0, chars |-> 0, ok |-> ok]
    BY <1>1 DEF M!Scan
  <1>3. Append(s.data, s.byte) \in Seq(Octet) /\ 0 \in Octet /\ 0 \in Nat
    BY PartsOfScanning, PushLemma, OctetRange
  <1>4. M!Scan(s, c) \in Scanning
    BY <1>2, <1>3 DEF Scanning
  <1>5. M!Scan(s, c).ok = ok
    BY <1>2
  <1>6. M!Scan(s, c).ok <=> s.ok /\ s.chars = 2
    BY <1>1, <1>5, Zenon
  <1>7. QED
    BY <1>2, <1>4, <1>6

\* A turn of the loop that reads another character.
LEMMA ScanDigit ==
    ASSUME NEW s \in Scanning, NEW c \in MacCharacter, c \notin M!Separators
    PROVE  /\ M!Scan(s, c) \in Scanning
           /\ M!Scan(s, c).ok <=> s.ok /\ c < 16 /\ s.chars < 2
           /\ M!Scan(s, c).data = s.data
           /\ M!Scan(s, c).byte = (s.byte * 16 + c) % 256
           /\ M!Scan(s, c).chars = s.chars + 1
  <1>1. PICK ok \in BOOLEAN : ok = (s.ok /\ c # M!Other /\ s.chars < 2)
    OBVIOUS
  <1>2. M!Scan(s, c) = [data |-> s.data, byte |-> (s.byte * 16 + c) % 256,
                        chars |-> s.chars + 1, ok |-> ok]
    BY <1>1 DEF M!Scan
  <1>3. s.byte \in Nat /\ s.chars \in Nat /\ s.chars + 1 \in Nat /\ s.data \in Seq(Octet)
    BY PartsOfScanning, OctetRange
  <1>4. (s.byte * 16 + c) % 256 \in Octet
    <2>1. s.byte * 16 + c \in Nat
      BY <1>3, CharacterKinds
    <2>2. \A x \in Nat : x % 256 \in Nat /\ x % 256 < 256
      OBVIOUS
    <2>3. QED
      BY <2>1, <2>2, OctetRange
  <1>5. M!Scan(s, c) \in Scanning
    BY <1>2, <1>3, <1>4 DEF Scanning
  <1>6. M!Scan(s, c).ok = ok
    BY <1>2
  <1>7. M!Scan(s, c).ok <=> s.ok /\ c # M!Other /\ s.chars < 2
    BY <1>1, <1>6, Zenon
  <1>8. c < 16 <=> c # M!Other
    BY CharacterKinds
  <1>9. QED
    BY <1>2, <1>5, <1>7, <1>8

\* One more character is as it should be.
LEMMA OnePairMore ==
    ASSUME NEW text, NEW i \in Nat
    PROVE  Pairs(text, i + 1) <=>
               /\ Pairs(text, i)
               /\ IF (i + 1) % 3 = 0 THEN text[i + 1] \in M!Separators ELSE text[i + 1] < 16
  <1>1. 1..(i + 1) = (1..i) \union {i + 1}
    OBVIOUS
  <1>2. QED
    BY <1>1 DEF Pairs

\* One turn of the loop keeps what is read.
LEMMA ReadOneMore ==
    ASSUME NEW text \in Seq(MacCharacter), NEW i \in Nat, i < Len(text),
           NEW s, ReadSoFar(text, i, s)
    PROVE  ReadSoFar(text, i + 1, M!Scan(s, text[i + 1]))
  <1> DEFINE c == text[i + 1]
             t == M!Scan(s, c)
             n == i + 1
  <1>1. c \in MacCharacter /\ s \in Scanning /\ n \in Nat
    BY DEF ReadSoFar
  <1>2. s.data \in Seq(Octet) /\ s.byte \in Octet /\ s.chars \in Nat /\ s.ok \in BOOLEAN
    BY <1>1 DEF Scanning
  <1>3. PICK q \in Nat, r \in 0..2 : i = 3 * q + r /\ i % 3 = r /\ i \div 3 = q
    BY Thirds
  <1>4. /\ r = 0 => n % 3 = 1 /\ n \div 3 = q
        /\ r = 1 => n % 3 = 2 /\ n \div 3 = q
        /\ r = 2 => n % 3 = 0 /\ n \div 3 = q + 1
    BY <1>3
  <1>5. /\ s.ok <=> Pairs(text, i)
        /\ s.ok => /\ s.chars = r
                   /\ Len(s.data) = q
                   /\ \A k \in 1..q : s.data[k] = text[3 * k - 2] * 16 + text[3 * k - 1]
                   /\ r = 0 => s.byte = 0
                   /\ r = 1 => s.byte = text[i]
                   /\ r = 2 => s.byte = text[i - 1] * 16 + text[i]
    BY <1>3 DEF ReadSoFar
  <1>6. c \in Nat /\ (c < 16 <=> c \notin M!Separators /\ c # M!Other)
    BY <1>1, CharacterKinds
  <1>7. Pairs(text, n) <=> Pairs(text, i) /\ (IF r = 2 THEN c \in M!Separators ELSE c < 16)
    <2>1. n % 3 = 0 <=> r = 2
      BY <1>3, <1>4
    <2>2. QED
      BY <2>1, OnePairMore, Zenon
  <1>8. t \in Scanning
    BY <1>1, ScanSeparator, ScanDigit
  <1>9. CASE c \in M!Separators
    <2>1. /\ t.ok <=> s.ok /\ s.chars = 2
          /\ t.data = Append(s.data, s.byte)
          /\ t.byte = 0 /\ t.chars = 0
      BY <1>1, <1>9, ScanSeparator
    <2>2. t.ok <=> Pairs(text, n)
      BY <1>2, <1>5, <1>6, <1>7, <1>9, <2>1
    <2>3. ASSUME t.ok
          PROVE  /\ r = 2 /\ Len(t.data) = q + 1
                 /\ \A k \in 1..(q + 1) : t.data[k] = text[3 * k - 2] * 16 + text[3 * k - 1]
      <3>1. s.ok /\ r = 2
        BY <1>5, <2>1, <2>3
      <3>2. /\ Len(t.data) = q + 1
            /\ \A k \in 1..q : t.data[k] = s.data[k]
            /\ t.data[q + 1] = s.byte
        BY <1>2, <1>5, <2>1, <3>1, PushLemma
      <3>3. 3 * (q + 1) - 2 = i - 1 /\ 3 * (q + 1) - 1 = i
        BY <1>3, <3>1
      <3>4. t.data[q + 1] = text[3 * (q + 1) - 2] * 16 + text[3 * (q + 1) - 1]
        BY <1>5, <3>1, <3>2, <3>3
      <3>5. ASSUME NEW k \in 1..(q + 1)
            PROVE  t.data[k] = text[3 * k - 2] * 16 + text[3 * k - 1]
        <4>1. k = q + 1 \/ k \in 1..q
          OBVIOUS
        <4>2. QED
          BY <1>5, <3>1, <3>2, <3>4, <4>1
      <3>6. QED
        BY <3>1, <3>2, <3>5
    <2>4. t.ok => n % 3 = 0 /\ n \div 3 = q + 1
      BY <1>4, <2>3
    <2>5. t.ok => /\ t.chars = n % 3
                  /\ Len(t.data) = n \div 3
                  /\ \A k \in 1..(n \div 3) : t.data[k] = text[3 * k - 2] * 16 + text[3 * k - 1]
                  /\ n % 3 # 1 /\ n % 3 # 2 /\ t.byte = 0
      BY <2>1, <2>3, <2>4, SMTT(60)
    <2>6. QED
      BY <1>8, <2>2, <2>5, Zenon DEF ReadSoFar
  <1>10. CASE c \notin M!Separators
    <2>1. /\ t.ok <=> s.ok /\ c < 16 /\ s.chars < 2
          /\ t.data = s.data
          /\ t.byte = (s.byte * 16 + c) % 256
          /\ t.chars = s.chars + 1
      BY <1>1, <1>10, ScanDigit
    <2>2. t.ok <=> Pairs(text, n)
      <3>1. s.ok => (s.chars < 2 <=> r # 2)
        BY <1>3, <1>5
      <3>2. QED
        BY <1>5, <1>7, <1>10, <2>1, <3>1
    <2>3. ASSUME t.ok
          PROVE  /\ r # 2 /\ Len(t.data) = q /\ t.chars = r + 1
                 /\ \A k \in 1..q : t.data[k] = text[3 * k - 2] * 16 + text[3 * k - 1]
                 /\ r = 0 => t.byte = c
                 /\ r = 1 => t.byte = text[i] * 16 + c
      <3>1. s.ok /\ c \in Nat /\ c < 16 /\ (r = 0 \/ r = 1)
        BY <1>3, <1>5, <1>6, <2>1, <2>3
      <3>2. r = 0 => t.byte = c
        BY <1>5, <2>1, <3>1, SMTT(60)
      <3>3. r = 1 => text[i] \in Nat /\ text[i] < 16
        <4>1. r = 1 => i \in 1..i /\ i % 3 # 0 /\ i \in 1..Len(text)
          BY <1>3
        <4>2. r = 1 => text[i] < 16 /\ text[i] \in MacCharacter
          BY <1>5, <3>1, <4>1 DEF Pairs
        <4>3. QED
          BY <4>2, CharacterKinds
      <3>4. r = 1 => t.byte = text[i] * 16 + c
        <4>1. \A x, y \in Nat : x < 16 /\ y < 16 => (x * 16 + y) % 256 = x * 16 + y
          OBVIOUS
        <4>2. r = 1 => t.byte = (text[i] * 16 + c) % 256
          BY <1>5, <2>1, <3>1
        <4>3. QED
          BY <3>1, <3>3, <4>1, <4>2, ZenonT(60)
      <3>5. QED
        BY <1>5, <2>1, <3>1, <3>2, <3>4
    <2>4. t.ok => \/ r = 0 /\ n % 3 = 1 /\ n \div 3 = q
                  \/ r = 1 /\ n % 3 = 2 /\ n \div 3 = q /\ n - 1 = i
      BY <1>3, <1>4, <2>3
    <2>5. t.ok => /\ t.chars = n % 3
                  /\ Len(t.data) = n \div 3
                  /\ \A k \in 1..(n \div 3) : t.data[k] = text[3 * k - 2] * 16 + text[3 * k - 1]
                  /\ n % 3 = 0 => t.byte = 0
                  /\ n % 3 = 1 => t.byte = text[n]
                  /\ n % 3 = 2 => t.byte = text[n - 1] * 16 + text[n]
      <3>1. ASSUME t.ok
            PROVE  /\ t.chars = n % 3
                   /\ Len(t.data) = n \div 3
                   /\ \A k \in 1..(n \div 3) : t.data[k] = text[3 * k - 2] * 16 + text[3 * k - 1]
        BY <2>3, <2>4, <3>1, SMTT(60)
      <3>2. ASSUME t.ok
            PROVE  /\ n % 3 # 0
                   /\ n % 3 = 1 => t.byte = text[n]
                   /\ n % 3 = 2 => t.byte = text[n - 1] * 16 + text[n]
        BY <2>3, <2>4, <3>2
      <3>3. QED
        BY <3>1, <3>2
    <2>6. QED
      BY <1>8, <2>2, <2>5, Zenon DEF ReadSoFar
  <1>11. QED
    BY <1>9, <1>10

\* The loop over all characters.
LEMMA ScannedLemma ==
    ASSUME NEW text \in Seq(MacCharacter)
    PROVE  ReadSoFar(text, Len(text), M!Scanned(text))
  <1> DEFINE n == Len(text)
             Start == [data |-> << >>, byte |-> 0, chars |-> 0, ok |-> TRUE]
             Turns(s) == s = [i \in 0..n |-> IF i = 0 THEN Start ELSE M!Scan(s[i - 1], text[i])]
             g == [x \in Scanning \X (1..n) |-> M!Scan(x[1], text[x[2]])]
  <1>1. n \in Nat
    OBVIOUS
  <1>2. Start \in Scanning
    BY OctetRange DEF Scanning
  <1>3. g \in [Scanning \X (1..n) -> Scanning]
    <2>1. ASSUME NEW x \in Scanning \X (1..n)
          PROVE  M!Scan(x[1], text[x[2]]) \in Scanning
      <3>1. x[1] \in Scanning /\ x[2] \in 1..n /\ text[x[2]] \in MacCharacter
        OBVIOUS
      <3>2. QED
        BY <3>1, ScanSeparator, ScanDigit
    <2>2. QED
      BY <2>1
  <1>4. PICK f \in [0..n -> Scanning] :
                 f[0] = Start /\ \A i \in 1..n : f[i] = g[<<f[i - 1], i>>]
    <2> HIDE DEF n, Start, g
    <2>1. PICK f \in [0..n -> Scanning] : GoesOn(f, n, Start, g)
      BY <1>1, <1>2, <1>3, StepByStep, Zenon
    <2>2. QED
      BY <2>1 DEF GoesOn
  <1>5. ASSUME NEW i \in 1..n
        PROVE  i - 1 \in 0..n /\ f[i] = M!Scan(f[i - 1], text[i])
    <2>1. i - 1 \in 0..n /\ f[i - 1] \in Scanning
      OBVIOUS
    <2>2. g[<<f[i - 1], i>>] = M!Scan(f[i - 1], text[i])
      BY <2>1
    <2>3. QED
      BY <1>4, <2>1, <2>2
  <1> HIDE DEF g
  <1>6. Turns(f)
    BY <1>4, <1>5
  <1>7. PICK s : Turns(s) /\ M!Scanned(text) = s[n]
    <2>1. Turns(CHOOSE s : Turns(s))
      BY <1>6
    <2>2. M!Scanned(text) = (CHOOSE s : Turns(s))[n]
      BY DEF M!Scanned
    <2>3. QED
      BY <2>1, <2>2
  <1>8. s[0] = Start /\ \A i \in 1..n : s[i] = M!Scan(s[i - 1], text[i])
    <2>1. \A i \in 0..n : s[i] = IF i = 0 THEN Start ELSE M!Scan(s[i - 1], text[i])
      <3> HIDE DEF Start
      <3>1. s = [i \in 0..n |-> IF i = 0 THEN Start ELSE M!Scan(s[i - 1], text[i])]
        BY <1>7, Zenon
      <3> HIDE DEF Turns, n
      <3>2. QED
        BY <3>1, Zenon
    <2> HIDE DEF Start, Turns
    <2>2. QED
      BY <1>1, <2>1
  <1> DEFINE Failing == {i \in 0..n : ~ReadSoFar(text, i, s[i])}
  <1>9. ReadSoFar(text, 0, s[0])
    <2>1. 1..0 = {}
      OBVIOUS
    <2>2. Pairs(text, 0)
      BY <2>1 DEF Pairs
    <2>3. QED
      BY <1>2, <1>8, <2>1, <2>2 DEF ReadSoFar
  <1>10. ASSUME Failing # {}
         PROVE  FALSE
    <2>1. Failing \subseteq Nat
      OBVIOUS
    <2> HIDE DEF Failing
    <2>2. PICK k \in Failing : \A j \in Failing : k <= j
      BY <1>10, <2>1, LeastElement
    <2> USE DEF Failing
    <2>3. k # 0
      BY <1>9, <2>2
    <2>4. k - 1 \in 0..n /\ k - 1 \notin Failing /\ k \in 1..n /\ (k - 1) + 1 = k
      BY <1>1, <2>2, <2>3
    <2>5. ReadSoFar(text, k - 1, s[k - 1])
      BY <2>4
    <2>6. ReadSoFar(text, (k - 1) + 1, M!Scan(s[k - 1], text[(k - 1) + 1]))
      BY <2>4, <2>5, ReadOneMore
    <2>7. QED
      BY <1>8, <2>2, <2>4, <2>6
  <1>11. n \in 0..n /\ n \notin Failing
    BY <1>1, <1>10
  <1>12. ReadSoFar(text, n, s[n])
    BY <1>11
  <1>13. QED
    BY <1>7, <1>12

\* The number of octets that the separators of a text promise.
LEMMA PredictedLength ==
    ASSUME NEW text \in Seq(MacCharacter), Pairs(text, Len(text)),
           NEW l \in 6..8, Len(text) = 3 * l - 1
    PROVE  M!PredictReprLength(text) = l
  <1> DEFINE n == Len(text)
             One(i) == IF text[i] \in M!Separators THEN 1 ELSE 0
             Turns(s) == s = [i \in 0..n |-> IF i = 0 THEN 0 ELSE (s[i - 1] + One(i)) % 256]
             f == [i \in 0..n |-> i \div 3]
  <1>1. n \in Nat /\ n < 24
    OBVIOUS
  <1>2. ASSUME NEW i \in 1..n
        PROVE  One(i) = IF i % 3 = 0 THEN 1 ELSE 0
    <2>1. text[i] \in MacCharacter
      OBVIOUS
    <2>2. IF i % 3 = 0 THEN text[i] \in M!Separators ELSE text[i] < 16
      BY <1>2 DEF Pairs
    <2>3. QED
      BY <2>1, <2>2, CharacterKinds
  <1>3. ASSUME NEW i \in 1..n
        PROVE  i \div 3 = ((i - 1) \div 3 + One(i)) % 256
    <2>1. PICK q \in Nat, r \in 0..2 : i - 1 = 3 * q + r /\ (i - 1) % 3 = r /\ (i - 1) \div 3 = q
      BY Thirds, SMTT(60)
    <2>2. i \in Nat /\ i = 3 * q + r + 1 /\ q < 24 /\ (r = 0 \/ r = 1 \/ r = 2)
      BY <1>1, <2>1
    <2>3. /\ r # 2 => i % 3 # 0 /\ i \div 3 = q
          /\ r = 2 => i % 3 = 0 /\ i \div 3 = q + 1
      BY <2>2
    <2>4. /\ r # 2 => One(i) = 0
          /\ r = 2 => One(i) = 1
      BY <1>2, <2>3
    <2>5. q % 256 = q /\ (q + 1) % 256 = q + 1
      BY <2>2
    <2> HIDE DEF One
    <2>6. QED
      BY <2>1, <2>3, <2>4, <2>5
  <1> HIDE DEF One
  <1>4. Turns(f)
    <2>1. ASSUME NEW i \in 0..n
          PROVE  f[i] = IF i = 0 THEN 0 ELSE (f[i - 1] + One(i)) % 256
      <3>1. CASE i = 0
        BY <1>1, <3>1
      <3>2. CASE i # 0
        <4>1. i \in 1..n /\ i - 1 \in 0..n
          BY <1>1, <3>2
        <4>2. f[i] = i \div 3 /\ f[i - 1] = (i - 1) \div 3
          BY <4>1
        <4>3. QED
          BY <1>3, <3>2, <4>1, <4>2
      <3>3. QED
        BY <3>1, <3>2
    <2>2. QED
      BY <2>1
  <1>5. PICK s : Turns(s) /\ M!PredictReprLength(text) = (s[n] + 1) % 256
    <2>1. Turns(CHOOSE s : Turns(s))
      BY <1>4
    <2>2. M!PredictReprLength(text) = ((CHOOSE s : Turns(s))[n] + 1) % 256
      BY DEF M!PredictReprLength, One
    <2>3. QED
      BY <2>1, <2>2
  <1>6. \A i \in 0..n : s[i] = IF i = 0 THEN 0 ELSE (s[i - 1] + One(i)) % 256
    <2>1. s = [i \in 0..n |-> IF i = 0 THEN 0 ELSE (s[i - 1] + One(i)) % 256]
      BY <1>5, Zenon
    <2> HIDE DEF Turns, n
    <2>2. QED
      BY <2>1, Zenon
  <1> HIDE DEF Turns
  <1> DEFINE Failing == {i \in 0..n : s[i] # i \div 3}
  <1>7. ASSUME Failing # {}
        PROVE  FALSE
    <2>1. Failing \subseteq Nat
      OBVIOUS
    <2> HIDE DEF Failing
    <2>2. PICK k \in Failing : \A j \in Failing : k <= j
      BY <1>7, <2>1, LeastElement
    <2> USE DEF Failing
    <2>3. k # 0
      BY <1>1, <1>6, <2>2
    <2>4. k \in 1..n /\ k - 1 \in 0..n /\ k - 1 \notin Failing
      <3>1. k \in 1..n /\ k - 1 \in 0..n /\ ~ (k <= k - 1)
        BY <1>1, <2>3
      <3> HIDE DEF Failing
      <3>2. QED
        BY <2>2, <3>1
    <2>5. s[k - 1] = (k - 1) \div 3
      BY <2>4
    <2>6. s[k] = k \div 3
      <3> HIDE DEF Failing, f, n
      <3>1. k \in 0..n
        BY <2>2 DEF Failing
      <3>2. s[k] = (s[k - 1] + One(k)) % 256
        BY <1>6, <2>3, <3>1, Zenon
      <3>3. k \div 3 = ((k - 1) \div 3 + One(k)) % 256
        BY <1>3, <2>4
      <3>4. QED
        BY <2>5, <3>2, <3>3
    <2>7. QED
      BY <2>2, <2>6
  <1>8. n \in 0..n /\ n \notin Failing
    BY <1>1, <1>7
  <1>9. s[n] = l - 1
    <2>1. s[n] = n \div 3
      BY <1>8
    <2>2. (3 * l - 1) \div 3 = l - 1
      OBVIOUS
    <2>3. QED
      BY <2>1, <2>2
  <1>10. QED
    BY <1>5, <1>9

\* A well-formed text is read pair by pair, and no other is read at all.
LEMMA FromReprLemma ==
    ASSUME NEW text \in Seq(MacCharacter)
    PROVE  /\ WellFormed(text) =>
                  /\ M!FromRepr(text) \in Seq(Octet)
                  /\ Len(M!FromRepr(text)) = (Len(text) + 1) \div 3
                  /\ Len(M!FromRepr(text)) \in 6..8
                  /\ \A k \in 1..Len(M!FromRepr(text)) :
                        M!FromRepr(text)[k] = text[3 * k - 2] * 16 + text[3 * k - 1]
           /\ ~WellFormed(text) => M!FromRepr(text) = << >>
  <1> DEFINE n == Len(text)
             s == M!Scanned(text)
             data == Append(s.data, s.byte)
             predicted == M!PredictReprLength(text)
             good == M!GoodLength(predicted) /\ s.ok /\ s.chars = 2 /\ Len(data) = predicted
  <1>1. ReadSoFar(text, n, s) /\ n \in Nat
    BY ScannedLemma
  <1>2. /\ s \in Scanning
        /\ s.data \in Seq(Octet) /\ s.byte \in Octet /\ s.chars \in Nat
    BY <1>1, PartsOfScanning DEF ReadSoFar
  <1>3. M!FromRepr(text) = IF good THEN data ELSE << >>
    BY Zenon DEF M!FromRepr, M!Invalid
  <1>4. WellFormed(text) <=> Pairs(text, n) /\ n \in {3 * l - 1 : l \in 6..8}
    BY DEF WellFormed, Pairs
  <1>5. ASSUME good
        PROVE  WellFormed(text)
    <2>1. Pairs(text, n) /\ n % 3 = 2 /\ Len(s.data) = n \div 3
      BY <1>1, <1>5 DEF ReadSoFar
    <2>2. Len(data) = n \div 3 + 1 /\ Len(data) \in 6..8
      BY <1>2, <1>5, <2>1, PushLemma DEF M!GoodLength, M!MIN_ADAPTER_ADDRESS_LENGTH,
                                         M!MAX_ADAPTER_ADDRESS_LENGTH
    <2>3. n = 3 * Len(data) - 1
      BY <1>1, <2>1, <2>2
    <2>4. QED
      BY <1>4, <2>1, <2>2, <2>3
  <1>6. ASSUME WellFormed(text)
        PROVE  /\ good
               /\ data \in Seq(Octet)
               /\ Len(data) = (n + 1) \div 3 /\ Len(data) \in 6..8
               /\ \A k \in 1..Len(data) : data[k] = text[3 * k - 2] * 16 + text[3 * k - 1]
    <2>1. PICK l \in 6..8 : n = 3 * l - 1
      BY <1>4, <1>6
    <2>2. Pairs(text, n) /\ s.ok
      BY <1>1, <1>4, <1>6 DEF ReadSoFar
    <2>3. n % 3 = 2 /\ n \div 3 = l - 1 /\ (n + 1) \div 3 = l
      BY <2>1
    <2>4. /\ s.chars = 2 /\ Len(s.data) = l - 1
          /\ \A k \in 1..(l - 1) : s.data[k] = text[3 * k - 2] * 16 + text[3 * k - 1]
          /\ s.byte = text[n - 1] * 16 + text[n]
      BY <1>1, <2>2, <2>3 DEF ReadSoFar
    <2>5. predicted = l
      BY <2>1, <2>2, PredictedLength
    <2>6. /\ data \in Seq(Octet) /\ Len(data) = l
          /\ \A k \in 1..(l - 1) : data[k] = s.data[k]
          /\ data[l] = s.byte
      BY <1>2, <2>4, PushLemma
    <2>7. good
      BY <2>2, <2>4, <2>5, <2>6 DEF M!GoodLength, M!MIN_ADAPTER_ADDRESS_LENGTH,
                                    M!MAX_ADAPTER_ADDRESS_LENGTH
    <2>8. n - 1 = 3 * l - 2
      BY <2>1
    <2> HIDE DEF data, s
    <2>9. ASSUME NEW k \in 1..l
          PROVE  data[k] = text[3 * k - 2] * 16 + text[3 * k - 1]
      <3>1. CASE k = l
        BY <2>1, <2>4, <2>6, <2>8, <3>1
      <3>2. CASE k # l
        BY <2>4, <2>6, <3>2
      <3>3. QED
        BY <3>1, <3>2
    <2>10. QED
      BY <2>3, <2>6, <2>7, <2>9
  <1> HIDE DEF good, data
  <1>7. QED
    BY <1>3, <1>5, <1>6

\* What a digit is.
LEMMA DigitLemma == \A c \in Nat : c < 16 => c \in MacCharacter
  BY DEF MacCharacter

\* Two digits say which octet they are of.
LEMMA TwoDigits == \A x \in Nat : (x \div 16) * 16 + (x % 16) = x
  OBVIOUS

\* What is printed of as many octets as a MAC address has is well formed, and is read
\* as the same octets.
LEMMA PrintedIsRead ==
    ASSUME NEW data \in Seq(Octet)
    PROVE  /\ Len(data) \in 6..8 =>
                  /\ M!ToRepr(data) \in Seq(MacCharacter)
                  /\ M!ToRepr(data) # << >>
                  /\ M!FromRepr(M!ToRepr(data)) = data
           /\ Len(data) \notin 6..8 => M!ToRepr(data) = << >>
  <1> DEFINE l == Len(data)
             n == 3 * l - 1
             text == M!ToRepr(data)
  <1>1. l \notin 6..8 => text = << >>
    BY DEF M!ToRepr, M!GoodLength, M!Invalid, M!MIN_ADAPTER_ADDRESS_LENGTH,
           M!MAX_ADAPTER_ADDRESS_LENGTH
  <1> SUFFICES ASSUME l \in 6..8
               PROVE  /\ text \in Seq(MacCharacter) /\ text # << >>
                      /\ M!FromRepr(text) = data
    BY <1>1
  <1>2. text = [p \in 1..n |-> IF p % 3 = 0 THEN M!Colon ELSE M!Digits(data[(p + 2) \div 3])[p % 3]]
    BY DEF M!ToRepr, M!GoodLength, M!MIN_ADAPTER_ADDRESS_LENGTH, M!MAX_ADAPTER_ADDRESS_LENGTH
  <1>3. ASSUME NEW k \in 1..l
        PROVE  /\ data[k] \in Nat /\ data[k] < 256
               /\ 3 * k - 2 \in 1..n /\ text[3 * k - 2] = data[k] \div 16
               /\ 3 * k - 1 \in 1..n /\ text[3 * k - 1] = data[k] % 16
    <2>1. data[k] \in Nat /\ data[k] < 256
      BY OctetRange
    <2>2. /\ 3 * k - 2 \in 1..n /\ (3 * k - 2) % 3 = 1 /\ ((3 * k - 2) + 2) \div 3 = k
          /\ 3 * k - 1 \in 1..n /\ (3 * k - 1) % 3 = 2 /\ ((3 * k - 1) + 2) \div 3 = k
      OBVIOUS
    <2>3. M!Digits(data[k])[1] = data[k] \div 16 /\ M!Digits(data[k])[2] = data[k] % 16
      BY DEF M!Digits
    <2>4. /\ text[3 * k - 2] = M!Digits(data[k])[1]
          /\ text[3 * k - 1] = M!Digits(data[k])[2]
      BY <1>2, <2>2
    <2>5. QED
      BY <2>1, <2>2, <2>3, <2>4
  <1>4. ASSUME NEW p \in 1..n
        PROVE  /\ text[p] \in MacCharacter
               /\ IF p % 3 = 0 THEN text[p] \in M!Separators ELSE text[p] < 16
    <2>1. PICK q \in Nat, r \in 0..2 : p = 3 * q + r /\ p % 3 = r /\ p \div 3 = q
      BY Thirds
    <2>2. CASE r = 0
      <3>1. text[p] = 16 /\ p % 3 = 0
        BY <1>2, <2>1, <2>2 DEF M!Colon
      <3>2. QED
        BY <3>1 DEF MacCharacter, M!Separators, M!Colon
    <2>3. CASE r # 0
      <3>1. q + 1 \in 1..l /\ (p = 3 * (q + 1) - 2 \/ p = 3 * (q + 1) - 1) /\ p % 3 # 0
        BY <2>1, <2>3
      <3>2. PICK k \in 1..l : p = 3 * k - 2 \/ p = 3 * k - 1
        BY <3>1
      <3>3. /\ data[k] \in Nat /\ data[k] < 256
            /\ text[p] = data[k] \div 16 \/ text[p] = data[k] % 16
        BY <1>3, <3>2
      <3>4. \A x \in Nat : x < 256 => x \div 16 \in 0..15 /\ x % 16 \in 0..15
        OBVIOUS
      <3>5. text[p] \in Nat /\ text[p] < 16
        BY <3>3, <3>4
      <3>6. QED
        BY <3>1, <3>5, DigitLemma
    <2>4. QED
      BY <2>2, <2>3
  <1>5. text \in Seq(MacCharacter) /\ Len(text) = n /\ DOMAIN text = 1..n /\ text # << >>
    <2>1. n \in Nat /\ n > 0 /\ DOMAIN text = 1..n /\ l \in Nat
      <3>1. l = 6 \/ l = 7 \/ l = 8
        OBVIOUS
      <3> HIDE DEF text, l
      <3>2. DOMAIN text = 1..n
        BY <1>2
      <3>3. QED
        BY <3>1, <3>2
    <2>2. text = [p \in 1..n |-> text[p]]
      BY <1>2
    <2>3. text \in [1..n -> MacCharacter]
      BY <1>4, <2>2
    <2>4. text \in Seq(MacCharacter) /\ Len(text) = n
      BY <2>1, <2>3, SMTT(60)
    <2>5. QED
      BY <2>1, <2>4
  <1>6. WellFormed(text)
    BY <1>4, <1>5 DEF WellFormed
  <1>7. /\ M!FromRepr(text) \in Seq(Octet)
        /\ Len(M!FromRepr(text)) = l
        /\ \A k \in 1..l : M!FromRepr(text)[k] = text[3 * k - 2] * 16 + text[3 * k - 1]
    <2>1. (n + 1) \div 3 = l
      OBVIOUS
    <2> HIDE DEF text, n, l
    <2>2. QED
      BY <1>5, <1>6, <2>1, FromReprLemma
  <1>8. ASSUME NEW k \in 1..l
        PROVE  M!FromRepr(text)[k] = data[k]
    <2>1. /\ data[k] \in Nat
          /\ text[3 * k - 2] = data[k] \div 16
          /\ text[3 * k - 1] = data[k] % 16
      BY <1>3
    <2>2. M!FromRepr(text)[k] = text[3 * k - 2] * 16 + text[3 * k - 1]
      BY <1>7
    <2> HIDE DEF text
    <2>3. QED
      BY <2>1, <2>2, TwoDigits
  <1> HIDE DEF text, n
  <1>9. M!FromRepr(text) = data
    BY <1>7, <1>8
  <1>10. QED
    BY <1>5, <1>9

\* A MAC address is taken as characters or as octets.
MacTaken ==
    /\ value.kind = "mactext" => value.text \in Seq(MacCharacter)
    /\ value.kind = "macdata" => value.data \in Seq(Octet)

LEMMA MacTakenLemma == Spec => []MacTaken
  <1>1. Init => MacTaken
    BY DEF Init, Nothing, MacTaken
  <1>2. MacTaken /\ [Next]_vars => MacTaken'
    <2> SUFFICES ASSUME MacTaken, [Next]_vars
                 PROVE  MacTaken'
      OBVIOUS
    <2>1. CASE TakeMacText
      BY <2>1, ValuesAssumption DEF TakeMacText, Take, MacTaken, ValuesAssumption
    <2>2. CASE TakeMacData
      BY <2>2, ValuesAssumption DEF TakeMacData, Take, MacTaken, ValuesAssumption
    <2>3. CASE TakeIPv4 \/ TakeIPv6 \/ TakeText
      BY <2>3 DEF TakeIPv4, TakeIPv6, TakeText, Take, MacTaken
    <2>4. CASE TakeScope \/ TakeMask
      BY <2>4 DEF TakeScope, TakeMask, Take, MacTaken
    <2>5. CASE TakeFlags \/ TakeSystem
      BY <2>5 DEF TakeFlags, TakeSystem, Take, MacTaken
    <2>6. CASE TakeLists \/ PutBack
      BY <2>6 DEF TakeLists, PutBack, Nothing, MacTaken
    <2>7. CASE CallNext \/ UNCHANGED vars
      BY <2>7 DEF CallNext, vars, MacTaken
    <2>8. QED
      BY <2>1, <2>2, <2>3, <2>4, <2>5, <2>6, <2>7 DEF Next
  <1>3. QED
    BY <1>1, <1>2, PTL DEF Spec

\* Whatever the text and whatever the octets, a MAC address is accepted exactly if it
\* is well formed, the same in C++, Java and Python, and what is printed is read back.
THEOREM MacTextsAlwaysAgree == Spec => []MacTextsAgree
  <1>1. MacTaken => MacTextsAgree
    <2> SUFFICES ASSUME MacTaken
                 PROVE  MacTextsAgree
      OBVIOUS
    <2>1. ASSUME value.kind = "mactext"
          PROVE  LET address == M!MacAddressOfText(value.text)
                 IN /\ ~M!Threw(address) <=> WellFormed(value.text)
                    /\ M!PythonOfText(value.text) = address
                    /\ ~M!Threw(address) =>
                           /\ \A i \in DOMAIN address.data :
                                  address.data[i] = value.text[3 * i - 2] * 16 + value.text[3 * i - 1]
                           /\ M!JavaOfText(value.text) = M!Converted(address)
                           /\ M!SameAddress(M!MacAddressOfText(M!ToRepr(address.data)), address)
      <3> DEFINE text == value.text
                 data == M!FromRepr(text)
                 address == M!MacAddressOfText(text)
      <3>1. text \in Seq(MacCharacter)
        BY <2>1 DEF MacTaken
      <3>2. address = [text |-> text, data |-> data]
        BY DEF M!MacAddressOfText, M!Object
      <3> HIDE DEF text
      <3>3. WellFormed(text) => Len(text) > 16
        <4>1. ASSUME NEW l \in 6..8
              PROVE  3 * l - 1 > 16
          OBVIOUS
        <4>2. QED
          BY <4>1 DEF WellFormed
      <3>4. WellFormed(text) =>
                /\ data \in Seq(Octet) /\ Len(data) \in 6..8
                /\ \A k \in 1..Len(data) : data[k] = text[3 * k - 2] * 16 + text[3 * k - 1]
        BY <3>1, FromReprLemma
      <3>5. ~WellFormed(text) => data = << >>
        BY <3>1, FromReprLemma
      <3> HIDE DEF data
      <3>6. M!Threw(address) <=> text = << >> \/ data = << >>
        BY <3>2 DEF M!Threw, M!Invalid
      <3>7. ~M!Threw(address) <=> WellFormed(text)
        <4>1. WellFormed(text) => text # << >>
          BY <3>3
        <4>2. WellFormed(text) => data # << >>
          BY <3>4
        <4> HIDE DEF address
        <4>3. QED
          BY <3>5, <3>6, <4>1, <4>2
      <3>8. M!PythonOfText(text) = address
        BY DEF M!PythonOfText
      <3>9. ASSUME WellFormed(text)
            PROVE  M!JavaOfText(text) = M!Converted(address)
        <4>1. ~ (Len(text) < 2)
          BY <3>1, <3>3, <3>9
        <4>2. M!JavaOfText(text) = address
          BY <4>1 DEF M!JavaOfText
        <4>3. M!Converted(address) = address
          BY <3>2 DEF M!Converted, M!Object
        <4>4. QED
          BY <4>2, <4>3
      <3>10. ASSUME WellFormed(text)
             PROVE  M!SameAddress(M!MacAddressOfText(M!ToRepr(address.data)), address)
        <4>1. M!FromRepr(M!ToRepr(data)) = data
          BY <3>4, <3>10, PrintedIsRead
        <4>2. address.data = data
          BY <3>2
        <4>3. QED
          BY <4>1, <4>2 DEF M!SameAddress, M!MacAddressOfText, M!Object
      <3>11. WellFormed(text) =>
                 \A i \in DOMAIN address.data : address.data[i] = text[3 * i - 2] * 16 + text[3 * i - 1]
        BY <3>2, <3>4
      <3> USE DEF text
      <3> HIDE DEF address
      <3>12. QED
        BY <3>7, <3>8, <3>9, <3>10, <3>11 DEF address
    <2>2. ASSUME value.kind = "macdata", Len(value.data) < 256
          PROVE  LET address == M!MacAddressOfData(value.data)
                 IN /\ ~M!Threw(address) <=> Len(value.data) \in 6..8
                    /\ M!JavaOfData(value.data) = address
                    /\ M!PythonOfData(value.data) = address
                    /\ ~M!Threw(address) => M!FromRepr(address.text) = address.data
      <3> DEFINE data == value.data
                 text == M!ToRepr(data)
                 address == M!MacAddressOfData(data)
                 n == Len(data)
      <3>1. data \in Seq(Octet) /\ n \in Nat /\ n < 256
        BY <2>2 DEF MacTaken
      <3>2. address = [text |-> text, data |-> data]
        BY DEF M!MacAddressOfData, M!Object
      <3> HIDE DEF data
      <3>3. n % 256 = n
        BY <3>1
      <3>4. SubSeq(data, 1, n % 256) = data
        BY <3>1, <3>3
      <3>5. [i \in 1..(n % 256) |-> data[i] % 256] = data
        <4>1. ASSUME NEW i \in 1..n
              PROVE  data[i] % 256 = data[i]
          <5>1. data[i] \in Nat /\ data[i] < 256
            BY <3>1, OctetRange
          <5>2. QED
            BY <5>1
        <4>2. data = [i \in 1..n |-> data[i]]
          BY <3>1
        <4>3. QED
          BY <3>3, <4>1, <4>2
      <3>6. M!JavaOfData(data) = address /\ M!PythonOfData(data) = address
        BY <3>2, <3>4, <3>5 DEF M!JavaOfData, M!PythonOfData, M!Object
      <3>7. n \in 6..8 => text # << >> /\ data # << >> /\ M!FromRepr(text) = data
        <4>1. n \in 6..8 => data # << >>
          <5> HIDE DEF text, address
          <5>1. Len(<< >>) = 0
            OBVIOUS
          <5>2. QED
            BY <5>1
        <4>2. QED
          BY <3>1, <4>1, PrintedIsRead, Zenon
      <3>8. n \notin 6..8 => text = << >>
        BY <3>1, PrintedIsRead
      <3> HIDE DEF text
      <3>9. M!Threw(address) <=> text = << >> \/ data = << >>
        BY <3>2 DEF M!Threw, M!Invalid
      <3>10. ~M!Threw(address) <=> n \in 6..8
        BY <3>7, <3>8, <3>9
      <3>11. ~M!Threw(address) => M!FromRepr(address.text) = address.data
        BY <3>2, <3>7, <3>10
      <3> USE DEF data
      <3> HIDE DEF address
      <3>12. QED
        BY <3>6, <3>10, <3>11 DEF address
    <2>3. QED
      BY <2>1, <2>2, Zenon DEF MacTextsAgree
  <1>2. QED
    BY <1>1, MacTakenLemma, PTL
=============================================================================
