-------------------------- MODULE JniLibraryProofs --------------------------
(***************************************************************************)
(* Theorems about JniLibrary, for any threads, systems, shapes of          *)
(* interfaces, calls and class loaders: types, native code after the load  *)
(* only, one reference for each class and method, nobody waiting in a      *)
(* circle, and nothing called with an exception pending but after a list   *)
(* that nobody asked for.                                                  *)
(***************************************************************************)
EXTENDS JniLibrary, StackLemmas

-----------------------------------------------------------------------------
(* The inductive invariant.  It says of every frame, at every step of its  *)
(* method, what the thread holds and what has happened before.  The parts  *)
(* that relate a frame to the rest have the variables as a record g, and a *)
(* thread's stack as a sequence s.                                         *)

NativeOps == {"class", "method", "jni", "list", "throw"}
Ops       == NativeOps \union {"use", "store", "check", "find", "load", "loaded"}

\* Functions of the JNIEnv.
JniFunctions == {"NewByteArray", "NewStringUTF", "CallStaticObjectMethod", "NewObject",
                 "CallBooleanMethod", "GetStringUTFChars"}

StepSet == [op : Ops, class : Class \union {""}, member : Member \union JniFunctions \union {""}]

Exceptions == {"IllegalArgumentException", "EnumConstantNotPresentException"}

\* The steps of a native method that looks up the classes in C.  It throws only if
\* these may be exceptions.
NativeStep(C) ==
    {x \in StepSet :
        /\ x.op \in NativeOps
        /\ x.op = "class" => x.class \in C
        /\ x.op = "throw" => Exceptions \subseteq C
        /\ x.op = "method" => x.class \in Cachable
        /\ x.op \in {"method", "list"} => x.member \in Member}

\* A class is to be stored next, or after FindClass(), which uses it.
Storing(s, C) ==
    /\ s # << >>
    /\ Head(s) \in StepSet /\ Head(s).op = "store" /\ Head(s).class \in C
    /\ Tail(s) \in Seq(NativeStep(C))

Finding(s, C) ==
    /\ s # << >>
    /\ Head(s) \in StepSet /\ Head(s).op = "use"
    /\ Storing(Tail(s), C)
    /\ Head(Tail(s)).class = Head(s).class

Caching(s) == Storing(s, Cachable) \/ Finding(s, Cachable)

\* What remains of a native method.
Body(s, C) == s \in Seq(NativeStep(C)) \/ Storing(s, C) \/ Finding(s, C)

\* Java uses a class of the package, and native code may follow.
Using(s, C) ==
    /\ s # << >>
    /\ Head(s) \in StepSet /\ Head(s).op = "use" /\ Head(s).class \in C
    /\ Tail(s) \in Seq(NativeStep(Cachable))
    /\ Head(s).class \in Enums => Tail(s) = << >>

\* The static initializer of Loader, and what remains of it.
ToFind   == Step("find", "Loader", "") \o Step("load", "Loader", "") \o Step("loaded", "Loader", "")
ToLoad   == Step("load", "Loader", "") \o Step("loaded", "Loader", "")
ToFinish == Step("loaded", "Loader", "")
ToCheck  == Step("check", "Loader", "")

\* What a frame of each class may be, and how deep.
FrameShape(f, d) ==
    /\ f.class = "" => d = 1 /\ (Body(f.steps, Cachable) \/ Using(f.steps, Guarded \union Enums))
    /\ f.class = "list" => d > 1 /\ Body(f.steps, {"ArrayList"})
    /\ f.class \in Enums =>
          d = 2 /\ (Body(f.steps, Cachable) \/ Using(f.steps, {"EnumConstantsHelper"}))
    /\ f.class = "Loader" => f.steps \in {ToFind, ToLoad, ToFinish, << >>}
    /\ f.class \in Guarded => f.steps \in {GuardedBy("Loader"), ToCheck, << >>}
    /\ f.class \in Cachable \ Guarded => f.steps = << >>

\* What holds while thread t has frame f.
FrameState(f, t, g) ==
    /\ f.class \in Class => g.classes[f.class] = t
    /\ Body(f.steps, Cachable) /\ f.steps # << >> => g.LOADED
    /\ Caching(f.steps) => g.mutex = t /\ Head(f.steps).class \notin g.cache.classes
    /\ f.class = "Loader" =>
          /\ f.steps \in {ToFind, ToLoad} => g.library = NoFile /\ g.cache = None
          /\ f.steps \in {ToLoad, ToFinish} => g.file # NoFile
          /\ f.steps = ToFinish => g.library # NoFile /\ g.cache # None
          /\ f.steps = << >> => g.LOADED \/ g.pending[t]
    /\ f.class \in Guarded =>
          /\ f.steps = ToCheck => g.LOADED \/ g.classes["Loader"] \in {t, "failed"}
          /\ f.steps = << >> => g.LOADED \/ g.pending[t]

FrameSet == [class : Class \union {"", "list"}, steps : Seq(StepSet)]

\* A frame that initializes a class is where the one below uses it.
Above(f, e) ==
    f.class \in Class => /\ e.steps # << >>
                         /\ Head(e.steps).op = "use" /\ Head(e.steps).class = f.class

StackOK(s, t, g) ==
    /\ s \in Seq(FrameSet)
    /\ \A d \in 1..Len(s) : FrameShape(s[d], d) /\ FrameState(s[d], t, g)
    /\ \A d, e \in 1..Len(s) : s[d].class \in Class /\ s[d].class = s[e].class => d = e
    /\ \A d, e \in 1..Len(s) : Caching(s[d].steps) /\ Caching(s[e].steps) => d = e
    /\ \A d \in 1..Len(s) : d + 1 \in 1..Len(s) => Above(s[d + 1], s[d])
    /\ \A c \in Class : g.classes[c] = t => \E d \in 1..Len(s) : s[d].class = c

\* What loading leaves behind, and one reference for each thing in the cache.
LoadOK(g) ==
    /\ g.LOADED => g.library # NoFile /\ g.cache # None
    /\ g.classes["Loader"] = "done" => g.LOADED
    /\ \A c \in Guarded : g.classes[c] = "done" => g.LOADED
    /\ g.classes["Loader"] = "none" => g.library = NoFile /\ g.cache = None
    /\ g.library \in {NoFile, g.file}

CacheOK(g) ==
    /\ g.cache = None => DOMAIN g.weak = {}
    /\ g.cache # None =>
          /\ g.cache \in Cached
          /\ DOMAIN g.weak = {ClassKey(c) : c \in g.cache.classes} \union g.cache.methods
          /\ \A key \in DOMAIN g.weak : g.weak[key] = 1

GlobalType ==
    /\ system \in Systems
    /\ classes \in [Class -> {"none", "done", "failed"} \union Threads]
    /\ file \in {NoFile} \union Found(system.platform, system.installed)
    /\ LOADED \in BOOLEAN
    /\ mutex \in {None} \union Threads
    /\ DOMAIN stack = Threads
    /\ pending \in [Threads -> BOOLEAN]
    /\ calls \in 0..MaxCalls
    /\ loads \in 1..MaxLoads

Globals == [classes |-> classes, file |-> file, library |-> library, LOADED |-> LOADED,
            cache |-> cache, weak |-> weak, mutex |-> mutex, pending |-> pending]

CoreInv ==
    /\ GlobalType
    /\ LoadOK(Globals)
    /\ CacheOK(Globals)
    /\ \A t \in Threads : StackOK(stack[t], t, Globals)

\* Where an exception is pending, no class is being initialized that is looked up.
Raised(s) == s # << >> /\ s[Len(s)].class \notin Cachable \ Guarded

\* The frames only end, up to one that used a class that cannot be used.
Unwinding(s, g) ==
    LET f == s[Len(s)]
    IN f.steps # << >> =>
          /\ Head(f.steps).op = "use" /\ Head(f.steps).class \in Class
          /\ g.classes[Head(f.steps).class] = "failed"

PendingInv ==
    /\ \A c \in Cachable \ Guarded : classes[c] # "failed"
    /\ \A t \in Threads :
          pending[t] => Raised(stack[t]) /\ (unchecked[t] \/ Unwinding(stack[t], Globals))

-----------------------------------------------------------------------------
(* The steps of the native methods. *)

\* One step in front of others.
LEMMA ConsProperties ==
    ASSUME NEW S, NEW x \in S, NEW s \in Seq(S)
    PROVE  /\ <<x>> \o s \in Seq(S)
           /\ <<x>> \o s # << >>
           /\ Head(<<x>> \o s) = x
           /\ Tail(<<x>> \o s) = s
  <1> DEFINE u == <<x>> \o s
  <1>1. <<x>> \in Seq(S) /\ Len(<<x>>) = 1 /\ <<x>>[1] = x
    OBVIOUS
  <1>2. Len(s) \in Nat
    BY LenProperties
  <1>3. /\ u \in Seq(S) /\ Len(u) = 1 + Len(s)
        /\ \A i \in 1..1 + Len(s) : u[i] = IF i <= 1 THEN <<x>>[i] ELSE s[i - 1]
    BY <1>1, ConcatProperties
  <1>4. u[1] = x /\ \A i \in 1..Len(s) : u[i + 1] = s[i]
    BY <1>1, <1>2, <1>3
  <1> HIDE DEF u
  <1>5. u # << >>
    BY <1>2, <1>3, EmptySeq
  <1>6. /\ Head(u) = u[1] /\ Tail(u) \in Seq(S) /\ Len(Tail(u)) = Len(u) - 1
        /\ \A i \in 1..Len(Tail(u)) : Tail(u)[i] = u[i + 1]
    BY <1>3, <1>5, HeadTailProperties
  <1>7. Len(Tail(u)) = Len(s) /\ \A i \in 1..Len(s) : Tail(u)[i] = s[i]
    BY <1>2, <1>3, <1>4, <1>6
  <1>8. Tail(u) = s
    BY <1>6, <1>7, SeqEqual
  <1>9. QED
    BY <1>3, <1>4, <1>5, <1>6, <1>8 DEF u

LEMMA HeadTail ==
    ASSUME NEW S, NEW s \in Seq(S), s # << >>
    PROVE  Head(s) \in S /\ Tail(s) \in Seq(S)
  BY HeadTailProperties

LEMMA OneElement ==
    ASSUME NEW S, NEW x \in S
    PROVE  <<x>> \in Seq(S)
  OBVIOUS

LEMMA StepsJoin ==
    ASSUME NEW S, NEW a \in Seq(S), NEW b \in Seq(S)
    PROVE  a \o b \in Seq(S)
  BY ConcatProperties

\* A step of a native method.
LEMMA StepIsNative ==
    ASSUME NEW C \in SUBSET Class, NEW o \in NativeOps, NEW c \in Class \union {""},
           NEW m \in Member \union JniFunctions \union {""},
           o = "class" => c \in C,
           o = "throw" => Exceptions \subseteq C,
           o = "method" => c \in Cachable,
           o \in {"method", "list"} => m \in Member
    PROVE  Step(o, c, m) \in Seq(NativeStep(C))
  <1>1. PICK x : x = [op |-> o, class |-> c, member |-> m]
    OBVIOUS
  <1>2. x.op = o /\ x.class = c /\ x.member = m
    BY <1>1
  <1>3. x \in StepSet
    BY <1>1 DEF StepSet, Ops
  <1>4. x \in NativeStep(C)
    BY <1>2, <1>3 DEF NativeStep
  <1>5. <<x>> \in Seq(NativeStep(C))
    BY <1>4, OneElement
  <1>6. QED
    BY <1>1, <1>5 DEF Step

\* What each kind of step is.
LEMMA StepKinds ==
    ASSUME NEW C \in SUBSET Class
    PROVE  /\ \A f \in JniFunctions : Jni(f) \in Seq(NativeStep(C))
           /\ \A c \in C : JClass(c) \in Seq(NativeStep(C))
           /\ \A c \in Cachable, m \in Member : Method(c, m) \in Seq(NativeStep(C))
           /\ Exceptions \subseteq C => Throw \in Seq(NativeStep(C))
           /\ NewList \in Seq(NativeStep(C))
           /\ << >> \in Seq(NativeStep(C))
  <1>1. ASSUME NEW f \in JniFunctions
        PROVE  Jni(f) \in Seq(NativeStep(C))
    <2>1. "jni" \in NativeOps
      BY DEF NativeOps
    <2>2. Step("jni", "", f) \in Seq(NativeStep(C))
      BY <2>1, StepIsNative
    <2>3. QED
      BY <2>2 DEF Jni
  <1>2. ASSUME NEW c \in C
        PROVE  JClass(c) \in Seq(NativeStep(C))
    <2>1. "class" \in NativeOps /\ c \in Class
      BY DEF NativeOps
    <2>2. Step("class", c, "") \in Seq(NativeStep(C))
      BY <2>1, StepIsNative
    <2>3. QED
      BY <2>2 DEF JClass
  <1>3. ASSUME NEW c \in Cachable, NEW m \in Member
        PROVE  Method(c, m) \in Seq(NativeStep(C))
    <2>1. "method" \in NativeOps /\ c \in Class
      BY DEF NativeOps, Class
    <2>2. Step("method", c, m) \in Seq(NativeStep(C))
      BY <2>1, StepIsNative
    <2>3. QED
      BY <2>2 DEF Method
  <1>4. ASSUME Exceptions \subseteq C
        PROVE  Throw \in Seq(NativeStep(C))
    <2>1. "throw" \in NativeOps
      BY DEF NativeOps
    <2>2. Step("throw", "", "") \in Seq(NativeStep(C))
      BY <1>4, <2>1, StepIsNative
    <2>3. QED
      BY <2>2 DEF Throw
  <1>5. NewList \in Seq(NativeStep(C))
    <2>1. "list" \in NativeOps /\ "ArrayList" \in Class /\ "ArrayList(int)" \in Member
      BY DEF NativeOps, Class, Cachable, Member
    <2>2. Step("list", "ArrayList", "ArrayList(int)") \in Seq(NativeStep(C))
      BY <2>1, StepIsNative
    <2>3. QED
      BY <2>2 DEF NewList
  <1>6. QED
    BY <1>1, <1>2, <1>3, <1>4, <1>5, EmptySeq

Native == NativeStep(Cachable)

\* They can be put in any order, left out, and repeated.
LEMMA NativeSteps ==
    /\ \A a, b \in Seq(Native) : a \o b \in Seq(Native)
    /\ \A b \in BOOLEAN, a \in Seq(Native) : If(b, a) \in Seq(Native)
    /\ \A f \in JniFunctions : Jni(f) \in Seq(Native)
    /\ \A c \in Cachable : JClass(c) \in Seq(Native)
    /\ \A c \in Cachable, m \in Member : Method(c, m) \in Seq(Native)
    /\ Throw \in Seq(Native) /\ NewList \in Seq(Native) /\ << >> \in Seq(Native)
  <1>1. Cachable \in SUBSET Class /\ Exceptions \subseteq Cachable
    BY DEF Class, Cachable, Exceptions
  <1>2. /\ \A f \in JniFunctions : Jni(f) \in Seq(Native)
        /\ \A c \in Cachable : JClass(c) \in Seq(Native)
        /\ \A c \in Cachable, m \in Member : Method(c, m) \in Seq(Native)
        /\ Throw \in Seq(Native) /\ NewList \in Seq(Native) /\ << >> \in Seq(Native)
    BY <1>1, StepKinds DEF Native
  <1>3. \A a, b \in Seq(Native) : a \o b \in Seq(Native)
    BY StepsJoin
  <1>4. \A b \in BOOLEAN, a \in Seq(Native) : If(b, a) \in Seq(Native)
    BY <1>2 DEF If
  <1>5. QED
    BY <1>2, <1>3, <1>4

\* A class is looked up, then its method, then it is called.
LEMMA CallSteps ==
    \A c \in Cachable, m \in Member :
        Static(c, m) \in Seq(Native) /\ Construct(c, m) \in Seq(Native)
  <1> SUFFICES ASSUME NEW c \in Cachable, NEW m \in Member
               PROVE  Static(c, m) \in Seq(Native) /\ Construct(c, m) \in Seq(Native)
    OBVIOUS
  <1>1. "CallStaticObjectMethod" \in JniFunctions /\ "NewObject" \in JniFunctions
    BY DEF JniFunctions
  <1>2. JClass(c) \o Method(c, m) \in Seq(Native)
    BY NativeSteps
  <1>3. /\ (JClass(c) \o Method(c, m)) \o Jni("CallStaticObjectMethod") \in Seq(Native)
        /\ (JClass(c) \o Method(c, m)) \o Jni("NewObject") \in Seq(Native)
    BY <1>1, <1>2, NativeSteps
  <1>4. QED
    BY <1>3 DEF Static, Construct

\* The conversion of one value.
LEMMA ValueSteps ==
    /\ Short \in Seq(Native) /\ Integer \in Seq(Native) /\ Long \in Seq(Native)
    /\ ConvertIPv4 \in Seq(Native)
    /\ \A scoped \in BOOLEAN : ConvertIPv6(scoped) \in Seq(Native)
    /\ ConvertMac \in Seq(Native)
  <1>1. {"Short", "Integer", "Long", "InetAddressHelper", "MacAddress"} \subseteq Cachable
    BY DEF Cachable
  <1>2. {"valueOf(short)", "valueOf(int)", "valueOf(long)", "getIPv4Address(byte[])",
         "getIPv6Address(byte[], Integer)", "MacAddress(...)"} \subseteq Member
    BY DEF Member
  <1>3. Jni("NewByteArray") \in Seq(Native) /\ Jni("NewStringUTF") \in Seq(Native)
    BY NativeSteps DEF JniFunctions
  <1>4. /\ Static("Short", "valueOf(short)") \in Seq(Native)
        /\ Static("Integer", "valueOf(int)") \in Seq(Native)
        /\ Static("Long", "valueOf(long)") \in Seq(Native)
        /\ Static("InetAddressHelper", "getIPv4Address(byte[])") \in Seq(Native)
        /\ Static("InetAddressHelper", "getIPv6Address(byte[], Integer)") \in Seq(Native)
        /\ Construct("MacAddress", "MacAddress(...)") \in Seq(Native)
    BY <1>1, <1>2, CallSteps
  <1>5. Short \in Seq(Native) /\ Integer \in Seq(Native) /\ Long \in Seq(Native)
    BY <1>4 DEF Short, Integer, Long
  <1>6. ConvertIPv4 \in Seq(Native)
    BY <1>3, <1>4, NativeSteps DEF ConvertIPv4
  <1>7. ASSUME NEW scoped \in BOOLEAN
        PROVE  ConvertIPv6(scoped) \in Seq(Native)
    <2>1. If(scoped, Integer) \in Seq(Native)
      BY <1>5, NativeSteps
    <2>2. Jni("NewByteArray") \o If(scoped, Integer) \in Seq(Native)
      BY <1>3, <2>1, NativeSteps
    <2>3. QED
      BY <1>4, <2>2, NativeSteps DEF ConvertIPv6
  <1>8. ConvertMac \in Seq(Native)
    <2>1. Jni("NewStringUTF") \o Jni("NewByteArray") \in Seq(Native)
      BY <1>3, NativeSteps
    <2>2. QED
      BY <1>4, <2>1, NativeSteps DEF ConvertMac
  <1>9. QED
    BY <1>5, <1>6, <1>7, <1>8

\* The conversion of an address, with its prefix length and other end.
LEMMA AddressSteps ==
    ASSUME NEW address \in Seq(Native), NEW prefix \in BOOLEAN, NEW other \in BOOLEAN
    PROVE  ConvertAddress(address, prefix, other) \in Seq(Native)
  <1>1. /\ If(prefix, Short) \in Seq(Native) /\ If(other, address) \in Seq(Native)
        /\ Construct("InterfaceIPAddress", "InterfaceIPAddress(...)") \in Seq(Native)
    BY CallSteps, ValueSteps, NativeSteps DEF Cachable, Member
  <1>2. address \o If(prefix, Short) \in Seq(Native)
    BY <1>1, NativeSteps
  <1>3. (address \o If(prefix, Short)) \o If(other, address) \in Seq(Native)
    BY <1>1, <1>2, NativeSteps
  <1>4. QED
    BY <1>1, <1>3, NativeSteps DEF ConvertAddress

\* An element of a list.
LEMMA AddSteps ==
    ASSUME NEW s \in Seq(Native)
    PROVE  Add(s) \in Seq(Native)
  BY NativeSteps DEF Add, JniFunctions

\* The conversion of an interface, and of the list of one.
LEMMA InterfaceSteps ==
    ASSUME NEW s \in Shapes
    PROVE  ConvertInterface(s) \in Seq(Native) /\ GetInterfacesList(s) \in Seq(Native)
  <1>0. /\ s.mtu \in BOOLEAN /\ s.mac \in BOOLEAN /\ s.ipv4 \in BOOLEAN /\ s.ipv6 \in BOOLEAN
        /\ s.scoped \in BOOLEAN
    BY JniAssumption
  <1> DEFINE v4 == Add(ConvertAddress(ConvertIPv4, TRUE, TRUE))
             v6 == Add(ConvertAddress(ConvertIPv6(s.scoped), TRUE, FALSE))
  <1>1. v4 \in Seq(Native)
    BY AddSteps, AddressSteps, ValueSteps
  <1>2. v6 \in Seq(Native)
    <2>1. ConvertIPv6(s.scoped) \in Seq(Native)
      BY <1>0, ValueSteps
    <2>2. ConvertAddress(ConvertIPv6(s.scoped), TRUE, FALSE) \in Seq(Native)
      BY <2>1, AddressSteps
    <2>3. QED
      BY <2>2, AddSteps
  <1>3. /\ If(s.mtu, Long) \in Seq(Native) /\ If(s.mac, ConvertMac) \in Seq(Native)
        /\ If(s.ipv4, v4) \in Seq(Native) /\ If(s.ipv6, v6) \in Seq(Native)
    <2> HIDE DEF v4, v6
    <2>1. QED
      BY <1>0, <1>1, <1>2, ValueSteps, NativeSteps
  <1>4. /\ Jni("NewStringUTF") \in Seq(Native)
        /\ Construct("Interface", "Interface(...)") \in Seq(Native)
    BY CallSteps, NativeSteps DEF Cachable, Member, JniFunctions
  <1> HIDE DEF v4, v6
  <1>5. Jni("NewStringUTF") \o If(s.mtu, Long) \in Seq(Native)
    BY <1>3, <1>4, NativeSteps
  <1>6. Jni("NewStringUTF") \o If(s.mtu, Long) \o If(s.mac, ConvertMac) \in Seq(Native)
    BY <1>3, <1>5, NativeSteps
  <1>7. Jni("NewStringUTF") \o If(s.mtu, Long) \o If(s.mac, ConvertMac) \o NewList
            \in Seq(Native)
    BY <1>6, NativeSteps
  <1>8. Jni("NewStringUTF") \o If(s.mtu, Long) \o If(s.mac, ConvertMac) \o NewList \o NewList
            \in Seq(Native)
    BY <1>7, NativeSteps
  <1>9. Jni("NewStringUTF") \o If(s.mtu, Long) \o If(s.mac, ConvertMac) \o NewList \o NewList
            \o If(s.ipv4, v4) \in Seq(Native)
    BY <1>3, <1>8, NativeSteps
  <1>10. Jni("NewStringUTF") \o If(s.mtu, Long) \o If(s.mac, ConvertMac) \o NewList \o NewList
            \o If(s.ipv4, v4) \o If(s.ipv6, v6) \in Seq(Native)
    BY <1>3, <1>9, NativeSteps
  <1>11. ConvertInterface(s) \in Seq(Native)
    BY <1>4, <1>10, NativeSteps DEF ConvertInterface, v4, v6
  <1>12. GetInterfacesList(s) \in Seq(Native)
    <2>1. Add(ConvertInterface(s)) \in Seq(Native)
      BY <1>11, AddSteps
    <2>2. QED
      BY <2>1, NativeSteps DEF GetInterfacesList
  <1>13. QED
    BY <1>11, <1>12

LEMMA SeqMonotone ==
    ASSUME NEW A, NEW B, A \subseteq B, NEW s \in Seq(A)
    PROVE  s \in Seq(B)
  <1>1. Len(s) \in Nat /\ s \in [1..Len(s) -> A]
    BY LenProperties
  <1>2. s \in [1..Len(s) -> B]
    BY <1>1
  <1>3. QED
    BY <1>1, <1>2, FunctionIsSeq

\* Use(c), with what comes after it.
LEMMA UseSteps ==
    ASSUME NEW C \in SUBSET Class, NEW c \in C, NEW s \in Seq(Native),
           c \in Enums => s = << >>
    PROVE  Using(Use(c) \o s, C) /\ Use(c) \o s \in Seq(StepSet)
  <1>1. PICK x : x = [op |-> "use", class |-> c, member |-> ""]
    OBVIOUS
  <1>2. x \in StepSet /\ x.op = "use" /\ x.class = c
    BY <1>1 DEF StepSet, Ops
  <1>3. Native \subseteq StepSet
    BY DEF Native, NativeStep
  <1>4. s \in Seq(StepSet)
    BY <1>3, SeqMonotone
  <1>5. /\ <<x>> \o s \in Seq(StepSet) /\ <<x>> \o s # << >>
        /\ Head(<<x>> \o s) = x /\ Tail(<<x>> \o s) = s
    BY <1>2, <1>4, ConsProperties
  <1>6. Using(<<x>> \o s, C)
    BY <1>2, <1>5 DEF Using, Native
  <1>7. Use(c) = <<x>>
    BY <1>1 DEF Use, Step
  <1>8. QED
    BY <1>5, <1>6, <1>7

\* The same with nothing after it.
LEMMA UseAlone ==
    ASSUME NEW C \in SUBSET Class, NEW c \in C
    PROVE  Using(Use(c), C) /\ Use(c) \in Seq(StepSet)
  <1>1. PICK x : x = [op |-> "use", class |-> c, member |-> ""]
    OBVIOUS
  <1>2. x \in StepSet /\ x.op = "use" /\ x.class = c
    BY <1>1 DEF StepSet, Ops
  <1>3. /\ <<x>> \in Seq(StepSet) /\ <<x>> # << >>
        /\ Head(<<x>>) = x /\ Tail(<<x>>) = << >>
    BY <1>2
  <1>4. << >> \in Seq(Native)
    BY NativeSteps
  <1>5. Using(<<x>>, C)
    BY <1>2, <1>3, <1>4 DEF Using, Native
  <1>6. Use(c) = <<x>>
    BY <1>1 DEF Use, Step
  <1>7. QED
    BY <1>3, <1>5, <1>6

\* What a client calls.
LEMMA ProgramShape ==
    ASSUME NEW p \in Programs
    PROVE  Using(p, Guarded \union Enums) /\ p \in Seq(StepSet)
  <1> DEFINE C == Guarded \union Enums
  <1>1. C \in SUBSET Class
    BY DEF Class
  <1>2. /\ {"VersionInfo", "MacAddress", "Samples", "InterfaceBrowser"} \subseteq C
        /\ {"InterfaceFlag", "InterfaceIPAddressFlag"} \subseteq C
        /\ \A c \in {"VersionInfo", "MacAddress", "Samples", "InterfaceBrowser"} : c \notin Enums
    BY DEF Guarded, Enums
  <1> HIDE DEF C
  <1>3. ASSUME NEW c \in {"VersionInfo", "MacAddress", "Samples", "InterfaceBrowser"},
               NEW s \in Seq(Native)
        PROVE  Using(Use(c) \o s, C) /\ Use(c) \o s \in Seq(StepSet)
    BY <1>1, <1>2, UseSteps
  <1>4. CASE p = Use("VersionInfo") \o Jni("NewStringUTF")
    BY <1>3, <1>4, NativeSteps DEF JniFunctions, C
  <1>5. CASE p = Use("InterfaceFlag") \/ p = Use("InterfaceIPAddressFlag")
    BY <1>1, <1>2, <1>5, UseAlone DEF C
  <1>6. CASE \E valid \in BOOLEAN : p = Use("MacAddress") \o GetDataFromRepr(valid)
    <2>1. PICK valid \in BOOLEAN : p = Use("MacAddress") \o GetDataFromRepr(valid)
      BY <1>6
    <2>2. Jni("GetStringUTFChars") \in Seq(Native) /\ Jni("NewByteArray") \in Seq(Native)
      BY NativeSteps DEF JniFunctions
    <2>3. Refuse("IllegalArgumentException") \in Seq(Native)
      BY NativeSteps DEF Refuse, Cachable
    <2>4. GetDataFromRepr(valid) \in Seq(Native)
      BY <2>2, <2>3, NativeSteps DEF GetDataFromRepr
    <2>5. QED
      BY <1>3, <2>1, <2>4 DEF C
  <1>7. CASE \E s \in Shapes : p = Use("Samples") \o ConvertInterface(s)
    BY <1>3, <1>7, InterfaceSteps DEF C
  <1>8. CASE \E s \in Shapes : p = Use("InterfaceBrowser") \o GetInterfacesList(s)
    BY <1>3, <1>8, InterfaceSteps DEF C
  <1>9. QED
    BY <1>4, <1>5, <1>6, <1>7, <1>8 DEF Programs

\* What a static initializer does.
LEMMA InitializerShape ==
    ASSUME NEW c \in Class, NEW s \in Initializers(c)
    PROVE  /\ s \in Seq(StepSet)
           /\ c \in Enums => Using(s, {"EnumConstantsHelper"})
           /\ c = "Loader" => s = ToFind
           /\ c \in Guarded => s = GuardedBy("Loader")
           /\ c \in Cachable \ Guarded => s = << >>
  <1>1. /\ "Loader" \notin Guarded /\ "Loader" \notin Enums /\ "Loader" \notin Cachable
        /\ Guarded \intersect Enums = {} /\ Enums \intersect Cachable = {}
    BY DEF Guarded, Enums, Cachable
  <1>2. ToFind \in Seq(StepSet) /\ GuardedBy("Loader") \in Seq(StepSet) /\ << >> \in Seq(StepSet)
    <2>1. \A o \in {"find", "load", "loaded", "use", "check"} :
              [op |-> o, class |-> "Loader", member |-> ""] \in StepSet
      BY DEF StepSet, Ops, Class
    <2>2. \A o \in {"find", "load", "loaded", "use", "check"} :
              Step(o, "Loader", "") \in Seq(StepSet)
      BY <2>1, OneElement DEF Step
    <2>3. Step("find", "Loader", "") \o Step("load", "Loader", "") \in Seq(StepSet)
      BY <2>2, StepsJoin
    <2>4. ToFind \in Seq(StepSet)
      BY <2>2, <2>3, StepsJoin DEF ToFind
    <2>5. Use("Loader") \in Seq(StepSet) /\ Step("check", "Loader", "") \in Seq(StepSet)
      BY <2>2 DEF Use
    <2>6. GuardedBy("Loader") \in Seq(StepSet)
      BY <2>5, StepsJoin DEF GuardedBy
    <2>7. QED
      BY <2>4, <2>6, EmptySeq
  <1>3. CASE c = "Loader"
    BY <1>1, <1>2, <1>3 DEF Initializers, ToFind
  <1>4. CASE c \in Guarded
    BY <1>1, <1>2, <1>4 DEF Initializers
  <1>5. CASE c \in Enums
    <2> DEFINE e == "EnumConstantsHelper"
    <2>1. e \in Class /\ e \notin Enums /\ {e} \in SUBSET Class
      BY DEF Class, Guarded, Enums
    <2>2. Jni("GetStringUTFChars") \in Seq(Native)
      BY NativeSteps DEF JniFunctions
    <2>3. /\ Refuse("EnumConstantNotPresentException") \in Seq(Native)
          /\ << >> \in Seq(Native)
      BY NativeSteps DEF Refuse, Cachable
    <2>4. \/ s = Use(e) \o Jni("GetStringUTFChars")
          \/ \E odd \in {<< >>, Refuse("EnumConstantNotPresentException")} :
                s = (Use(e) \o Jni("GetStringUTFChars")) \o odd
      BY <1>1, <1>5 DEF Initializers, Enums
    <2>5. CASE s = Use(e) \o Jni("GetStringUTFChars")
      BY <1>1, <1>5, <2>1, <2>2, <2>5, UseSteps
    <2>6. CASE \E odd \in {<< >>, Refuse("EnumConstantNotPresentException")} :
                s = (Use(e) \o Jni("GetStringUTFChars")) \o odd
      <3>1. PICK odd \in Seq(Native) : s = (Use(e) \o Jni("GetStringUTFChars")) \o odd
        BY <2>3, <2>6
      <3>2. (Use(e) \o Jni("GetStringUTFChars")) \o odd = Use(e) \o (Jni("GetStringUTFChars") \o odd)
        <4>1. Use(e) \in Seq(StepSet)
          BY <2>1, UseAlone
        <4>2. Native \subseteq StepSet
          BY DEF Native, NativeStep
        <4>3. Jni("GetStringUTFChars") \in Seq(StepSet) /\ odd \in Seq(StepSet)
          BY <2>2, <4>2, SeqMonotone
        <4>4. QED
          BY <4>1, <4>3, ConcatAssociative
      <3>3. Jni("GetStringUTFChars") \o odd \in Seq(Native)
        BY <2>2, NativeSteps
      <3>4. QED
        BY <1>1, <1>5, <2>1, <3>1, <3>2, <3>3, UseSteps
    <2>7. QED
      BY <2>4, <2>5, <2>6
  <1>6. CASE c \in Cachable \ Guarded
    BY <1>1, <1>2, <1>6 DEF Initializers, Enums
  <1>7. QED
    BY <1>3, <1>4, <1>5, <1>6 DEF Class

\* What the construction of a list does.
LEMMA ListShape ==
    ASSUME NEW m \in Member
    PROVE  /\ ListSteps(m) \in Seq(NativeStep({"ArrayList"}))
           /\ ListSteps(m) \in Seq(StepSet)
  <1> DEFINE L == NativeStep({"ArrayList"})
  <1>1. {"ArrayList"} \in SUBSET Class /\ "ArrayList" \in Cachable /\ "add(Object)" \in Member
        /\ "NewObject" \in JniFunctions
    BY DEF Class, Cachable, Member, JniFunctions
  <1>2. /\ JClass("ArrayList") \in Seq(L) /\ Method("ArrayList", "add(Object)") \in Seq(L)
        /\ Method("ArrayList", m) \in Seq(L) /\ Jni("NewObject") \in Seq(L)
    BY <1>1, StepKinds
  <1>3. L \subseteq StepSet
    BY DEF NativeStep
  <1> HIDE DEF L
  <1>4. JClass("ArrayList") \o Method("ArrayList", "add(Object)") \in Seq(L)
    BY <1>2, StepsJoin
  <1>5. JClass("ArrayList") \o Method("ArrayList", "add(Object)") \o Method("ArrayList", m) \in Seq(L)
    BY <1>2, <1>4, StepsJoin
  <1>6. ListSteps(m) \in Seq(L)
    BY <1>2, <1>5, StepsJoin DEF ListSteps
  <1>7. ListSteps(m) \in Seq(StepSet)
    BY <1>3, <1>6, SeqMonotone
  <1>8. QED
    BY <1>6, <1>7 DEF L

-----------------------------------------------------------------------------
(* What remains of a frame's method, from its next step. *)

\* The initializers of the loader and of the classes that need it.
LEMMA LoaderSteps ==
    /\ ToFind # << >> /\ Head(ToFind).op = "find" /\ Tail(ToFind) = ToLoad
    /\ ToLoad # << >> /\ Head(ToLoad).op = "load" /\ Tail(ToLoad) = ToFinish
    /\ ToFinish # << >> /\ Head(ToFinish).op = "loaded" /\ Tail(ToFinish) = << >>
    /\ ToCheck # << >> /\ Head(ToCheck).op = "check" /\ Tail(ToCheck) = << >>
    /\ GuardedBy("Loader") # << >>
    /\ Head(GuardedBy("Loader")).op = "use" /\ Head(GuardedBy("Loader")).class = "Loader"
    /\ Tail(GuardedBy("Loader")) = ToCheck
    /\ {ToFind, ToLoad, ToFinish, ToCheck, GuardedBy("Loader"), << >>} \subseteq Seq(StepSet)
  <1> DEFINE x(o) == [op |-> o, class |-> "Loader", member |-> ""]
             O == {"find", "load", "loaded", "use", "check"}
  <1>1. \A o \in O : x(o) \in StepSet
    BY DEF StepSet, Ops, Class
  <1>2. \A o \in O : Step(o, "Loader", "") = <<x(o)>>
    BY DEF Step
  <1>3. \A o \in O : x(o).op = o /\ x(o).class = "Loader"
    OBVIOUS
  <1> HIDE DEF x
  <1>4. ASSUME NEW o \in O
        PROVE  /\ <<x(o)>> \in Seq(StepSet) /\ <<x(o)>> # << >>
               /\ Head(<<x(o)>>) = x(o) /\ Tail(<<x(o)>>) = << >>
    BY <1>1
  <1>5. ASSUME NEW o \in O, NEW s \in Seq(StepSet)
        PROVE  /\ <<x(o)>> \o s \in Seq(StepSet) /\ <<x(o)>> \o s # << >>
               /\ Head(<<x(o)>> \o s) = x(o) /\ Tail(<<x(o)>> \o s) = s
    BY <1>1, ConsProperties
  <1>6. ToFinish = <<x("loaded")>> /\ ToCheck = <<x("check")>>
    BY <1>2 DEF ToFinish, ToCheck
  <1>7. ToLoad = <<x("load")>> \o ToFinish
    BY <1>2, <1>6 DEF ToLoad, ToFinish
  <1>8. ToFind = <<x("find")>> \o ToLoad
    <2>1. (<<x("find")>> \o <<x("load")>>) \o <<x("loaded")>>
              = <<x("find")>> \o (<<x("load")>> \o <<x("loaded")>>)
      BY <1>4, ConcatAssociative
    <2>2. ToFind = (<<x("find")>> \o <<x("load")>>) \o <<x("loaded")>>
      BY <1>2 DEF ToFind
    <2>3. QED
      BY <1>6, <1>7, <2>1, <2>2
  <1>9. GuardedBy("Loader") = <<x("use")>> \o ToCheck
    BY <1>2, <1>6 DEF GuardedBy, Use, ToCheck
  <1>10. /\ ToFinish \in Seq(StepSet) /\ ToFinish # << >>
         /\ Head(ToFinish) = x("loaded") /\ Tail(ToFinish) = << >>
         /\ ToCheck \in Seq(StepSet) /\ ToCheck # << >>
         /\ Head(ToCheck) = x("check") /\ Tail(ToCheck) = << >>
    BY <1>4, <1>6
  <1>11. /\ ToLoad \in Seq(StepSet) /\ ToLoad # << >>
         /\ Head(ToLoad) = x("load") /\ Tail(ToLoad) = ToFinish
    BY <1>5, <1>7, <1>10
  <1>12. /\ ToFind \in Seq(StepSet) /\ ToFind # << >>
         /\ Head(ToFind) = x("find") /\ Tail(ToFind) = ToLoad
    BY <1>5, <1>8, <1>11
  <1>13. /\ GuardedBy("Loader") \in Seq(StepSet) /\ GuardedBy("Loader") # << >>
         /\ Head(GuardedBy("Loader")) = x("use") /\ Tail(GuardedBy("Loader")) = ToCheck
    BY <1>5, <1>9, <1>10
  <1>14. << >> \in Seq(StepSet)
    BY EmptySeq
  <1>15. QED
    BY <1>3, <1>10, <1>11, <1>12, <1>13, <1>14

\* A native method that looks up fewer classes.
LEMMA BodyMonotone ==
    ASSUME NEW C, NEW s, C \subseteq Cachable
    PROVE  /\ s \in Seq(NativeStep(C)) => s \in Seq(Native)
           /\ Body(s, C) => Body(s, Cachable)
           /\ Storing(s, C) => Storing(s, Cachable)
           /\ Finding(s, C) => Finding(s, Cachable)
  <1>1. NativeStep(C) \subseteq Native
    BY DEF Native, NativeStep
  <1>2. \A u : u \in Seq(NativeStep(C)) => u \in Seq(Native)
    BY <1>1, SeqMonotone
  <1>3. \A u : Storing(u, C) => Storing(u, Cachable)
    BY <1>2 DEF Storing, Native
  <1>4. Finding(s, C) => Finding(s, Cachable)
    BY <1>3 DEF Finding
  <1>5. QED
    BY <1>2, <1>3, <1>4 DEF Body, Native

\* Which steps a native method may be at.
LEMMA BodyHead ==
    ASSUME NEW C, NEW s, Body(s, C), s # << >>
    PROVE  /\ \/ s \in Seq(NativeStep(C)) /\ Head(s) \in NativeStep(C) /\ Head(s).op \in NativeOps
              \/ Storing(s, C) /\ Head(s).op = "store"
              \/ Finding(s, C) /\ Head(s).op = "use"
           /\ Storing(s, C) => Head(s).op = "store"
           /\ Finding(s, C) => Head(s).op = "use"
  <1>1. s \in Seq(NativeStep(C)) => Head(s) \in NativeStep(C) /\ Head(s).op \in NativeOps
    BY HeadTail DEF NativeStep
  <1>2. QED
    BY <1>1 DEF Body, Storing, Finding

\* What Java does before native code is no part of it.
LEMMA UsingIsNotBody ==
    ASSUME NEW C, NEW D, NEW s, Using(s, C)
    PROVE  ~Body(s, D) /\ ~Caching(s)
  <1>1. ASSUME NEW E
        PROVE  ~Body(s, E)
    <2>1. s # << >> /\ Head(s).op = "use" /\ Tail(s) \in Seq(Native)
      BY DEF Using, Native
    <2>2. "use" \notin NativeOps /\ "store" \notin NativeOps /\ "use" # "store"
      BY DEF NativeOps
    <2>3. ASSUME Finding(s, E)
          PROVE  FALSE
      <3>1. Tail(s) # << >> /\ Head(Tail(s)).op = "store"
        BY <2>3 DEF Finding, Storing
      <3>2. Head(Tail(s)) \in Native
        BY <2>1, <3>1, HeadTail
      <3>3. QED
        BY <2>2, <3>1, <3>2 DEF Native, NativeStep
    <2>4. QED
      BY <2>1, <2>2, <2>3, BodyHead
  <1>2. QED
    BY <1>1 DEF Caching, Body

\* The loader's steps are no part of native code either.
LEMMA LoaderIsNotBody ==
    ASSUME NEW D, NEW s \in {ToFind, ToLoad, ToFinish, ToCheck, GuardedBy("Loader")}
    PROVE  ~Body(s, D) /\ ~Caching(s)
  <1>1. ASSUME NEW E, Body(s, E)
        PROVE  FALSE
    <2>1. s # << >>
      BY LoaderSteps
    <2>2. Head(s).op \in NativeOps \union {"store"} \/ Finding(s, E)
      BY <1>1, <2>1, BodyHead
    <2>3. s # GuardedBy("Loader")
      <3>1. ASSUME s = GuardedBy("Loader"), Finding(s, E)
            PROVE  FALSE
        <4>1. Head(Tail(s)).op = "store"
          BY <3>1 DEF Finding, Storing
        <4>2. QED
          BY <3>1, <4>1, LoaderSteps
      <3>2. QED
        BY <2>2, <3>1, LoaderSteps DEF NativeOps
    <2>4. Head(s).op \in {"find", "load", "loaded", "check"}
      BY <2>3, LoaderSteps
    <2>5. QED
      BY <2>2, <2>4 DEF NativeOps, Finding
  <1>2. QED
    BY <1>1 DEF Caching, Body

-----------------------------------------------------------------------------
(* Frames. *)

\* Frames of native methods, and the classes that they look up.
Methods  == {"", "list"} \union Enums
Looks(f) == IF f.class = "list" THEN {"ArrayList"} ELSE Cachable

LEMMA ClassesApart ==
    /\ "Loader" \notin Methods \union Guarded \union Cachable
    /\ Guarded \intersect Methods = {}
    /\ Cachable \intersect Methods = {}
    /\ "" \notin Class /\ "list" \notin Class
    /\ "Loader" \in Class /\ Guarded \subseteq Class /\ Enums \subseteq Class
    /\ Cachable \subseteq Class
    /\ "ArrayList" \in Cachable \ Guarded
    /\ Class \union {"", "list"} = {"Loader"} \union Methods \union Guarded \union (Cachable \ Guarded)
  <1>1. /\ "Loader" \notin Methods \union Guarded \union Cachable
        /\ Guarded \intersect Methods = {}
        /\ Cachable \intersect Methods = {}
    BY DEF Methods, Guarded, Enums, Cachable
  <1>2. "" \notin Class /\ "list" \notin Class
    BY DEF Class, Guarded, Enums, Cachable
  <1>3. "ArrayList" \in Cachable \ Guarded
    BY DEF Guarded, Cachable
  <1>4. QED
    BY <1>1, <1>2, <1>3 DEF Class, Methods

LEMMA LooksType ==
    ASSUME NEW f
    PROVE  Looks(f) \subseteq Cachable
  BY ClassesApart DEF Looks

\* A frame at a step of native code is one of a native method.
LEMMA NativeFrame ==
    ASSUME NEW f \in FrameSet, NEW d, FrameShape(f, d), f.steps # << >>,
           Head(f.steps).op \in NativeOps \union {"store"}
    PROVE  f.class \in Methods /\ Body(f.steps, Looks(f))
  <1>1. "use" \notin NativeOps \union {"store"}
    BY DEF NativeOps
  <1>2. \A C : ~Using(f.steps, C)
    BY <1>1 DEF Using
  <1>3. f.class \in Class \union {"", "list"}
    BY DEF FrameSet
  <1>4. f.class # "Loader"
    BY LoaderSteps DEF FrameShape, NativeOps
  <1>5. f.class \notin Guarded
    BY <1>1, LoaderSteps DEF FrameShape, NativeOps
  <1>6. f.class \notin Cachable \ Guarded
    BY DEF FrameShape
  <1>7. f.class \in Methods
    BY <1>3, <1>4, <1>5, <1>6, ClassesApart
  <1>8. QED
    BY <1>2, <1>7 DEF FrameShape, Methods, Looks, Enums

\* It stays one.
LEMMA NativeFrameStays ==
    ASSUME NEW f \in FrameSet, NEW d, FrameShape(f, d), f.class \in Methods,
           NEW x, Body(x, Looks(f))
    PROVE  FrameShape(Frame(f.class, x), d)
  <1>1. PICK n : n = Frame(f.class, x)
    OBVIOUS
  <1>2. n.class = f.class /\ n.steps = x
    BY <1>1 DEF Frame
  <1>3. n.class \notin Guarded /\ n.class \notin Cachable /\ n.class # "Loader"
    BY <1>2, ClassesApart
  <1> SUFFICES FrameShape(n, d)
    BY <1>1
  <1>4. CASE f.class = ""
    BY <1>2, <1>3, <1>4 DEF FrameShape, Looks, Enums
  <1>5. CASE f.class = "list"
    BY <1>2, <1>3, <1>5 DEF FrameShape, Looks, Enums
  <1>6. CASE f.class \in Enums
    BY <1>2, <1>3, <1>6 DEF FrameShape, Looks, Enums
  <1>7. QED
    BY <1>4, <1>5, <1>6 DEF Methods

\* A frame that uses a class does it to look it up, or on behalf of Java.
LEMMA UsingFrame ==
    ASSUME NEW f \in FrameSet, NEW d, FrameShape(f, d), f.steps # << >>,
           Head(f.steps).op = "use"
    PROVE  \/ f.class \in Methods /\ Finding(f.steps, Looks(f))
           \/ f.class = "" /\ d = 1 /\ Using(f.steps, Guarded \union Enums)
           \/ f.class \in Enums /\ d = 2 /\ Using(f.steps, {"EnumConstantsHelper"})
           \/ f.class \in Guarded /\ f.steps = GuardedBy("Loader")
  <1>1. \A C : Body(f.steps, C) => Finding(f.steps, C)
    BY BodyHead DEF NativeOps, Storing
  <1>2. f.class \in Class \union {"", "list"}
    BY DEF FrameSet
  <1>3. f.class # "Loader"
    BY LoaderSteps DEF FrameShape
  <1>4. f.class \notin Cachable \ Guarded
    BY DEF FrameShape
  <1>5. CASE f.class = ""
    BY <1>1, <1>5 DEF FrameShape, Looks, Methods
  <1>6. CASE f.class = "list"
    BY <1>1, <1>6 DEF FrameShape, Looks, Methods
  <1>7. CASE f.class \in Enums
    BY <1>1, <1>7 DEF FrameShape, Looks, Methods, Enums
  <1>8. CASE f.class \in Guarded
    BY <1>8, LoaderSteps DEF FrameShape
  <1>9. QED
    BY <1>2, <1>3, <1>4, <1>5, <1>6, <1>7, <1>8, ClassesApart DEF Methods

\* Only the loader is at the steps of its initializer, and only the classes that
\* need it check it.
LEMMA LoaderFrame ==
    ASSUME NEW f \in FrameSet, NEW d, FrameShape(f, d), f.steps # << >>
    PROVE  /\ Head(f.steps).op = "find" => f.class = "Loader" /\ f.steps = ToFind
           /\ Head(f.steps).op = "load" => f.class = "Loader" /\ f.steps = ToLoad
           /\ Head(f.steps).op = "loaded" => f.class = "Loader" /\ f.steps = ToFinish
           /\ Head(f.steps).op = "check" => f.class \in Guarded /\ f.steps = ToCheck
  <1> SUFFICES ASSUME Head(f.steps).op \in {"find", "load", "loaded", "check"}
               PROVE  /\ Head(f.steps).op = "find" => f.class = "Loader" /\ f.steps = ToFind
                      /\ Head(f.steps).op = "load" => f.class = "Loader" /\ f.steps = ToLoad
                      /\ Head(f.steps).op = "loaded" => f.class = "Loader" /\ f.steps = ToFinish
                      /\ Head(f.steps).op = "check" => f.class \in Guarded /\ f.steps = ToCheck
    OBVIOUS
  <1>1. \A C : ~Using(f.steps, C)
    BY DEF Using
  <1>2. \A C : ~Body(f.steps, C)
    BY BodyHead DEF NativeOps
  <1>3. f.class \notin Methods
    BY <1>1, <1>2 DEF FrameShape, Methods
  <1>4. f.class \in Class \union {"", "list"}
    BY DEF FrameSet
  <1>5. f.class \notin Cachable \ Guarded
    BY DEF FrameShape
  <1>6. f.class = "Loader" \/ f.class \in Guarded
    BY <1>3, <1>4, <1>5, ClassesApart
  <1>7. f.class = "Loader" => f.steps \in {ToFind, ToLoad, ToFinish}
    BY DEF FrameShape
  <1>8. f.class \in Guarded => f.steps \in {GuardedBy("Loader"), ToCheck}
    BY DEF FrameShape
  <1>9. QED
    BY <1>6, <1>7, <1>8, LoaderSteps

\* A frame that ends is still what it was.
LEMMA EndedFrame ==
    ASSUME NEW f \in FrameSet, NEW d, FrameShape(f, d)
    PROVE  FrameShape(Frame(f.class, << >>), d) /\ ~Caching(<< >>)
  <1>1. PICK n : n = Frame(f.class, << >>)
    OBVIOUS
  <1>2. n.class = f.class /\ n.steps = << >>
    BY <1>1 DEF Frame
  <1>3. \A C : Body(<< >>, C)
    BY EmptySeq DEF Body
  <1>4. FrameShape(n, d)
    BY <1>2, <1>3 DEF FrameShape
  <1>5. QED
    BY <1>1, <1>4 DEF Caching, Storing, Finding

-----------------------------------------------------------------------------
(* What the steps of a thread do to the stacks. *)

\* What a frame f of thread t needs from a step from g to h.
Stable(f, t, g, h) ==
    /\ f.class \in Class /\ g.classes[f.class] = t => h.classes[f.class] = t
    /\ g.classes["Loader"] \in {t, "failed"} => h.LOADED \/ h.classes["Loader"] \in {t, "failed"}
    /\ g.LOADED => h.LOADED
    /\ Caching(f.steps) => h.mutex = g.mutex /\ h.cache = g.cache
    /\ f.class = "Loader" => /\ h.file = g.file /\ h.library = g.library
                             /\ h.cache = None <=> g.cache = None
    /\ g.pending[t] => h.pending[t]

LEMMA FrameKept ==
    ASSUME NEW f, NEW t, NEW g, NEW h, FrameState(f, t, g), Stable(f, t, g, h)
    PROVE  FrameState(f, t, h)
  <1>1. f.class \in Class => h.classes[f.class] = t
    BY DEF FrameState, Stable
  <1>2. Body(f.steps, Cachable) /\ f.steps # << >> => h.LOADED
    BY DEF FrameState, Stable
  <1>3. Caching(f.steps) => h.mutex = t /\ Head(f.steps).class \notin h.cache.classes
    BY DEF FrameState, Stable
  <1>4. f.class = "Loader" =>
          /\ f.steps \in {ToFind, ToLoad} => h.library = NoFile /\ h.cache = None
          /\ f.steps \in {ToLoad, ToFinish} => h.file # NoFile
          /\ f.steps = ToFinish => h.library # NoFile /\ h.cache # None
          /\ f.steps = << >> => h.LOADED \/ h.pending[t]
    BY DEF FrameState, Stable
  <1>5. f.class \in Guarded =>
          /\ f.steps = ToCheck => h.LOADED \/ h.classes["Loader"] \in {t, "failed"}
          /\ f.steps = << >> => h.LOADED \/ h.pending[t]
    BY DEF FrameState, Stable
  <1>6. QED
    BY <1>1, <1>2, <1>3, <1>4, <1>5 DEF FrameState

\* The top frame goes on.
LEMMA Replaced ==
    ASSUME NEW t, NEW g, NEW h, NEW s, StackOK(s, t, g), s # << >>,
           NEW x \in Seq(StepSet), NEW n, n = Frame(s[Len(s)].class, x),
           FrameShape(n, Len(s)), FrameState(n, t, h),
           \A d \in 1..Len(s) - 1 : Stable(s[d], t, g, h),
           Caching(x) => \A d \in 1..Len(s) - 1 : ~Caching(s[d].steps),
           \A c \in Class : h.classes[c] = t => g.classes[c] = t
    PROVE  StackOK([s EXCEPT ![Len(s)] = n], t, h)
  <1>1. /\ s \in Seq(FrameSet) /\ Len(s) \in Nat /\ Len(s) \in 1..Len(s)
        /\ n.class = s[Len(s)].class /\ n.steps = x
    <2>1. s \in Seq(FrameSet) /\ n.class = s[Len(s)].class /\ n.steps = x
      BY DEF StackOK, Frame
    <2>2. QED
      BY <2>1, EmptySeq, LenProperties
  <1>2. n \in FrameSet
    <2>1. s[Len(s)] \in FrameSet
      BY <1>1, ElementOfSeq
    <2>2. QED
      BY <2>1 DEF FrameSet, Frame
  <1>3. PICK r : r = [s EXCEPT ![Len(s)] = n]
    OBVIOUS
  <1>4. /\ r \in Seq(FrameSet) /\ Len(r) = Len(s)
        /\ \A i \in 1..Len(s) - 1 : r[i] = s[i]
        /\ r[Len(s)] = n
    BY <1>1, <1>2, <1>3, ReplaceLemma
  <1>5. \A d \in 1..Len(r) : r[d].class = s[d].class
    BY <1>1, <1>4
  <1>6. ASSUME NEW d \in 1..Len(r)
        PROVE  FrameShape(r[d], d) /\ FrameState(r[d], t, h)
    <2>1. CASE d = Len(s)
      BY <1>4, <2>1
    <2>2. CASE d # Len(s)
      <3>1. d \in 1..Len(s) - 1 /\ r[d] = s[d]
        BY <1>1, <1>4, <2>2
      <3>2. FrameShape(s[d], d) /\ FrameState(s[d], t, g)
        BY <1>1, <3>1 DEF StackOK
      <3>3. FrameState(s[d], t, h)
        BY <3>1, <3>2, FrameKept
      <3>4. QED
        BY <3>1, <3>2, <3>3
    <2>3. QED
      BY <2>1, <2>2
  <1>7. \A d, e \in 1..Len(r) : r[d].class \in Class /\ r[d].class = r[e].class => d = e
    BY <1>4, <1>5 DEF StackOK
  <1>8. ASSUME NEW d \in 1..Len(r), NEW e \in 1..Len(r), Caching(r[d].steps), Caching(r[e].steps)
        PROVE  d = e
    <2>1. CASE d = Len(s) \/ e = Len(s)
      BY <1>1, <1>4, <1>8, <2>1
    <2>2. CASE d # Len(s) /\ e # Len(s)
      BY <1>1, <1>4, <1>8, <2>2 DEF StackOK
    <2>3. QED
      BY <2>1, <2>2
  <1>9. ASSUME NEW d \in 1..Len(r), d + 1 \in 1..Len(r)
        PROVE  Above(r[d + 1], r[d])
    <2>1. r[d] = s[d] /\ r[d + 1].class = s[d + 1].class
      BY <1>1, <1>4, <1>5, <1>9
    <2>2. Above(s[d + 1], s[d])
      BY <1>4, <1>9 DEF StackOK
    <2>3. QED
      BY <2>1, <2>2 DEF Above
  <1>10. ASSUME NEW c \in Class, h.classes[c] = t
         PROVE  \E d \in 1..Len(r) : r[d].class = c
    BY <1>4, <1>5, <1>10 DEF StackOK
  <1>11. StackOK(r, t, h)
    BY <1>4, <1>6, <1>7, <1>8, <1>9, <1>10 DEF StackOK
  <1>12. QED
    BY <1>3, <1>11

\* A frame comes on top.
LEMMA Pushed ==
    ASSUME NEW t, NEW g, NEW h, NEW s, StackOK(s, t, g), NEW n \in FrameSet,
           FrameShape(n, Len(s) + 1), FrameState(n, t, h), ~Caching(n.steps),
           s # << >> => Above(n, s[Len(s)]),
           \A d \in 1..Len(s) : Stable(s[d], t, g, h),
           n.class \in Class => \A d \in 1..Len(s) : s[d].class # n.class,
           \A c \in Class : h.classes[c] = t => g.classes[c] = t \/ c = n.class
    PROVE  StackOK(Append(s, n), t, h)
  <1>1. s \in Seq(FrameSet) /\ Len(s) \in Nat /\ (Len(s) >= 1 => s # << >>)
    <2>1. s \in Seq(FrameSet)
      BY DEF StackOK
    <2>2. QED
      BY <2>1, EmptySeq, LenProperties
  <1>2. PICK r : r = Append(s, n)
    OBVIOUS
  <1>3. /\ r \in Seq(FrameSet) /\ Len(r) = Len(s) + 1
        /\ \A i \in 1..Len(s) : r[i] = s[i]
        /\ r[Len(s) + 1] = n
    BY <1>1, <1>2, PushLemma
  <1>4. \A d \in 1..Len(r) : d = Len(s) + 1 \/ d \in 1..Len(s)
    BY <1>1, <1>3
  <1>5. ASSUME NEW d \in 1..Len(r)
        PROVE  FrameShape(r[d], d) /\ FrameState(r[d], t, h)
    <2>1. CASE d = Len(s) + 1
      BY <1>3, <2>1
    <2>2. CASE d \in 1..Len(s)
      <3>1. FrameShape(s[d], d) /\ FrameState(s[d], t, g)
        BY <2>2 DEF StackOK
      <3>2. FrameState(s[d], t, h)
        BY <2>2, <3>1, FrameKept
      <3>3. QED
        BY <1>3, <2>2, <3>1, <3>2
    <2>3. QED
      BY <1>4, <2>1, <2>2
  <1>6. ASSUME NEW d \in 1..Len(r), NEW e \in 1..Len(r),
               r[d].class \in Class, r[d].class = r[e].class
        PROVE  d = e
    <2>1. CASE d \in 1..Len(s) /\ e \in 1..Len(s)
      BY <1>3, <1>6, <2>1 DEF StackOK
    <2>2. CASE d = Len(s) + 1 /\ e \in 1..Len(s)
      BY <1>3, <1>6, <2>2
    <2>3. CASE e = Len(s) + 1 /\ d \in 1..Len(s)
      BY <1>3, <1>6, <2>3
    <2>4. QED
      BY <1>4, <2>1, <2>2, <2>3
  <1>7. ASSUME NEW d \in 1..Len(r), NEW e \in 1..Len(r), Caching(r[d].steps), Caching(r[e].steps)
        PROVE  d = e
    <2>1. d \in 1..Len(s) /\ e \in 1..Len(s)
      BY <1>3, <1>4, <1>7
    <2>2. QED
      BY <1>3, <1>7, <2>1 DEF StackOK
  <1>8. ASSUME NEW d \in 1..Len(r), d + 1 \in 1..Len(r)
        PROVE  Above(r[d + 1], r[d])
    <2>1. d \in 1..Len(s)
      BY <1>1, <1>3, <1>8
    <2>2. CASE d = Len(s)
      BY <1>1, <1>3, <2>1, <2>2
    <2>3. CASE d # Len(s)
      <3>1. d + 1 \in 1..Len(s)
        BY <1>1, <2>1, <2>3
      <3>2. QED
        BY <1>3, <2>1, <3>1 DEF StackOK
    <2>4. QED
      BY <2>2, <2>3
  <1>9. ASSUME NEW c \in Class, h.classes[c] = t
        PROVE  \E d \in 1..Len(r) : r[d].class = c
    <2>1. CASE c = n.class
      BY <1>1, <1>3, <2>1
    <2>2. CASE c # n.class
      <3>1. PICK d \in 1..Len(s) : s[d].class = c
        BY <1>9, <2>2 DEF StackOK
      <3>2. d \in 1..Len(r)
        BY <1>1, <1>3
      <3>3. QED
        BY <1>3, <3>1, <3>2
    <2>3. QED
      BY <2>1, <2>2
  <1>10. StackOK(r, t, h)
    BY <1>3, <1>5, <1>6, <1>7, <1>8, <1>9 DEF StackOK
  <1>11. QED
    BY <1>2, <1>10

\* The top frame goes.
LEMMA Popped ==
    ASSUME NEW t, NEW g, NEW h, NEW s, StackOK(s, t, g), s # << >>,
           \A d \in 1..Len(s) - 1 : Stable(s[d], t, g, h),
           \A c \in Class : h.classes[c] = t => g.classes[c] = t /\ c # s[Len(s)].class
    PROVE  StackOK(SubSeq(s, 1, Len(s) - 1), t, h)
  <1>1. s \in Seq(FrameSet) /\ Len(s) \in Nat \ {0}
    <2>1. s \in Seq(FrameSet)
      BY DEF StackOK
    <2>2. QED
      BY <2>1, EmptySeq
  <1>2. PICK r : r = SubSeq(s, 1, Len(s) - 1)
    OBVIOUS
  <1>3. /\ r \in Seq(FrameSet) /\ Len(r) = Len(s) - 1
        /\ \A i \in 1..Len(s) - 1 : r[i] = s[i]
    BY <1>1, <1>2, PopLemma
  <1>4. \A d \in 1..Len(r) : d \in 1..Len(s) /\ d \in 1..Len(s) - 1 /\ r[d] = s[d]
    BY <1>1, <1>3
  <1>5. ASSUME NEW d \in 1..Len(r)
        PROVE  FrameShape(r[d], d) /\ FrameState(r[d], t, h)
    <2>1. FrameShape(s[d], d) /\ FrameState(s[d], t, g)
      BY <1>4 DEF StackOK
    <2>2. FrameState(s[d], t, h)
      BY <1>4, <2>1, FrameKept
    <2>3. QED
      BY <1>4, <2>1, <2>2
  <1>6. \A d, e \in 1..Len(r) : r[d].class \in Class /\ r[d].class = r[e].class => d = e
    BY <1>4 DEF StackOK
  <1>7. \A d, e \in 1..Len(r) : Caching(r[d].steps) /\ Caching(r[e].steps) => d = e
    BY <1>4 DEF StackOK
  <1>8. \A d \in 1..Len(r) : d + 1 \in 1..Len(r) => Above(r[d + 1], r[d])
    BY <1>4 DEF StackOK
  <1>9. ASSUME NEW c \in Class, h.classes[c] = t
        PROVE  \E d \in 1..Len(r) : r[d].class = c
    <2>1. PICK d \in 1..Len(s) : s[d].class = c
      BY <1>9 DEF StackOK
    <2>2. d \in 1..Len(r)
      BY <1>1, <1>3, <1>9, <2>1
    <2>3. QED
      BY <1>4, <2>1, <2>2
  <1>10. StackOK(r, t, h)
    BY <1>3, <1>5, <1>6, <1>7, <1>8, <1>9 DEF StackOK
  <1>11. QED
    BY <1>2, <1>10

\* The stack stays.
LEMMA StackKept ==
    ASSUME NEW t, NEW g, NEW h, NEW s, StackOK(s, t, g),
           \A d \in 1..Len(s) : Stable(s[d], t, g, h),
           \A c \in Class : h.classes[c] = t => g.classes[c] = t
    PROVE  StackOK(s, t, h)
  <1>1. \A d \in 1..Len(s) : FrameShape(s[d], d) /\ FrameState(s[d], t, h)
    BY FrameKept DEF StackOK
  <1>2. QED
    BY <1>1 DEF StackOK

\* What a thread u asks of the steps of the others.
Respects(u, g, h) ==
    /\ \A c \in Class : (g.classes[c] = u <=> h.classes[c] = u)
                        /\ (g.classes[c] = "failed" => h.classes[c] = "failed")
    /\ g.LOADED => h.LOADED
    /\ g.mutex = u => h.mutex = u /\ h.cache = g.cache
    /\ g.classes["Loader"] = u => /\ h.file = g.file /\ h.library = g.library
                                  /\ h.cache = None <=> g.cache = None
    /\ g.pending[u] => h.pending[u]

LEMMA OthersKept ==
    ASSUME NEW u, NEW g, NEW h, NEW s, StackOK(s, u, g), Respects(u, g, h)
    PROVE  StackOK(s, u, h)
  <1>1. ASSUME NEW d \in 1..Len(s)
        PROVE  Stable(s[d], u, g, h)
    <2>1. FrameState(s[d], u, g)
      BY DEF StackOK
    <2>2. Caching(s[d].steps) => g.mutex = u
      BY <2>1 DEF FrameState
    <2>3. s[d].class = "Loader" => g.classes["Loader"] = u
      BY <2>1, ClassesApart DEF FrameState
    <2>4. QED
      BY <2>2, <2>3, ClassesApart DEF Respects, Stable
  <1>2. \A c \in Class : h.classes[c] = u => g.classes[c] = u
    BY DEF Respects
  <1>3. QED
    BY <1>1, <1>2, StackKept

\* The variables as they are, and as they will be.
LEMMA GlobalFields ==
    /\ /\ Globals.classes = classes /\ Globals.file = file /\ Globals.library = library
       /\ Globals.LOADED = LOADED /\ Globals.cache = cache /\ Globals.weak = weak
       /\ Globals.mutex = mutex /\ Globals.pending = pending
    /\ /\ Globals'.classes = classes' /\ Globals'.file = file' /\ Globals'.library = library'
       /\ Globals'.LOADED = LOADED' /\ Globals'.cache = cache' /\ Globals'.weak = weak'
       /\ Globals'.mutex = mutex' /\ Globals'.pending = pending'
  BY DEF Globals

\* The thread t keeps its own part of the invariant, and respects the others.
LEMMA ThreadKeeps ==
    ASSUME CoreInv, NEW t \in Threads,
           GlobalType', LoadOK(Globals'), CacheOK(Globals'),
           StackOK(stack'[t], t, Globals'),
           \A u \in Threads \ {t} : stack'[u] = stack[u] /\ Respects(u, Globals, Globals')
    PROVE  CoreInv'
  <1>1. PICK g : g = Globals
    OBVIOUS
  <1>2. PICK h : h = Globals'
    OBVIOUS
  <1>3. ASSUME NEW u \in Threads
        PROVE  StackOK(stack'[u], u, h)
    <2>1. CASE u = t
      BY <1>2, <2>1
    <2>2. CASE u # t
      <3>1. stack'[u] = stack[u] /\ Respects(u, g, h)
        BY <1>1, <1>2, <2>2
      <3>2. StackOK(stack[u], u, g)
        BY <1>1 DEF CoreInv
      <3>3. StackOK(stack[u], u, h)
        BY <3>1, <3>2, OthersKept
      <3>4. QED
        BY <3>1, <3>3
    <2>3. QED
      BY <2>1, <2>2
  <1>4. \A u \in Threads : StackOK(stack'[u], u, Globals')
    BY <1>2, <1>3
  <1>5. QED
    BY <1>4 DEF CoreInv

\* What the invariant says of the frame that runs.
LEMMA TopFrame ==
    ASSUME CoreInv, NEW t \in Threads, Depth(t) > 0
    PROVE  /\ stack[t] \in Seq(FrameSet) /\ stack[t] # << >>
           /\ Depth(t) \in Nat \ {0} /\ Depth(t) \in 1..Len(stack[t])
           /\ Top(t) = stack[t][Len(stack[t])] /\ Depth(t) = Len(stack[t])
           /\ Top(t) \in FrameSet /\ Top(t).steps \in Seq(StepSet)
           /\ FrameShape(Top(t), Depth(t)) /\ FrameState(Top(t), t, Globals)
  <1>1. StackOK(stack[t], t, Globals)
    BY DEF CoreInv
  <1>2. stack[t] \in Seq(FrameSet)
    BY <1>1 DEF StackOK
  <1>3. Len(stack[t]) \in Nat \ {0} /\ stack[t] # << >>
    <2>1. Len(stack[t]) \in Nat
      BY <1>2, LenProperties
    <2>2. QED
      BY <1>2, <2>1, EmptySeq DEF Depth
  <1>4. Len(stack[t]) \in 1..Len(stack[t])
    BY <1>3
  <1>5. Top(t) \in FrameSet
    BY <1>2, <1>4, ElementOfSeq DEF Top, Depth
  <1>6. FrameShape(Top(t), Depth(t)) /\ FrameState(Top(t), t, Globals)
    BY <1>1, <1>4 DEF StackOK, Top, Depth
  <1>7. QED
    BY <1>2, <1>3, <1>4, <1>5, <1>6 DEF Top, Depth, FrameSet

LEMMA OtherSteps ==
    ASSUME NEW f \in FrameSet, NEW x
    PROVE  [f EXCEPT !.steps = x] = Frame(f.class, x)
  <1> DEFINE A == Class \union {"", "list"}
             B == Seq(StepSet)
  <1>1. f \in [class : A, steps : B]
    BY DEF FrameSet
  <1> HIDE DEF A, B
  <1>2. [f EXCEPT !.steps = x] = [class |-> f.class, steps |-> x]
    BY <1>1
  <1>3. QED
    BY <1>2 DEF Frame

LEMMA WithStepsIs ==
    ASSUME CoreInv, NEW t \in Threads, Depth(t) > 0, NEW x \in Seq(StepSet)
    PROVE  /\ DOMAIN WithSteps(t, x) = Threads
           /\ WithSteps(t, x)[t] =
                 [stack[t] EXCEPT ![Len(stack[t])] = Frame(stack[t][Len(stack[t])].class, x)]
           /\ \A u \in Threads \ {t} : WithSteps(t, x)[u] = stack[u]
  <1>1. DOMAIN stack = Threads
    BY DEF CoreInv, GlobalType
  <1>2. Top(t) \in FrameSet /\ Top(t) = stack[t][Len(stack[t])] /\ Depth(t) = Len(stack[t])
    BY TopFrame
  <1>3. [Top(t) EXCEPT !.steps = x] = Frame(Top(t).class, x)
    BY <1>2, OtherSteps
  <1>4. WithSteps(t, x)[t] = [stack[t] EXCEPT ![Depth(t)] = [Top(t) EXCEPT !.steps = x]]
    BY <1>1 DEF WithSteps, Top
  <1>5. DOMAIN WithSteps(t, x) = Threads /\ \A u \in Threads \ {t} : WithSteps(t, x)[u] = stack[u]
    BY <1>1 DEF WithSteps
  <1>6. QED
    BY <1>2, <1>3, <1>4, <1>5

\* The frame that runs goes on, with what remains of its steps.
LEMMA TopKeeps ==
    ASSUME CoreInv, NEW t \in Threads, Depth(t) > 0,
           NEW x \in Seq(StepSet), stack' = WithSteps(t, x),
           UNCHANGED classes,
           GlobalType', LoadOK(Globals'), CacheOK(Globals'),
           LOADED => LOADED',
           \A u \in Threads : pending[u] => pending'[u],
           FrameShape(Frame(Top(t).class, x), Depth(t)),
           FrameState(Frame(Top(t).class, x), t, Globals'),
           mutex \in Threads =>
               (mutex' = mutex /\ cache' = cache) \/ Caching(Top(t).steps),
           Caching(x) => mutex = None \/ Caching(Top(t).steps),
           \/ file' = file /\ library' = library /\ (cache' = None <=> cache = None)
           \/ Top(t).class = "Loader"
    PROVE  CoreInv'
  <1>1. PICK g : g = Globals
    OBVIOUS
  <1>2. PICK h : h = Globals'
    OBVIOUS
  <1>3. PICK s : s = stack[t]
    OBVIOUS
  <1>4. PICK n : n = Frame(Top(t).class, x)
    OBVIOUS
  <1>5. /\ StackOK(s, t, g) /\ s # << >> /\ Len(s) \in 1..Len(s) /\ Len(s) \in Nat \ {0}
        /\ Depth(t) = Len(s) /\ Top(t) = s[Len(s)]
        /\ FrameState(s[Len(s)], t, g)
    BY <1>1, <1>3, TopFrame DEF CoreInv
  <1>6. /\ g.classes = classes /\ g.file = file /\ g.library = library /\ g.LOADED = LOADED
        /\ g.cache = cache /\ g.mutex = mutex /\ g.pending = pending
        /\ h.classes = classes /\ h.file = file' /\ h.library = library' /\ h.LOADED = LOADED'
        /\ h.cache = cache' /\ h.mutex = mutex' /\ h.pending = pending'
    BY <1>1, <1>2, GlobalFields
  <1>7. None \notin Threads
    BY JniAssumption
  <1>8. Caching(s[Len(s)].steps) => mutex = t
    BY <1>5, <1>6 DEF FrameState
  <1>9. s[Len(s)].class = "Loader" => classes["Loader"] = t
    BY <1>5, <1>6, ClassesApart DEF FrameState
  <1>10. ASSUME NEW d \in 1..Len(s) - 1
         PROVE  /\ s[d].class = "Loader" => s[Len(s)].class # "Loader"
                /\ Caching(s[d].steps) => ~Caching(s[Len(s)].steps) /\ mutex = t
    <2>1. d \in 1..Len(s) /\ d # Len(s)
      BY <1>5
    <2>2. FrameState(s[d], t, g)
      BY <1>5, <2>1 DEF StackOK
    <2>3. Caching(s[d].steps) => mutex = t
      BY <1>6, <2>2 DEF FrameState
    <2>4. /\ s[d].class \in Class /\ s[d].class = s[Len(s)].class => d = Len(s)
          /\ Caching(s[d].steps) /\ Caching(s[Len(s)].steps) => d = Len(s)
      BY <1>5, <2>1 DEF StackOK
    <2>5. QED
      BY <2>1, <2>3, <2>4, ClassesApart
  <1>11. \A d \in 1..Len(s) - 1 : Stable(s[d], t, g, h)
    BY <1>5, <1>6, <1>10 DEF Stable
  <1>12. Caching(x) => \A d \in 1..Len(s) - 1 : ~Caching(s[d].steps)
    BY <1>5, <1>7, <1>10
  <1>13. StackOK([s EXCEPT ![Len(s)] = n], t, h)
    BY <1>2, <1>4, <1>5, <1>6, <1>11, <1>12, Replaced
  <1>14. stack'[t] = [s EXCEPT ![Len(s)] = n]
    BY <1>3, <1>4, <1>5, WithStepsIs
  <1>15. ASSUME NEW u \in Threads \ {t}
         PROVE  stack'[u] = stack[u] /\ Respects(u, g, h)
    <2>1. stack'[u] = stack[u]
      <3>1. \A v \in Threads \ {t} : WithSteps(t, x)[v] = stack[v]
        BY WithStepsIs
      <3>2. QED
        BY <3>1
    <2>2. mutex = u => mutex' = mutex /\ cache' = cache
      BY <1>5, <1>8
    <2>3. classes["Loader"] = u =>
              file' = file /\ library' = library /\ (cache' = None <=> cache = None)
      BY <1>5, <1>9
    <2>4. Respects(u, g, h)
      BY <1>6, <2>2, <2>3 DEF Respects
    <2>5. QED
      BY <2>1, <2>4
  <1>16. StackOK(stack'[t], t, Globals')
    BY <1>2, <1>13, <1>14
  <1>17. \A u \in Threads \ {t} : stack'[u] = stack[u] /\ Respects(u, Globals, Globals')
    BY <1>1, <1>2, <1>15
  <1>18. QED
    BY <1>16, <1>17, ThreadKeeps

-----------------------------------------------------------------------------
(* Every step keeps the invariant. *)

\* No step is to store a class.
StoresNothing(s) == \A i \in 1..Len(s) : s[i].op # "store"

LEMMA NothingStoredInTail ==
    ASSUME NEW S, NEW s \in Seq(S), s # << >>, Head(s).op # "store", StoresNothing(Tail(s))
    PROVE  StoresNothing(s)
  <1>1. /\ Len(s) \in Nat \ {0} /\ Head(s) = s[1] /\ Len(Tail(s)) = Len(s) - 1
        /\ \A i \in 1..Len(Tail(s)) : Tail(s)[i] = s[i + 1]
    BY HeadTailProperties, EmptySeq
  <1>2. ASSUME NEW i \in 1..Len(s)
        PROVE  s[i].op # "store"
    <2>1. CASE i = 1
      BY <1>1, <2>1
    <2>2. CASE i # 1
      <3>1. i - 1 \in 1..Len(Tail(s)) /\ (i - 1) + 1 = i
        BY <1>1, <2>2
      <3>2. Tail(s)[i - 1] = s[i]
        BY <1>1, <3>1
      <3>3. QED
        BY <3>1, <3>2 DEF StoresNothing
    <2>3. QED
      BY <2>1, <2>2
  <1>3. QED
    BY <1>2 DEF StoresNothing

\* A frame with a class to store is one that looks a class up, and has the mutex.
LEMMA StoreIsCaching ==
    ASSUME NEW f \in FrameSet, NEW d, FrameShape(f, d), ~Caching(f.steps)
    PROVE  StoresNothing(f.steps)
  <1>1. f.steps \in Seq(StepSet)
    BY DEF FrameSet
  <1>2. StoresNothing(<< >>)
    BY DEF StoresNothing
  <1>3. ASSUME NEW u \in Seq(Native)
        PROVE  StoresNothing(u)
    <2>1. \A i \in 1..Len(u) : u[i] \in Native
      BY ElementOfSeq
    <2>2. QED
      BY <2>1 DEF StoresNothing, Native, NativeStep, NativeOps
  <1>4. \A C : Using(f.steps, C) => StoresNothing(f.steps)
    BY <1>1, <1>3, NothingStoredInTail DEF Using, Native
  <1>5. \A C \in SUBSET Cachable : Body(f.steps, C) => StoresNothing(f.steps)
    <2>1. ASSUME NEW C \in SUBSET Cachable, Body(f.steps, C)
          PROVE  f.steps \in Seq(Native)
      BY <2>1, BodyMonotone DEF Body, Caching
    <2>2. QED
      BY <1>3, <2>1
  <1>6. /\ StoresNothing(ToFinish) /\ StoresNothing(ToCheck)
        /\ StoresNothing(ToLoad) /\ StoresNothing(ToFind) /\ StoresNothing(GuardedBy("Loader"))
    <2>1. StoresNothing(ToFinish) /\ StoresNothing(ToCheck)
      BY <1>2, LoaderSteps, NothingStoredInTail
    <2>2. StoresNothing(ToLoad) /\ StoresNothing(GuardedBy("Loader"))
      BY <2>1, LoaderSteps, NothingStoredInTail
    <2>3. StoresNothing(ToFind)
      BY <2>2, LoaderSteps, NothingStoredInTail
    <2>4. QED
      BY <2>1, <2>2, <2>3
  <1>7. f.class \in {"Loader"} \union Methods \union Guarded \union (Cachable \ Guarded)
    BY ClassesApart DEF FrameSet
  <1>8. CASE f.class = "Loader"
    BY <1>2, <1>6, <1>8 DEF FrameShape
  <1>9. CASE f.class \in Guarded
    BY <1>2, <1>6, <1>9 DEF FrameShape
  <1>10. CASE f.class \in Cachable \ Guarded
    BY <1>2, <1>10 DEF FrameShape
  <1>11. CASE f.class \in Methods
    <2>1. Cachable \in SUBSET Cachable /\ {"ArrayList"} \in SUBSET Cachable
      BY ClassesApart
    <2>2. QED
      BY <1>4, <1>5, <1>11, <2>1 DEF FrameShape, Methods
  <1>12. QED
    BY <1>7, <1>8, <1>9, <1>10, <1>11

\* What a step leaves as it is.
LEMMA GlobalsKept ==
    ASSUME CoreInv, UNCHANGED <<system, classes, library, LOADED, cache, weak, calls, loads>>,
           file' \in {NoFile} \union Found(system.platform, system.installed),
           file' = file \/ library = NoFile,
           mutex' \in {None} \union Threads, DOMAIN stack' = Threads,
           pending' \in [Threads -> BOOLEAN]
    PROVE  GlobalType' /\ LoadOK(Globals') /\ CacheOK(Globals')
  <1>1. GlobalType'
    BY DEF CoreInv, GlobalType
  <1>2. LoadOK(Globals')
    <2>1. LoadOK(Globals)
      BY DEF CoreInv
    <2>2. QED
      BY <2>1, GlobalFields DEF LoadOK
  <1>3. CacheOK(Globals')
    <2>1. CacheOK(Globals)
      BY DEF CoreInv
    <2>2. QED
      BY <2>1, GlobalFields DEF CacheOK
  <1>4. QED
    BY <1>1, <1>2, <1>3

\* A step fails.
LEMMA FailKeeps ==
    ASSUME CoreInv, NEW t \in Threads, Depth(t) > 0, Fail(t),
           UNCHANGED <<system, classes, library, LOADED, cache, weak, calls, loads>>,
           file' \in {NoFile} \union Found(system.platform, system.installed),
           file' = file \/ (Top(t).class = "Loader" /\ library = NoFile)
    PROVE  CoreInv'
  <1>1. PICK n : n = Frame(Top(t).class, << >>)
    OBVIOUS
  <1>2. /\ Top(t) \in FrameSet /\ FrameShape(Top(t), Depth(t))
        /\ FrameState(Top(t), t, Globals) /\ Top(t).steps \in Seq(StepSet)
    BY TopFrame
  <1>3. n.class = Top(t).class /\ n.steps = << >>
    BY <1>1 DEF Frame
  <1>4. << >> \in Seq(StepSet)
    BY EmptySeq
  <1>5. stack' = WithSteps(t, << >>) /\ DOMAIN stack' = Threads
    BY <1>4, WithStepsIs DEF Fail
  <1>6. pending' = [pending EXCEPT ![t] = TRUE] /\ pending \in [Threads -> BOOLEAN]
    BY DEF Fail, CoreInv, GlobalType
  <1>7. pending'[t] /\ (\A u \in Threads : pending[u] => pending'[u])
    BY <1>6, Zenon
  <1>8. mutex' \in {None} \union Threads
    BY DEF Fail, CoreInv, GlobalType
  <1>9. mutex' = mutex \/ Caching(Top(t).steps)
    <2>1. ASSUME mutex' # mutex, ~Caching(Top(t).steps)
          PROVE  FALSE
      <3>1. PICK i \in DOMAIN Top(t).steps : Top(t).steps[i].op = "store"
        BY <2>1 DEF Fail
      <3>2. i \in 1..Len(Top(t).steps)
        BY <1>2, LenProperties
      <3>3. StoresNothing(Top(t).steps)
        BY <1>2, <2>1, StoreIsCaching
      <3>4. QED
        BY <3>1, <3>2, <3>3 DEF StoresNothing
    <2>2. QED
      BY <2>1
  <1>10. GlobalType' /\ LoadOK(Globals') /\ CacheOK(Globals')
    <2>1. pending' \in [Threads -> BOOLEAN]
      BY <1>6
    <2>2. file' = file \/ library = NoFile
      OBVIOUS
    <2>3. QED
      BY <1>5, <1>8, <2>1, <2>2, GlobalsKept
  <1>11. FrameShape(n, Depth(t)) /\ ~Caching(<< >>)
    BY <1>1, <1>2, EndedFrame
  <1>12. FrameState(n, t, Globals')
    <2>1. n.class \in Class => classes[n.class] = t
      BY <1>2, <1>3, GlobalFields DEF FrameState
    <2>2. << >> \notin {ToFind, ToLoad, ToFinish, ToCheck}
      BY LoaderSteps
    <2>3. PICK h : h = Globals'
      OBVIOUS
    <2>4. h.classes = classes /\ h.pending[t]
      BY <1>7, <2>3, GlobalFields
    <2>5. FrameState(n, t, h)
      BY <1>3, <1>11, <2>1, <2>2, <2>4 DEF FrameState
    <2>6. QED
      BY <2>3, <2>5
  <1>13. QED
    BY <1>1, <1>4, <1>5, <1>7, <1>9, <1>10, <1>11, <1>12, TopKeeps

\* The frame that runs goes on, and nothing else changes.
LEMMA AdvanceKeeps ==
    ASSUME CoreInv, NEW t \in Threads, Depth(t) > 0, Top(t).steps # << >>, Advance(t),
           UNCHANGED <<system, classes, file, library, LOADED, cache, weak, mutex, pending,
                       calls, loads>>,
           FrameShape(Frame(Top(t).class, Tail(Top(t).steps)), Depth(t)),
           FrameState(Frame(Top(t).class, Tail(Top(t).steps)), t, Globals),
           Caching(Tail(Top(t).steps)) => Caching(Top(t).steps)
    PROVE  CoreInv'
  <1>1. PICK x : x = Tail(Top(t).steps)
    OBVIOUS
  <1>2. Top(t).steps \in Seq(StepSet)
    BY TopFrame
  <1>3. x \in Seq(StepSet)
    BY <1>1, <1>2, HeadTail
  <1>4. stack' = WithSteps(t, x) /\ DOMAIN stack' = Threads
    BY <1>1, <1>3, WithStepsIs DEF Advance
  <1>5. file' \in {NoFile} \union Found(system.platform, system.installed)
    BY DEF CoreInv, GlobalType
  <1>6. mutex' \in {None} \union Threads /\ pending' \in [Threads -> BOOLEAN]
    BY DEF CoreInv, GlobalType
  <1>7. GlobalType' /\ LoadOK(Globals') /\ CacheOK(Globals')
    BY <1>4, <1>5, <1>6, GlobalsKept
  <1>8. Globals' = Globals
    BY DEF Globals
  <1>9. FrameState(Frame(Top(t).class, x), t, Globals')
    BY <1>1, <1>8
  <1>10. QED
    BY <1>1, <1>3, <1>4, <1>7, <1>9, TopKeeps

\* Native code that goes on to native code.
LEMMA NativeState ==
    ASSUME NEW f \in FrameSet, NEW t, NEW g, NEW h, FrameState(f, t, g),
           f.class \in Methods, f.steps # << >>, Body(f.steps, Cachable),
           NEW x \in Seq(Native),
           f.class \in Class => h.classes[f.class] = t,
           g.LOADED => h.LOADED
    PROVE  FrameState(Frame(f.class, x), t, h) /\ ~Caching(x)
  <1>1. PICK n : n = Frame(f.class, x)
    OBVIOUS
  <1>2. n.class = f.class /\ n.steps = x
    BY <1>1 DEF Frame
  <1>3. h.LOADED
    BY DEF FrameState
  <1>4. ~Caching(x)
    <2>1. x # << >> => Head(x).op \in NativeOps
      BY HeadTail DEF Native, NativeStep
    <2>2. QED
      BY <2>1 DEF Caching, Storing, Finding, NativeOps
  <1>5. n.class # "Loader" /\ n.class \notin Guarded
    BY <1>2, ClassesApart
  <1>6. FrameState(n, t, h)
    BY <1>2, <1>3, <1>4, <1>5 DEF FrameState
  <1>7. QED
    BY <1>1, <1>4, <1>6

\* What is known of a thread at a step of native code.
LEMMA AtNative ==
    ASSUME CoreInv, NEW t \in Threads, At(t, NativeOps)
    PROVE  /\ Depth(t) > 0 /\ Top(t).steps # << >>
           /\ Top(t).class \in Methods
           /\ Body(Top(t).steps, Cachable)
           /\ Top(t).steps \in Seq(NativeStep(Looks(Top(t))))
           /\ Now(t) \in NativeStep(Looks(Top(t)))
           /\ Tail(Top(t).steps) \in Seq(NativeStep(Looks(Top(t))))
           /\ LOADED /\ cache # None /\ library # NoFile
  <1>1. /\ Depth(t) > 0 /\ Top(t).steps # << >> /\ Head(Top(t).steps).op \in NativeOps
        /\ Top(t) \in FrameSet /\ FrameShape(Top(t), Depth(t)) /\ FrameState(Top(t), t, Globals)
    BY TopFrame DEF At
  <1>2. Top(t).class \in Methods /\ Body(Top(t).steps, Looks(Top(t)))
    BY <1>1, NativeFrame
  <1>3. Body(Top(t).steps, Cachable)
    BY <1>2, LooksType, BodyMonotone
  <1>4. Top(t).steps \in Seq(NativeStep(Looks(Top(t))))
    BY <1>1, <1>2, BodyHead DEF NativeOps
  <1>5. Now(t) \in NativeStep(Looks(Top(t))) /\ Tail(Top(t).steps) \in Seq(NativeStep(Looks(Top(t))))
    BY <1>1, <1>4, HeadTail DEF Now
  <1>6. LOADED
    BY <1>1, <1>3, GlobalFields DEF FrameState
  <1>7. cache # None /\ library # NoFile
    BY <1>6, GlobalFields DEF CoreInv, LoadOK
  <1>8. QED
    BY <1>1, <1>2, <1>3, <1>4, <1>5, <1>6, <1>7

\* Whatever the globals are then: native code may go on.
LEMMA NativeGoesOn ==
    ASSUME CoreInv, NEW t \in Threads, At(t, NativeOps), UNCHANGED classes, LOADED',
           NEW x \in Seq(NativeStep(Looks(Top(t))))
    PROVE  /\ x \in Seq(StepSet)
           /\ FrameShape(Frame(Top(t).class, x), Depth(t))
           /\ FrameState(Frame(Top(t).class, x), t, Globals')
           /\ ~Caching(x)
  <1>1. /\ Depth(t) > 0 /\ Top(t).steps # << >> /\ Top(t).class \in Methods
        /\ Body(Top(t).steps, Cachable)
    BY AtNative
  <1>2. Top(t) \in FrameSet /\ FrameShape(Top(t), Depth(t)) /\ FrameState(Top(t), t, Globals)
    BY <1>1, TopFrame
  <1>3. x \in Seq(Native)
    BY LooksType, BodyMonotone
  <1>4. Native \subseteq StepSet
    BY DEF Native, NativeStep
  <1>5. x \in Seq(StepSet)
    BY <1>3, <1>4, SeqMonotone
  <1>6. Body(x, Looks(Top(t)))
    BY DEF Body
  <1>7. FrameShape(Frame(Top(t).class, x), Depth(t))
    BY <1>1, <1>2, <1>6, NativeFrameStays
  <1>8. PICK h : h = Globals'
    OBVIOUS
  <1>9. h.LOADED /\ (Top(t).class \in Class => h.classes[Top(t).class] = t)
    BY <1>2, <1>8, GlobalFields DEF FrameState
  <1>10. FrameState(Frame(Top(t).class, x), t, h) /\ ~Caching(x)
    BY <1>1, <1>2, <1>3, <1>9, NativeState
  <1>11. QED
    BY <1>5, <1>7, <1>8, <1>10

LEMMA NativeAdvanceKeeps ==
    ASSUME CoreInv, NEW t \in Threads, At(t, NativeOps), Advance(t),
           UNCHANGED <<system, classes, file, library, LOADED, cache, weak, mutex, pending,
                       calls, loads>>
    PROVE  CoreInv'
  <1>1. /\ Depth(t) > 0 /\ Top(t).steps # << >>
        /\ Tail(Top(t).steps) \in Seq(NativeStep(Looks(Top(t)))) /\ LOADED
    BY AtNative
  <1>2. /\ FrameShape(Frame(Top(t).class, Tail(Top(t).steps)), Depth(t))
        /\ FrameState(Frame(Top(t).class, Tail(Top(t).steps)), t, Globals')
        /\ ~Caching(Tail(Top(t).steps))
    BY <1>1, NativeGoesOn
  <1>3. Globals' = Globals
    BY DEF Globals
  <1>4. FrameState(Frame(Top(t).class, Tail(Top(t).steps)), t, Globals)
    BY <1>2, <1>3
  <1>5. QED
    BY <1>1, <1>2, <1>4, AdvanceKeeps

\* A step fails, and nothing else changes.
LEMMA PlainFailKeeps ==
    ASSUME CoreInv, NEW t \in Threads, Depth(t) > 0, Fail(t),
           UNCHANGED <<system, classes, file, library, LOADED, cache, weak, calls, loads>>
    PROVE  CoreInv'
  <1>1. file' \in {NoFile} \union Found(system.platform, system.installed)
    BY DEF CoreInv, GlobalType
  <1>2. QED
    BY <1>1, FailKeeps

LEMMA CallJniKeeps ==
    ASSUME CoreInv, NEW t \in Threads, CallJni(t)
    PROVE  CoreInv'
  <1>1. At(t, NativeOps) /\ Depth(t) > 0
    BY DEF CallJni, At, NativeOps
  <1>2. CASE Fail(t)
    BY <1>1, <1>2, PlainFailKeeps DEF CallJni, Quietly
  <1>3. CASE Advance(t) /\ UNCHANGED <<pending, mutex>>
    BY <1>1, <1>3, NativeAdvanceKeeps DEF CallJni, Quietly
  <1>4. QED
    BY <1>2, <1>3 DEF CallJni

LEMMA ThrowNewKeeps ==
    ASSUME CoreInv, NEW t \in Threads, ThrowNew(t)
    PROVE  CoreInv'
  <1>1. Depth(t) > 0
    BY DEF ThrowNew, At
  <1>2. QED
    BY <1>1, PlainFailKeeps DEF ThrowNew, Quietly

\* A class that Java uses on behalf of native code can only be one that is
\* initialized, not one that this thread is initializing: that one's frame would
\* be below, and there are none but those of the client and of an enumeration.
LEMMA NotUnderWay ==
    ASSUME CoreInv, NEW t \in Threads, Depth(t) > 0, NEW c \in Guarded,
           Top(t).class \in Methods, Top(t).class \in Enums => Depth(t) = 2,
           Top(t).class \notin Enums => Depth(t) = 1
    PROVE  classes[c] # t
  <1>1. PICK s : s = stack[t]
    OBVIOUS
  <1>2. /\ StackOK(s, t, Globals) /\ s \in Seq(FrameSet)
        /\ Depth(t) = Len(s) /\ Top(t) = s[Len(s)]
    BY <1>1, TopFrame DEF CoreInv
  <1>3. c \in Class /\ c \notin Methods
    BY ClassesApart
  <1> SUFFICES ASSUME classes[c] = t
               PROVE  FALSE
    OBVIOUS
  <1>4. PICK e \in 1..Len(s) : s[e].class = c
    BY <1>2, <1>3, GlobalFields DEF StackOK
  <1>5. e # Len(s)
    BY <1>2, <1>3, <1>4
  <1>6. Len(s) = 2 /\ e = 1 /\ s[2].class \in Enums
    BY <1>2, <1>4, <1>5
  <1>7. s[1] \in FrameSet /\ FrameShape(s[1], 1)
    BY <1>2, <1>6, ElementOfSeq DEF StackOK
  <1>8. Above(s[2], s[1])
    <2>1. \A d \in 1..Len(s) : d + 1 \in 1..Len(s) => Above(s[d + 1], s[d])
      BY <1>2 DEF StackOK
    <2>2. 1 \in 1..2 /\ 1 + 1 \in 1..2 /\ 1 + 1 = 2
      OBVIOUS
    <2>3. Above(s[1 + 1], s[1])
      BY <1>6, <2>1, <2>2
    <2>4. QED
      BY <2>2, <2>3
  <1>9. /\ s[1].steps # << >> /\ Head(s[1].steps).op = "use"
        /\ Head(s[1].steps).class = s[2].class
    BY <1>6, <1>8, ClassesApart DEF Above
  <1>10. s[1].class \in Guarded /\ s[1].class \notin Methods
    BY <1>3, <1>4, <1>6
  <1>11. s[1].steps = GuardedBy("Loader")
    BY <1>7, <1>9, <1>10, UsingFrame DEF Methods
  <1>12. s[2].class = "Loader"
    BY <1>9, <1>11, LoaderSteps
  <1>13. QED
    BY <1>6, <1>12, ClassesApart DEF Methods

LEMMA UsedIsDone ==
    ASSUME CoreInv, NEW t \in Threads, Depth(t) > 0,
           NEW c \in Guarded, classes[c] \in {"done", t},
           Top(t).class \in Methods, Top(t).class \in Enums => Depth(t) = 2,
           Top(t).class \notin Enums => Depth(t) = 1
    PROVE  LOADED
  <1>1. classes[c] # t
    BY NotUnderWay
  <1>2. QED
    BY <1>1, GlobalFields DEF CoreInv, LoadOK

\* The class is there.
LEMMA UseDoneKeeps ==
    ASSUME CoreInv, NEW t \in Threads, At(t, {"use"}), Advance(t),
           classes[Now(t).class] \in {"done", t},
           UNCHANGED <<system, classes, file, library, LOADED, cache, weak, mutex, pending,
                       calls, loads>>
    PROVE  CoreInv'
  <1>1. PICK f : f = Top(t)
    OBVIOUS
  <1>2. PICK x : x = Tail(f.steps)
    OBVIOUS
  <1>3. PICK n : n = Frame(f.class, x)
    OBVIOUS
  <1>4. PICK g : g = Globals
    OBVIOUS
  <1>5. PICK d : d = Depth(t)
    OBVIOUS
  <1>6. /\ Depth(t) > 0 /\ f.steps # << >> /\ Head(f.steps).op = "use"
        /\ f \in FrameSet /\ FrameShape(f, d) /\ FrameState(f, t, g)
        /\ Now(t) = Head(f.steps)
    BY <1>1, <1>4, <1>5, TopFrame DEF At, Now
  <1>7. n.class = f.class /\ n.steps = x
    BY <1>3 DEF Frame
  <1>8. g.classes = classes /\ g.LOADED = LOADED /\ g.mutex = mutex /\ g.cache = cache
    BY <1>4, GlobalFields
  <1>9. n.class \in Class => g.classes[n.class] = t
    BY <1>6, <1>7 DEF FrameState
  <1> SUFFICES FrameShape(n, d) /\ FrameState(n, t, g) /\ (Caching(x) => Caching(f.steps))
    BY <1>1, <1>2, <1>3, <1>4, <1>5, <1>6, AdvanceKeeps
  <1>10. CASE f.class \in Methods /\ Finding(f.steps, Looks(f))
    <2>1. Storing(x, Looks(f)) /\ Head(x).class = Head(f.steps).class
      BY <1>2, <1>10 DEF Finding
    <2>2. Body(x, Looks(f)) /\ Storing(x, Cachable) /\ Finding(f.steps, Cachable)
      BY <1>10, <2>1, LooksType, BodyMonotone DEF Body
    <2>3. Caching(x) /\ Caching(f.steps) /\ Body(f.steps, Cachable)
      BY <2>2 DEF Caching, Body
    <2>4. FrameShape(n, d)
      BY <1>3, <1>6, <1>10, <2>2, NativeFrameStays
    <2>5. g.LOADED /\ g.mutex = t /\ Head(x).class \notin g.cache.classes
      BY <1>6, <2>1, <2>3 DEF FrameState
    <2>6. n.class # "Loader" /\ n.class \notin Guarded
      BY <1>7, <1>10, ClassesApart
    <2>7. FrameState(n, t, g)
      BY <1>7, <1>9, <2>5, <2>6 DEF FrameState
    <2>8. QED
      BY <2>3, <2>4, <2>7
  <1>11. ASSUME f.class \in Methods, x \in Seq(Native), x # << >> => LOADED
         PROVE  FrameShape(n, d) /\ FrameState(n, t, g) /\ (Caching(x) => Caching(f.steps))
    <2>1. ~Caching(x)
      <3>1. x # << >> => Head(x).op \in NativeOps
        BY <1>11, HeadTail DEF Native, NativeStep
      <3>2. QED
        BY <3>1 DEF Caching, Storing, Finding, NativeOps
    <2>2. Body(x, Cachable)
      BY <1>11 DEF Body, Native
    <2>3. n.class # "Loader" /\ n.class \notin Guarded
      BY <1>7, <1>11, ClassesApart
    <2>4. FrameState(n, t, g)
      BY <1>7, <1>8, <1>9, <1>11, <2>1, <2>3 DEF FrameState
    <2>5. CASE f.class = "list"
      <3>1. Finding(f.steps, Looks(f))
        BY <1>6, <2>5, UsingFrame, ClassesApart DEF Methods, Enums
      <3>2. QED
        BY <1>10, <1>11, <3>1
    <2>6. CASE f.class # "list"
      <3>1. Body(x, Looks(f))
        BY <2>2, <2>6 DEF Looks
      <3>2. FrameShape(n, d)
        BY <1>3, <1>6, <1>11, <3>1, NativeFrameStays
      <3>3. QED
        BY <2>1, <2>4, <3>2
    <2>7. QED
      BY <2>5, <2>6
  <1>12. CASE f.class = "" /\ d = 1 /\ Using(f.steps, Guarded \union Enums)
    <2>1. x \in Seq(Native)
      BY <1>2, <1>12 DEF Using, Native
    <2>2. x # << >> => LOADED
      <3> SUFFICES ASSUME x # << >>
                   PROVE  LOADED
        OBVIOUS
      <3>1. Now(t).class \in Guarded
        BY <1>2, <1>6, <1>12 DEF Using
      <3>2. QED
        BY <1>1, <1>5, <1>6, <1>12, <3>1, UsedIsDone DEF Methods, Enums
    <2>3. QED
      BY <1>11, <1>12, <2>1, <2>2 DEF Methods
  <1>13. CASE f.class \in Enums /\ d = 2 /\ Using(f.steps, {"EnumConstantsHelper"})
    <2>1. x \in Seq(Native)
      BY <1>2, <1>13 DEF Using, Native
    <2>2. Now(t).class \in Guarded
      BY <1>6, <1>13 DEF Using, Guarded
    <2>3. LOADED
      BY <1>1, <1>5, <1>6, <1>13, <2>2, UsedIsDone DEF Methods
    <2>4. QED
      BY <1>11, <1>13, <2>1, <2>3 DEF Methods
  <1>14. CASE f.class \in Guarded /\ f.steps = GuardedBy("Loader")
    <2>1. x = ToCheck /\ Now(t).class = "Loader"
      BY <1>2, <1>6, <1>14, LoaderSteps
    <2>2. n.class \notin Methods /\ n.class # "Loader" /\ n.class \in Guarded
      BY <1>7, <1>14, ClassesApart
    <2>3. FrameShape(n, d)
      BY <1>7, <2>1, <2>2 DEF FrameShape, Methods
    <2>4. ~Body(x, Cachable) /\ ~Caching(x) /\ x # << >>
      BY <2>1, LoaderIsNotBody, LoaderSteps
    <2>5. LOADED \/ classes["Loader"] = t
      BY <2>1, GlobalFields DEF CoreInv, LoadOK
    <2>6. FrameState(n, t, g)
      BY <1>7, <1>8, <1>9, <2>1, <2>2, <2>4, <2>5 DEF FrameState
    <2>7. QED
      BY <2>3, <2>4, <2>6
  <1>15. QED
    BY <1>6, <1>10, <1>12, <1>13, <1>14, UsingFrame

\* A class begins to be initialized, in a frame of its own.
LEMMA InitializeKeeps ==
    ASSUME CoreInv, NEW t \in Threads, At(t, {"use"}),
           NEW c, c = Now(t).class, classes[c] = "none",
           classes' = [classes EXCEPT ![c] = t],
           NEW x \in Initializers(c),
           stack' = [stack EXCEPT ![t] = Append(@, Frame(c, x))],
           UNCHANGED <<system, file, library, LOADED, cache, weak, mutex, pending, calls, loads>>
    PROVE  CoreInv'
  <1>1. PICK f : f = Top(t)
    OBVIOUS
  <1>2. PICK n : n = Frame(c, x)
    OBVIOUS
  <1>3. PICK g : g = Globals
    OBVIOUS
  <1>4. PICK h : h = Globals'
    OBVIOUS
  <1>5. PICK s : s = stack[t]
    OBVIOUS
  <1>6. PICK k : k = Len(s)
    OBVIOUS
  <1>7. /\ Depth(t) > 0 /\ f.steps # << >> /\ Head(f.steps).op = "use"
        /\ f \in FrameSet /\ FrameShape(f, k) /\ FrameState(f, t, g)
        /\ Head(f.steps).class = c /\ f = s[k] /\ k = Depth(t) /\ k \in Nat \ {0}
        /\ s # << >>
    BY <1>1, <1>3, <1>5, <1>6, TopFrame DEF At, Now
  <1>8. n.class = c /\ n.steps = x
    BY <1>2 DEF Frame
  <1>9. /\ g.classes = classes /\ g.file = file /\ g.library = library /\ g.LOADED = LOADED
        /\ g.cache = cache /\ g.mutex = mutex /\ g.pending = pending /\ g.weak = weak
        /\ h.classes = classes' /\ h.file = file /\ h.library = library /\ h.LOADED = LOADED
        /\ h.cache = cache /\ h.mutex = mutex /\ h.pending = pending /\ h.weak = weak
    BY <1>3, <1>4, GlobalFields
  <1>10. classes \in [Class -> {"none", "done", "failed"} \union Threads] /\ DOMAIN stack = Threads
    BY DEF CoreInv, GlobalType
  <1>11. Threads \intersect {"none", "done", "failed"} = {}
    BY JniAssumption
  <1>12. c \in Class /\ (c \in Enums => k = 1)
    <2>1. CASE f.class \in Methods /\ Finding(f.steps, Looks(f))
      <3>1. c \in Cachable
        <4>1. Storing(Tail(f.steps), Looks(f)) /\ Head(Tail(f.steps)).class = c
          BY <1>7, <2>1 DEF Finding
        <4>2. QED
          BY <4>1, LooksType DEF Storing
      <3>2. QED
        BY <3>1, ClassesApart DEF Methods
    <2>2. CASE f.class = "" /\ k = 1 /\ Using(f.steps, Guarded \union Enums)
      BY <1>7, <2>2, ClassesApart DEF Using
    <2>3. CASE f.class \in Enums /\ k = 2 /\ Using(f.steps, {"EnumConstantsHelper"})
      <3>1. c \in Guarded
        BY <1>7, <2>3 DEF Using, Guarded
      <3>2. QED
        BY <3>1, ClassesApart DEF Methods
    <2>4. CASE f.class \in Guarded /\ f.steps = GuardedBy("Loader")
      <3>1. c = "Loader"
        BY <1>7, <2>4, LoaderSteps
      <3>2. QED
        BY <3>1, ClassesApart DEF Methods
    <2>5. QED
      BY <1>7, <2>1, <2>2, <2>3, <2>4, UsingFrame
  <1>13. /\ classes' \in [Class -> {"none", "done", "failed"} \union Threads]
         /\ classes'[c] = t /\ \A b \in Class : b # c => classes'[b] = classes[b]
    BY <1>10, <1>12
  <1>14. /\ x \in Seq(StepSet)
         /\ c \in Enums => Using(x, {"EnumConstantsHelper"})
         /\ c = "Loader" => x = ToFind
         /\ c \in Guarded => x = GuardedBy("Loader")
         /\ c \in Cachable \ Guarded => x = << >>
    BY <1>12, InitializerShape
  <1>15. n \in FrameSet
    BY <1>2, <1>12, <1>14 DEF FrameSet, Frame
  <1>16. FrameShape(n, k + 1)
    <2>1. c # "" /\ c # "list"
      BY <1>12, ClassesApart
    <2>2. c \in Enums => k + 1 = 2
      BY <1>12
    <2>3. QED
      BY <1>8, <1>14, <2>1, <2>2 DEF FrameShape
  <1>17. ~Caching(x) /\ (x # << >> => ~Body(x, Cachable))
    <2>1. CASE c \in Enums
      BY <1>14, <2>1, UsingIsNotBody
    <2>2. CASE c = "Loader" \/ c \in Guarded
      BY <1>14, <2>2, LoaderIsNotBody
    <2>3. CASE c \in Cachable \ Guarded
      BY <1>14, <2>3 DEF Caching, Storing, Finding
    <2>4. QED
      BY <1>12, <2>1, <2>2, <2>3 DEF Class
  <1>18. FrameState(n, t, h)
    <2>1. c = "Loader" => library = NoFile /\ cache = None
      BY GlobalFields DEF CoreInv, LoadOK
    <2>2. /\ ToFind # ToLoad /\ ToFind # ToFinish /\ ToFind # << >>
          /\ GuardedBy("Loader") # ToCheck /\ GuardedBy("Loader") # << >>
      BY LoaderSteps
    <2>3. c \in Class => h.classes[c] = t
      BY <1>9, <1>13
    <2>4. c = "Loader" => x \notin {ToLoad, ToFinish, << >>}
      BY <1>14, <2>2
    <2>5. c \in Guarded => x \notin {ToCheck, << >>}
      BY <1>14, <2>2
    <2>6. QED
      BY <1>8, <1>9, <1>17, <2>1, <2>3, <2>4, <2>5 DEF FrameState
  <1>19. StackOK(s, t, g)
    BY <1>3, <1>5 DEF CoreInv
  <1>20. ASSUME NEW d \in 1..Len(s)
         PROVE  Stable(s[d], t, g, h) /\ s[d].class # c
    <2>1. FrameState(s[d], t, g)
      BY <1>19 DEF StackOK
    <2>2. s[d].class \in Class => classes[s[d].class] = t
      BY <1>9, <2>1 DEF FrameState
    <2>3. s[d].class # c
      BY <1>11, <1>12, <2>2
    <2>4. classes["Loader"] \in {t, "failed"} => classes'["Loader"] \in {t, "failed"}
      BY <1>13, ClassesApart
    <2>5. s[d].class \in Class => classes'[s[d].class] = t
      BY <1>13, <2>2, <2>3
    <2>6. Stable(s[d], t, g, h)
      BY <1>9, <2>4, <2>5 DEF Stable
    <2>7. QED
      BY <2>3, <2>6
  <1>21. Above(n, s[Len(s)])
    BY <1>6, <1>7, <1>8 DEF Above
  <1>22. \A b \in Class : h.classes[b] = t => g.classes[b] = t \/ b = n.class
    BY <1>8, <1>9, <1>13
  <1>23. StackOK(Append(s, n), t, h)
    <2>1. FrameShape(n, Len(s) + 1)
      BY <1>6, <1>16
    <2>2. ~Caching(n.steps)
      BY <1>8, <1>17
    <2>3. n.class \in Class => \A d \in 1..Len(s) : s[d].class # n.class
      BY <1>8, <1>20
    <2>4. \A d \in 1..Len(s) : Stable(s[d], t, g, h)
      BY <1>20
    <2>5. QED
      BY <1>15, <1>18, <1>19, <1>21, <1>22, <2>1, <2>2, <2>3, <2>4, Pushed
  <1>24. stack'[t] = Append(s, n) /\ DOMAIN stack' = Threads
         /\ \A u \in Threads \ {t} : stack'[u] = stack[u]
    BY <1>2, <1>5, <1>10
  <1>25. ASSUME NEW u \in Threads \ {t}
         PROVE  Respects(u, g, h)
    <2>1. \A b \in Class : /\ classes[b] = u <=> classes'[b] = u
                           /\ classes[b] = "failed" => classes'[b] = "failed"
      BY <1>11, <1>12, <1>13
    <2>2. QED
      BY <1>9, <2>1 DEF Respects
  <1>26. GlobalType'
    BY <1>13, <1>24 DEF CoreInv, GlobalType
  <1>27. LoadOK(h)
    <2>1. LoadOK(g)
      BY <1>3 DEF CoreInv
    <2>2. \A b \in Class : /\ h.classes[b] = "done" => g.classes[b] = "done"
                           /\ h.classes[b] = "none" => g.classes[b] = "none"
      BY <1>9, <1>11, <1>13
    <2>3. QED
      BY <1>9, <2>1, <2>2, ClassesApart DEF LoadOK
  <1>28. CacheOK(h)
    <2>1. CacheOK(g)
      BY <1>3 DEF CoreInv
    <2>2. QED
      BY <1>9, <2>1 DEF CacheOK
  <1>29. StackOK(stack'[t], t, Globals')
    BY <1>4, <1>23, <1>24
  <1>30. \A u \in Threads \ {t} : stack'[u] = stack[u] /\ Respects(u, Globals, Globals')
    BY <1>3, <1>4, <1>24, <1>25
  <1>31. QED
    BY <1>4, <1>26, <1>27, <1>28, <1>29, <1>30, ThreadKeeps

LEMMA UseClassKeeps ==
    ASSUME CoreInv, NEW t \in Threads, UseClass(t)
    PROVE  CoreInv'
  <1>1. PICK c : c = Now(t).class
    OBVIOUS
  <1>2. /\ At(t, {"use"}) /\ Depth(t) > 0
        /\ UNCHANGED <<system, file, library, LOADED, cache, weak, calls, loads>>
    BY DEF UseClass, At, Quietly
  <1>3. CASE classes[c] \in {"done", t} /\ Advance(t) /\ UNCHANGED <<classes, pending, mutex>>
    BY <1>1, <1>2, <1>3, UseDoneKeeps
  <1>4. CASE Fail(t) /\ UNCHANGED classes
    BY <1>2, <1>4, PlainFailKeeps
  <1>5. CASE /\ classes[c] = "none"
             /\ classes' = [classes EXCEPT ![c] = t]
             /\ \E steps \in Initializers(c) :
                    stack' = [stack EXCEPT ![t] = Append(@, Frame(c, steps))]
             /\ UNCHANGED <<pending, mutex>>
    BY <1>1, <1>2, <1>5, InitializeKeeps
  <1>6. QED
    BY <1>1, <1>3, <1>4, <1>5 DEF UseClass

LEMMA CheckLoadedKeeps ==
    ASSUME CoreInv, NEW t \in Threads, CheckLoaded(t)
    PROVE  CoreInv'
  <1>1. /\ Depth(t) > 0 /\ Top(t).steps # << >> /\ Head(Top(t).steps).op = "check"
        /\ Top(t) \in FrameSet /\ FrameShape(Top(t), Depth(t)) /\ FrameState(Top(t), t, Globals)
    BY TopFrame DEF CheckLoaded, At
  <1>2. CASE ~LOADED /\ Fail(t)
    BY <1>1, <1>2, PlainFailKeeps DEF CheckLoaded, Quietly
  <1>3. CASE LOADED /\ Advance(t) /\ UNCHANGED <<pending, mutex>>
    <2>1. Top(t).class \in Guarded /\ Tail(Top(t).steps) = << >>
      BY <1>1, LoaderFrame, LoaderSteps
    <2>2. PICK n : n = Frame(Top(t).class, << >>)
      OBVIOUS
    <2>3. n.class = Top(t).class /\ n.steps = << >>
      BY <2>2 DEF Frame
    <2>4. FrameShape(n, Depth(t)) /\ ~Caching(<< >>)
      BY <1>1, <2>2, EndedFrame
    <2>5. FrameState(n, t, Globals)
      <3>1. n.class # "Loader" /\ << >> # ToCheck
        BY <2>1, <2>3, ClassesApart, LoaderSteps
      <3>2. PICK g : g = Globals
        OBVIOUS
      <3>3. g.LOADED /\ FrameState(Top(t), t, g)
        BY <1>1, <1>3, <3>2, GlobalFields
      <3>4. FrameState(n, t, g)
        BY <2>3, <2>4, <3>1, <3>3 DEF FrameState
      <3>5. QED
        BY <3>2, <3>4
    <2>6. QED
      BY <1>1, <1>3, <2>1, <2>2, <2>4, <2>5, AdvanceKeeps DEF CheckLoaded, Quietly
  <1>4. QED
    BY <1>2, <1>3 DEF CheckLoaded

\* The loader's own steps.
LEMMA LoaderState ==
    ASSUME NEW t, NEW h, h.classes["Loader"] = t,
           NEW x \in {ToLoad, ToFinish, << >>},
           x = ToLoad => h.library = NoFile /\ h.cache = None /\ h.file # NoFile,
           x = ToFinish => h.library # NoFile /\ h.cache # None /\ h.file # NoFile,
           x = << >> => h.LOADED
    PROVE  /\ \A d : FrameShape(Frame("Loader", x), d)
           /\ FrameState(Frame("Loader", x), t, h)
           /\ ~Caching(x) /\ x \in Seq(StepSet)
  <1>1. PICK n : n = Frame("Loader", x)
    OBVIOUS
  <1>2. n.class = "Loader" /\ n.steps = x
    BY <1>1 DEF Frame
  <1>3. /\ ToFind \notin {ToLoad, ToFinish, << >>} /\ ToLoad # ToFinish
        /\ << >> \notin {ToLoad, ToFinish}
    BY LoaderSteps
  <1>4. ~Caching(x)
    <2>1. x = << >> => ~Caching(x)
      BY DEF Caching, Storing, Finding
    <2>2. QED
      BY <2>1, LoaderIsNotBody
  <1>5. x # << >> => ~Body(x, Cachable)
    BY LoaderIsNotBody
  <1>6. \A d : FrameShape(n, d)
    BY <1>2, ClassesApart DEF FrameShape, Methods
  <1>7. FrameState(n, t, h)
    BY <1>2, <1>3, <1>4, <1>5, ClassesApart DEF FrameState
  <1>8. x \in Seq(StepSet)
    BY LoaderSteps
  <1>9. QED
    BY <1>1, <1>4, <1>6, <1>7, <1>8

\* It goes on to one of them.
LEMMA LoaderKeeps ==
    ASSUME CoreInv, NEW t \in Threads, Depth(t) > 0, Top(t).class = "Loader",
           NEW x \in {ToLoad, ToFinish, << >>}, stack' = WithSteps(t, x),
           UNCHANGED <<system, classes, weak, mutex, pending, calls, loads>>,
           file' \in {NoFile} \union Found(system.platform, system.installed),
           LoadOK(Globals'), CacheOK(Globals'), LOADED' \in BOOLEAN, LOADED => LOADED',
           cache' = cache \/ mutex = None,
           x = ToLoad => library' = NoFile /\ cache' = None /\ file' # NoFile,
           x = ToFinish => library' # NoFile /\ cache' # None /\ file' # NoFile,
           x = << >> => LOADED'
    PROVE  CoreInv'
  <1>1. /\ Top(t) \in FrameSet /\ FrameState(Top(t), t, Globals)
    BY TopFrame
  <1>2. classes["Loader"] = t
    BY <1>1, GlobalFields, ClassesApart DEF FrameState
  <1>3. PICK h : h = Globals'
    OBVIOUS
  <1>4. /\ h.classes["Loader"] = t /\ h.library = library' /\ h.cache = cache' /\ h.file = file'
        /\ h.LOADED = LOADED'
    BY <1>2, <1>3, GlobalFields
  <1>5. /\ FrameShape(Frame("Loader", x), Depth(t)) /\ FrameState(Frame("Loader", x), t, h)
        /\ ~Caching(x) /\ x \in Seq(StepSet)
    BY <1>4, LoaderState
  <1>6. DOMAIN stack' = Threads
    BY <1>5, WithStepsIs
  <1>7. GlobalType'
    BY <1>6 DEF CoreInv, GlobalType
  <1>8. mutex \in Threads => mutex' = mutex /\ cache' = cache
    BY JniAssumption
  <1>9. QED
    BY <1>3, <1>5, <1>7, <1>8, TopKeeps

\* What is known at a step of the loader.
LEMMA AtLoader ==
    ASSUME CoreInv, NEW t \in Threads, At(t, {"find", "load", "loaded"})
    PROVE  /\ Depth(t) > 0 /\ Top(t).class = "Loader"
           /\ Now(t).op = "find" =>
                  /\ Tail(Top(t).steps) = ToLoad
                  /\ library = NoFile /\ cache = None
           /\ Now(t).op = "load" =>
                  /\ Tail(Top(t).steps) = ToFinish
                  /\ library = NoFile /\ cache = None /\ file # NoFile
           /\ Now(t).op = "loaded" =>
                  /\ Tail(Top(t).steps) = << >>
                  /\ library # NoFile /\ cache # None
           /\ ~LOADED \/ Now(t).op = "loaded"
           /\ classes["Loader"] = t
  <1>1. /\ Depth(t) > 0 /\ Top(t).steps # << >> /\ Now(t) = Head(Top(t).steps)
        /\ Now(t).op \in {"find", "load", "loaded"}
        /\ Top(t) \in FrameSet /\ FrameShape(Top(t), Depth(t)) /\ FrameState(Top(t), t, Globals)
    BY TopFrame DEF At, Now
  <1>2. /\ Top(t).class = "Loader"
        /\ Now(t).op = "find" => Top(t).steps = ToFind
        /\ Now(t).op = "load" => Top(t).steps = ToLoad
        /\ Now(t).op = "loaded" => Top(t).steps = ToFinish
    BY <1>1, LoaderFrame
  <1>3. PICK g : g = Globals
    OBVIOUS
  <1>4. PICK f : f = Top(t)
    OBVIOUS
  <1>5. /\ g.classes = classes /\ g.library = library /\ g.cache = cache /\ g.file = file
        /\ g.LOADED = LOADED
    BY <1>3, GlobalFields
  <1>6. /\ f.steps \in {ToFind, ToLoad} => library = NoFile /\ cache = None
        /\ f.steps \in {ToLoad, ToFinish} => file # NoFile
        /\ f.steps = ToFinish => library # NoFile /\ cache # None
        /\ classes["Loader"] = t
    BY <1>1, <1>2, <1>3, <1>4, <1>5, ClassesApart DEF FrameState
  <1>7. LOADED => cache # None
    BY GlobalFields DEF CoreInv, LoadOK
  <1>8. QED
    BY <1>1, <1>2, <1>4, <1>6, <1>7, LoaderSteps

LEMMA FindFileKeeps ==
    ASSUME CoreInv, NEW t \in Threads, FindFile(t)
    PROVE  CoreInv'
  <1>1. /\ At(t, {"find", "load", "loaded"}) /\ Now(t).op = "find"
        /\ file' \in {NoFile} \union Found(system.platform, system.installed)
        /\ UNCHANGED <<system, classes, library, LOADED, cache, weak, calls, loads>>
    BY DEF FindFile, At, Now, Quietly
  <1>2. /\ Depth(t) > 0 /\ Top(t).class = "Loader" /\ Tail(Top(t).steps) = ToLoad
        /\ library = NoFile /\ cache = None /\ classes["Loader"] = t
    BY <1>1, AtLoader
  <1>3. CASE Fail(t)
    BY <1>1, <1>2, <1>3, FailKeeps
  <1>4. CASE file' # NoFile /\ Advance(t) /\ UNCHANGED <<pending, mutex>>
    <2>1. stack' = WithSteps(t, ToLoad)
      BY <1>2, <1>4 DEF Advance
    <2>2. LoadOK(Globals') /\ CacheOK(Globals')
      BY <1>1, <1>2, GlobalFields DEF CoreInv, LoadOK, CacheOK
    <2>3. LOADED' \in BOOLEAN /\ (LOADED => LOADED')
      BY <1>1 DEF CoreInv, GlobalType
    <2>4. ToLoad # ToFinish /\ ToLoad # << >>
      BY LoaderSteps
    <2>5. QED
      BY <1>1, <1>2, <1>4, <2>1, <2>2, <2>3, <2>4, LoaderKeeps
  <1>5. QED
    BY <1>3, <1>4 DEF FindFile

LEMMA NewCacheIsCached == NewCache \in Cached /\ NewCache # None
  BY JniAssumption DEF NewCache, Cached

LEMMA LoadLibraryKeeps ==
    ASSUME CoreInv, NEW t \in Threads, LoadLibrary(t)
    PROVE  CoreInv'
  <1>1. /\ At(t, {"find", "load", "loaded"}) /\ Now(t).op = "load"
        /\ UNCHANGED <<system, classes, file, LOADED, weak, calls, loads>>
    BY DEF LoadLibrary, At, Now, Quietly
  <1>2. /\ Depth(t) > 0 /\ Top(t).class = "Loader" /\ Tail(Top(t).steps) = ToFinish
        /\ library = NoFile /\ cache = None /\ file # NoFile /\ ~LOADED /\ classes["Loader"] = t
    BY <1>1, AtLoader
  <1>3. CASE Fail(t) /\ UNCHANGED <<library, cache>>
    BY <1>1, <1>2, <1>3, PlainFailKeeps
  <1>4. CASE /\ mutex = None /\ library' = file /\ cache' = NewCache /\ Advance(t)
             /\ UNCHANGED <<pending, mutex>>
    <2>1. stack' = WithSteps(t, ToFinish)
      BY <1>2, <1>4 DEF Advance
    <2>2. LoadOK(Globals')
      <3>1. LoadOK(Globals)
        BY DEF CoreInv
      <3>2. t # "none"
        BY JniAssumption
      <3>3. QED
        BY <1>1, <1>2, <1>4, <3>1, <3>2, GlobalFields DEF LoadOK
    <2>3. CacheOK(Globals')
      <3>1. DOMAIN weak = {}
        BY <1>2, GlobalFields DEF CoreInv, CacheOK
      <3>2. NewCache.classes = {} /\ NewCache.methods = {}
        BY DEF NewCache
      <3>3. QED
        BY <1>1, <1>4, <3>1, <3>2, NewCacheIsCached, GlobalFields DEF CacheOK
    <2>4. LOADED' \in BOOLEAN /\ (LOADED => LOADED')
      BY <1>1 DEF CoreInv, GlobalType
    <2>5. ToLoad # ToFinish /\ ToFinish # << >>
      BY LoaderSteps
    <2>6. file' \in {NoFile} \union Found(system.platform, system.installed)
      BY <1>1 DEF CoreInv, GlobalType
    <2>7. QED
      BY <1>1, <1>2, <1>4, <2>1, <2>2, <2>3, <2>4, <2>5, <2>6, NewCacheIsCached, LoaderKeeps
  <1>5. QED
    BY <1>2, <1>3, <1>4 DEF LoadLibrary

LEMMA SetLoadedKeeps ==
    ASSUME CoreInv, NEW t \in Threads, SetLoaded(t)
    PROVE  CoreInv'
  <1>1. /\ At(t, {"find", "load", "loaded"}) /\ Now(t).op = "loaded" /\ LOADED'
        /\ LOADED' = TRUE
        /\ UNCHANGED <<system, classes, file, library, cache, weak, mutex, pending, calls, loads>>
    BY DEF SetLoaded, At, Now, Quietly
  <1>2. /\ Depth(t) > 0 /\ Top(t).class = "Loader" /\ Tail(Top(t).steps) = << >>
        /\ library # NoFile /\ cache # None /\ classes["Loader"] = t
    BY <1>1, AtLoader
  <1>3. stack' = WithSteps(t, << >>)
    BY <1>2 DEF SetLoaded, Advance
  <1>4. LoadOK(Globals') /\ CacheOK(Globals')
    <2>1. LoadOK(Globals) /\ CacheOK(Globals)
      BY DEF CoreInv
    <2>2. LoadOK(Globals')
      BY <1>1, <1>2, <2>1, GlobalFields DEF LoadOK
    <2>3. CacheOK(Globals')
      BY <1>1, <2>1, GlobalFields DEF CacheOK
    <2>4. QED
      BY <2>2, <2>3
  <1>5. << >> # ToLoad /\ << >> # ToFinish
    BY LoaderSteps
  <1>6. file' \in {NoFile} \union Found(system.platform, system.installed)
    BY <1>1 DEF CoreInv, GlobalType
  <1>7. QED
    BY <1>1, <1>2, <1>3, <1>4, <1>5, <1>6, LoaderKeeps

-----------------------------------------------------------------------------
(* The cache. *)

\* FindClass() and storing the class come before the rest of the method.
LEMMA FindAndStore ==
    ASSUME NEW C, C \subseteq Cachable, NEW c \in C, NEW s \in Seq(NativeStep(C))
    PROVE  /\ Finding(Use(c) \o Step("store", c, "") \o s, C)
           /\ Use(c) \o Step("store", c, "") \o s \in Seq(StepSet)
           /\ Head(Use(c) \o Step("store", c, "") \o s).class = c
  <1>1. PICK x : x = [op |-> "use", class |-> c, member |-> ""]
    OBVIOUS
  <1>2. PICK y : y = [op |-> "store", class |-> c, member |-> ""]
    OBVIOUS
  <1>3. /\ x \in StepSet /\ x.op = "use" /\ x.class = c
        /\ y \in StepSet /\ y.op = "store" /\ y.class = c
    BY <1>1, <1>2, ClassesApart DEF StepSet, Ops
  <1>4. s \in Seq(StepSet)
    <2>1. NativeStep(C) \subseteq StepSet
      BY DEF NativeStep
    <2>2. QED
      BY <2>1, SeqMonotone
  <1>5. PICK r : r = <<y>> \o s
    OBVIOUS
  <1>6. r \in Seq(StepSet) /\ r # << >> /\ Head(r) = y /\ Tail(r) = s
    BY <1>3, <1>4, <1>5, ConsProperties
  <1>7. PICK q : q = <<x>> \o r
    OBVIOUS
  <1>8. q \in Seq(StepSet) /\ q # << >> /\ Head(q) = x /\ Tail(q) = r
    BY <1>3, <1>6, <1>7, ConsProperties
  <1>9. Use(c) \o Step("store", c, "") \o s = q
    <2>1. <<x>> \in Seq(StepSet) /\ <<y>> \in Seq(StepSet)
      BY <1>3, OneElement
    <2>2. (<<x>> \o <<y>>) \o s = q
      BY <1>4, <1>5, <1>7, <2>1, ConcatAssociative
    <2>3. Use(c) = <<x>> /\ Step("store", c, "") = <<y>>
      BY <1>1, <1>2 DEF Use, Step
    <2>4. QED
      BY <2>2, <2>3
  <1>10. Storing(r, C)
    BY <1>3, <1>6 DEF Storing
  <1>11. Finding(q, C)
    BY <1>3, <1>6, <1>8, <1>10 DEF Finding
  <1>12. QED
    BY <1>3, <1>8, <1>9, <1>11

LEMMA LookupClassKeeps ==
    ASSUME CoreInv, NEW t \in Threads, LookupClass(t)
    PROVE  CoreInv'
  <1>1. PICK c : c = Now(t).class
    OBVIOUS
  <1>2. /\ At(t, NativeOps) /\ mutex = None /\ Now(t).op = "class"
        /\ UNCHANGED <<system, classes, file, library, LOADED, cache, weak, calls, loads>>
    BY DEF LookupClass, At, Now, NativeOps, Quietly
  <1>3. CASE Fail(t)
    BY <1>2, <1>3, PlainFailKeeps, AtNative
  <1>4. CASE Advance(t) /\ UNCHANGED <<mutex, pending>>
    BY <1>2, <1>4, NativeAdvanceKeeps
  <1>5. CASE /\ c \notin cache.classes
             /\ mutex' = t
             /\ stack' = WithSteps(t, Use(c) \o Step("store", c, "") \o Tail(Top(t).steps))
             /\ UNCHANGED pending
    <2>1. PICK x : x = Use(c) \o Step("store", c, "") \o Tail(Top(t).steps)
      OBVIOUS
    <2>2. /\ Depth(t) > 0 /\ Top(t).class \in Methods
          /\ Now(t) \in NativeStep(Looks(Top(t)))
          /\ Tail(Top(t).steps) \in Seq(NativeStep(Looks(Top(t)))) /\ LOADED
      BY <1>2, AtNative
    <2>3. c \in Looks(Top(t))
      BY <1>1, <1>2, <2>2 DEF NativeStep
    <2>4. Finding(x, Looks(Top(t))) /\ x \in Seq(StepSet) /\ Head(x).class = c
      BY <2>1, <2>2, <2>3, LooksType, FindAndStore
    <2>5. Top(t) \in FrameSet /\ FrameShape(Top(t), Depth(t)) /\ FrameState(Top(t), t, Globals)
      BY <2>2, TopFrame
    <2>6. FrameShape(Frame(Top(t).class, x), Depth(t))
      BY <2>2, <2>4, <2>5, NativeFrameStays DEF Body
    <2>7. FrameState(Frame(Top(t).class, x), t, Globals')
      <3>1. PICK n : n = Frame(Top(t).class, x)
        OBVIOUS
      <3>2. PICK h : h = Globals'
        OBVIOUS
      <3>3. n.class = Top(t).class /\ n.steps = x
        BY <3>1 DEF Frame
      <3>4. h.classes = classes /\ h.LOADED /\ h.mutex = t /\ h.cache = cache
        BY <1>2, <1>5, <2>2, <3>2, GlobalFields
      <3>5. n.class \in Class => h.classes[n.class] = t
        BY <2>5, <3>3, <3>4, GlobalFields DEF FrameState
      <3>6. n.class # "Loader" /\ n.class \notin Guarded
        BY <2>2, <3>3, ClassesApart
      <3>7. FrameState(n, t, h)
        BY <1>5, <2>4, <3>3, <3>4, <3>5, <3>6 DEF FrameState
      <3>8. QED
        BY <3>1, <3>2, <3>7
    <2>8. DOMAIN stack' = Threads
      BY <1>5, <2>1, <2>2, <2>4, WithStepsIs
    <2>9. GlobalType' /\ LoadOK(Globals') /\ CacheOK(Globals')
      <3>1. file' \in {NoFile} \union Found(system.platform, system.installed)
        BY <1>2 DEF CoreInv, GlobalType
      <3>2. pending' \in [Threads -> BOOLEAN]
        BY <1>5 DEF CoreInv, GlobalType
      <3>3. QED
        BY <1>2, <1>5, <2>8, <3>1, <3>2, GlobalsKept
    <2>10. mutex \notin Threads
      BY <1>2, JniAssumption
    <2>11. QED
      BY <1>2, <1>5, <2>1, <2>2, <2>4, <2>6, <2>7, <2>9, <2>10, TopKeeps
  <1>6. QED
    BY <1>1, <1>3, <1>4, <1>5 DEF LookupClass

\* A weak reference for a key that had none.
LEMMA ReferencedOnce ==
    ASSUME NEW key, key \notin DOMAIN weak, \A k \in DOMAIN weak : weak[k] = 1
    PROVE  /\ DOMAIN Referenced(key) = DOMAIN weak \union {key}
           /\ \A k \in DOMAIN Referenced(key) : Referenced(key)[k] = 1
  <1>1. DOMAIN Referenced(key) = DOMAIN weak \union {key}
    BY DEF Referenced
  <1>2. ASSUME NEW k \in DOMAIN weak \union {key}
        PROVE  Referenced(key)[k] = 1
    <2>1. Referenced(key)[k] = Count(k) + (IF k = key THEN 1 ELSE 0)
      BY DEF Referenced
    <2>2. CASE k = key
      <3>1. Count(k) = 0
        BY <2>2 DEF Count
      <3>2. QED
        BY <2>1, <2>2, <3>1
    <2>3. CASE k # key
      <3>1. Count(k) = 1
        BY <2>3 DEF Count
      <3>2. QED
        BY <2>1, <2>3, <3>1
    <2>4. QED
      BY <2>2, <2>3
  <1>3. QED
    BY <1>1, <1>2

LEMMA CacheParts ==
    ASSUME NEW m \in Cached
    PROVE  /\ m.classes \in SUBSET Cachable /\ m.methods \in SUBSET (Cachable \X Member)
           /\ \A C \in SUBSET Cachable : /\ [m EXCEPT !.classes = C] \in Cached
                                         /\ [m EXCEPT !.classes = C].classes = C
                                         /\ [m EXCEPT !.classes = C].methods = m.methods
           /\ \A M \in SUBSET (Cachable \X Member) :
                  /\ [m EXCEPT !.methods = M] \in Cached
                  /\ [m EXCEPT !.methods = M].classes = m.classes
                  /\ [m EXCEPT !.methods = M].methods = M
  <1> DEFINE A == SUBSET Cachable
             B == SUBSET (Cachable \X Member)
  <1>1. Cached = [classes : A, methods : B]
    BY DEF Cached
  <1> HIDE DEF A, B
  <1>2. m.classes \in A /\ m.methods \in B
    BY <1>1
  <1>3. \A C \in A : /\ [m EXCEPT !.classes = C] \in Cached
                     /\ [m EXCEPT !.classes = C].classes = C
                     /\ [m EXCEPT !.classes = C].methods = m.methods
    BY <1>1
  <1>4. \A M \in B : /\ [m EXCEPT !.methods = M] \in Cached
                     /\ [m EXCEPT !.methods = M].classes = m.classes
                     /\ [m EXCEPT !.methods = M].methods = M
    BY <1>1
  <1>5. QED
    BY <1>2, <1>3, <1>4 DEF A, B

\* The keys of classes and of methods are apart.
LEMMA KeysApart ==
    /\ "" \notin Member
    /\ \A b, c : ClassKey(b) = ClassKey(c) => b = c
    /\ \A c, M : M \in SUBSET (Cachable \X Member) => ClassKey(c) \notin M
  <1>1. "" \notin Member
    BY DEF Member
  <1>2. \A c : ClassKey(c)[1] = c /\ ClassKey(c)[2] = ""
    BY DEF ClassKey
  <1>3. \A key \in Cachable \X Member : key[2] \in Member
    OBVIOUS
  <1>4. \A c : \A key \in Cachable \X Member : key # ClassKey(c)
    BY <1>1, <1>2, <1>3
  <1>5. ASSUME NEW b, NEW c, ClassKey(b) = ClassKey(c)
        PROVE  b = c
    <2>1. ClassKey(b)[1] = b /\ ClassKey(c)[1] = c
      BY <1>2
    <2>2. QED
      BY <1>5, <2>1
  <1>6. ASSUME NEW c, NEW M \in SUBSET (Cachable \X Member)
        PROVE  ClassKey(c) \notin M
    BY <1>4
  <1>7. QED
    BY <1>1, <1>5, <1>6

\* Something comes into the cache, with its reference.
LEMMA CacheGrows ==
    ASSUME CoreInv, cache # None, cache' \in Cached, NEW key, key \notin DOMAIN weak,
           weak' = Referenced(key),
           {ClassKey(c) : c \in cache'.classes} \union cache'.methods
               = {ClassKey(c) : c \in cache.classes} \union cache.methods \union {key},
           UNCHANGED <<system, classes, file, library, LOADED, pending, calls, loads>>,
           mutex' \in {None} \union Threads, DOMAIN stack' = Threads
    PROVE  GlobalType' /\ LoadOK(Globals') /\ CacheOK(Globals')
  <1>1. GlobalType'
    BY DEF CoreInv, GlobalType
  <1>2. cache' # None
    BY JniAssumption
  <1>3. LoadOK(Globals')
    <2>1. LoadOK(Globals)
      BY DEF CoreInv
    <2>2. QED
      BY <1>2, <2>1, GlobalFields DEF LoadOK
  <1>4. CacheOK(Globals')
    <2>1. CacheOK(Globals)
      BY DEF CoreInv
    <2>2. /\ DOMAIN weak = {ClassKey(c) : c \in cache.classes} \union cache.methods
          /\ \A k \in DOMAIN weak : weak[k] = 1
      BY <2>1, GlobalFields DEF CacheOK
    <2>3. PICK w : w = weak'
      OBVIOUS
    <2>4. /\ DOMAIN w = DOMAIN weak \union {key}
          /\ \A k \in DOMAIN w : w[k] = 1
      BY <2>2, <2>3, ReferencedOnce
    <2>5. PICK h : h = Globals'
      OBVIOUS
    <2>6. PICK m : m = cache'
      OBVIOUS
    <2>7. h.cache = m /\ h.weak = w /\ m \in Cached /\ m # None
      BY <1>2, <2>3, <2>5, <2>6, GlobalFields
    <2>8. DOMAIN w = {ClassKey(c) : c \in m.classes} \union m.methods
      BY <2>2, <2>4, <2>6
    <2>9. CacheOK(h)
      BY <2>4, <2>7, <2>8 DEF CacheOK
    <2>10. QED
      BY <2>5, <2>9
  <1>5. QED
    BY <1>1, <1>3, <1>4

\* What is known at the step that stores a class.
LEMMA AtStore ==
    ASSUME CoreInv, NEW t \in Threads, At(t, {"store"})
    PROVE  /\ Depth(t) > 0 /\ Top(t).steps # << >> /\ Top(t).class \in Methods
           /\ Body(Top(t).steps, Cachable) /\ Caching(Top(t).steps)
           /\ Now(t).class \in Cachable
           /\ Tail(Top(t).steps) \in Seq(NativeStep(Looks(Top(t))))
           /\ LOADED /\ cache # None /\ library # NoFile
           /\ mutex = t /\ Now(t).class \notin cache.classes
  <1>1. /\ Depth(t) > 0 /\ Top(t).steps # << >> /\ Head(Top(t).steps).op = "store"
        /\ Top(t) \in FrameSet /\ FrameShape(Top(t), Depth(t)) /\ FrameState(Top(t), t, Globals)
    BY TopFrame DEF At
  <1>2. Top(t).class \in Methods /\ Body(Top(t).steps, Looks(Top(t)))
    BY <1>1, NativeFrame
  <1>3. Storing(Top(t).steps, Looks(Top(t)))
    BY <1>1, <1>2, BodyHead DEF NativeOps
  <1>4. Caching(Top(t).steps) /\ Body(Top(t).steps, Cachable)
    BY <1>2, <1>3, LooksType, BodyMonotone DEF Caching
  <1>5. Now(t).class \in Cachable /\ Tail(Top(t).steps) \in Seq(NativeStep(Looks(Top(t))))
    BY <1>3, LooksType DEF Storing, Now
  <1>6. LOADED /\ mutex = t /\ Now(t).class \notin cache.classes
    BY <1>1, <1>4, GlobalFields DEF FrameState, Now
  <1>7. cache # None /\ library # NoFile
    BY <1>6, GlobalFields DEF CoreInv, LoadOK
  <1>8. QED
    BY <1>1, <1>2, <1>4, <1>5, <1>6, <1>7

LEMMA StoreGoesOnKeeps ==
    ASSUME CoreInv, NEW t \in Threads, At(t, {"store"}),
           cache' = [cache EXCEPT !.classes = @ \union {Now(t).class}],
           weak' = Referenced(ClassKey(Now(t).class)), mutex' = None, Advance(t),
           UNCHANGED <<system, classes, file, library, LOADED, pending, calls, loads>>
    PROVE  CoreInv'
  <1>1. PICK x : x = Tail(Top(t).steps)
    OBVIOUS
  <1>2. PICK c : c = Now(t).class
    OBVIOUS
  <1>3. PICK m : m = [cache EXCEPT !.classes = @ \union {c}]
    OBVIOUS
  <1>4. /\ Depth(t) > 0 /\ Top(t).steps # << >> /\ Top(t).class \in Methods
        /\ Body(Top(t).steps, Cachable) /\ Caching(Top(t).steps)
        /\ c \in Cachable /\ c \notin cache.classes
        /\ x \in Seq(NativeStep(Looks(Top(t))))
        /\ LOADED /\ cache # None
    BY <1>1, <1>2, AtStore
  <1>5. /\ Top(t) \in FrameSet /\ FrameShape(Top(t), Depth(t)) /\ FrameState(Top(t), t, Globals)
    BY <1>4, TopFrame
  <1>6. /\ stack' = WithSteps(t, x) /\ cache' = m /\ weak' = Referenced(ClassKey(c))
        /\ mutex' = None
        /\ UNCHANGED <<system, classes, file, library, LOADED, pending, calls, loads>>
    BY <1>1, <1>2, <1>3 DEF Advance
  <1>7. x \in Seq(Native) /\ x \in Seq(StepSet)
    <2>1. x \in Seq(Native)
      BY <1>4, LooksType, BodyMonotone
    <2>2. Native \subseteq StepSet
      BY DEF Native, NativeStep
    <2>3. QED
      BY <2>1, <2>2, SeqMonotone
  <1>8. FrameShape(Frame(Top(t).class, x), Depth(t))
    BY <1>4, <1>5, NativeFrameStays DEF Body
  <1>9. FrameState(Frame(Top(t).class, x), t, Globals') /\ ~Caching(x)
    <2>1. PICK h : h = Globals'
      OBVIOUS
    <2>2. h.LOADED /\ (Top(t).class \in Class => h.classes[Top(t).class] = t)
      BY <1>4, <1>5, <1>6, <2>1, GlobalFields DEF FrameState
    <2>3. FrameState(Frame(Top(t).class, x), t, h) /\ ~Caching(x)
      BY <1>4, <1>5, <1>7, <2>2, NativeState
    <2>4. QED
      BY <2>1, <2>3
  <1>10. /\ cache \in Cached
         /\ DOMAIN weak = {ClassKey(b) : b \in cache.classes} \union cache.methods
    BY <1>4, GlobalFields DEF CoreInv, CacheOK
  <1>11. /\ m \in Cached /\ m.classes = cache.classes \union {c}
         /\ m.methods = cache.methods
    <2>1. cache.classes \union {c} \in SUBSET Cachable
      BY <1>4, <1>10, CacheParts
    <2>2. m = [cache EXCEPT !.classes = cache.classes \union {c}]
      BY <1>3
    <2>3. QED
      BY <1>10, <2>1, <2>2, CacheParts
  <1>12. ClassKey(c) \notin DOMAIN weak
    <2>1. ClassKey(c) \notin cache.methods
      <3>1. cache.methods \in SUBSET (Cachable \X Member)
        BY <1>10, CacheParts
      <3>2. QED
        BY <3>1, KeysApart
    <2>2. ASSUME NEW b \in cache.classes
          PROVE  ClassKey(c) # ClassKey(b)
      BY <1>4, KeysApart
    <2>3. QED
      BY <1>10, <2>1, <2>2
  <1>13. {ClassKey(b) : b \in cache'.classes} \union cache'.methods
             = {ClassKey(b) : b \in cache.classes} \union cache.methods \union {ClassKey(c)}
    <2>1. {ClassKey(b) : b \in m.classes}
              = {ClassKey(b) : b \in cache.classes} \union {ClassKey(c)}
      BY <1>11
    <2>2. QED
      BY <1>6, <1>11, <2>1
  <1>14. DOMAIN stack' = Threads
    BY <1>4, <1>6, <1>7, WithStepsIs
  <1>15. GlobalType' /\ LoadOK(Globals') /\ CacheOK(Globals')
    BY <1>4, <1>6, <1>11, <1>12, <1>13, <1>14, CacheGrows
  <1>16. cache' # None
    BY <1>6, <1>11, JniAssumption
  <1>17. QED
    BY <1>4, <1>6, <1>7, <1>8, <1>9, <1>15, <1>16, TopKeeps

LEMMA StoreClassKeeps ==
    ASSUME CoreInv, NEW t \in Threads, StoreClass(t)
    PROVE  CoreInv'
  <1>1. /\ At(t, {"store"}) /\ Depth(t) > 0
        /\ UNCHANGED <<system, classes, file, library, LOADED, calls, loads>>
    BY DEF StoreClass, At, Quietly
  <1>2. CASE Fail(t) /\ UNCHANGED <<cache, weak>>
    BY <1>1, <1>2, PlainFailKeeps
  <1>3. CASE /\ cache' = [cache EXCEPT !.classes = @ \union {Now(t).class}]
             /\ weak' = Referenced(ClassKey(Now(t).class)) /\ mutex' = None /\ Advance(t)
             /\ UNCHANGED pending
    BY <1>1, <1>3, StoreGoesOnKeeps
  <1>4. QED
    BY <1>2, <1>3 DEF StoreClass

LEMMA LookupMethodKeeps ==
    ASSUME CoreInv, NEW t \in Threads, LookupMethod(t)
    PROVE  CoreInv'
  <1>1. PICK key : key = <<Now(t).class, Now(t).member>>
    OBVIOUS
  <1>2. /\ At(t, NativeOps) /\ mutex = None /\ Now(t).op = "method"
        /\ UNCHANGED <<system, classes, file, library, LOADED, calls, loads>>
    BY DEF LookupMethod, At, Now, NativeOps, Quietly
  <1>3. CASE Fail(t) /\ UNCHANGED <<cache, weak>>
    BY <1>2, <1>3, PlainFailKeeps, AtNative
  <1>4. CASE Advance(t) /\ UNCHANGED <<cache, weak, mutex, pending>>
    BY <1>2, <1>4, NativeAdvanceKeeps
  <1>5. CASE /\ key \notin cache.methods
             /\ cache' = [cache EXCEPT !.methods = @ \union {key}]
             /\ weak' = Referenced(key)
             /\ Advance(t)
             /\ UNCHANGED <<mutex, pending>>
    <2>1. PICK x : x = Tail(Top(t).steps)
      OBVIOUS
    <2>2. PICK m : m = [cache EXCEPT !.methods = @ \union {key}]
      OBVIOUS
    <2>3. /\ Depth(t) > 0 /\ Top(t).class \in Methods
          /\ Now(t) \in NativeStep(Looks(Top(t)))
          /\ x \in Seq(NativeStep(Looks(Top(t)))) /\ LOADED /\ cache # None
      BY <1>2, <2>1, AtNative
    <2>4. key \in Cachable \X Member
      BY <1>1, <1>2, <2>3 DEF NativeStep
    <2>5. /\ cache \in Cached
          /\ DOMAIN weak = {ClassKey(b) : b \in cache.classes} \union cache.methods
      BY <2>3, GlobalFields DEF CoreInv, CacheOK
    <2>6. m \in Cached /\ m.classes = cache.classes /\ m.methods = cache.methods \union {key}
      <3>1. cache.methods \union {key} \in SUBSET (Cachable \X Member)
        BY <2>4, <2>5, CacheParts
      <3>2. m = [cache EXCEPT !.methods = cache.methods \union {key}]
        BY <2>2
      <3>3. QED
        BY <2>5, <3>1, <3>2, CacheParts
    <2>7. key \notin DOMAIN weak
      <3>1. {key} \in SUBSET (Cachable \X Member)
        BY <2>4
      <3>2. \A b : key # ClassKey(b)
        BY <3>1, KeysApart
      <3>3. QED
        BY <1>5, <2>5, <3>2
    <2>8. stack' = WithSteps(t, x) /\ cache' = m
      BY <1>5, <2>1, <2>2 DEF Advance
    <2>9. {ClassKey(b) : b \in cache'.classes} \union cache'.methods
              = {ClassKey(b) : b \in cache.classes} \union cache.methods \union {key}
      BY <2>6, <2>8
    <2>10. /\ x \in Seq(StepSet)
           /\ FrameShape(Frame(Top(t).class, x), Depth(t))
           /\ FrameState(Frame(Top(t).class, x), t, Globals')
           /\ ~Caching(x)
      BY <1>2, <2>3, NativeGoesOn
    <2>11. DOMAIN stack' = Threads
      BY <2>3, <2>8, <2>10, WithStepsIs
    <2>12. mutex' \in {None} \union Threads
      BY <1>2, <1>5
    <2>13. GlobalType' /\ LoadOK(Globals') /\ CacheOK(Globals')
      BY <1>2, <1>5, <2>3, <2>6, <2>7, <2>8, <2>9, <2>11, <2>12, CacheGrows
    <2>14. mutex \notin Threads /\ cache' # None
      BY <1>2, <2>6, <2>8, JniAssumption
    <2>15. QED
      BY <1>2, <1>5, <2>3, <2>8, <2>10, <2>13, <2>14, TopKeeps
  <1>6. QED
    BY <1>1, <1>3, <1>4, <1>5 DEF LookupMethod

-----------------------------------------------------------------------------
(* Frames that come and go. *)

LEMMA NativeIsNotCaching ==
    ASSUME NEW x \in Seq(Native)
    PROVE  ~Caching(x)
  <1>1. x # << >> => Head(x).op \in NativeOps
    BY HeadTail DEF Native, NativeStep
  <1>2. QED
    BY <1>1 DEF Caching, Storing, Finding, NativeOps

LEMMA ConstructListKeeps ==
    ASSUME CoreInv, NEW t \in Threads, ConstructList(t)
    PROVE  CoreInv'
  <1>1. PICK s : s = stack[t]
    OBVIOUS
  <1>2. PICK g : g = Globals
    OBVIOUS
  <1>3. PICK x : x = Tail(Top(t).steps)
    OBVIOUS
  <1>4. PICK y : y = ListSteps(Now(t).member)
    OBVIOUS
  <1>5. PICK n : n = Frame(s[Len(s)].class, x)
    OBVIOUS
  <1>6. PICK f : f = Frame("list", y)
    OBVIOUS
  <1>7. PICK r : r = [s EXCEPT ![Len(s)] = n]
    OBVIOUS
  <1>8. /\ At(t, NativeOps) /\ Now(t).op = "list"
        /\ UNCHANGED <<system, classes, file, library, LOADED, cache, weak, mutex, pending,
                       calls, loads>>
        /\ stack' = [WithSteps(t, x) EXCEPT ![t] = Append(@, f)]
    BY <1>3, <1>4, <1>6 DEF ConstructList, At, Now, NativeOps, Quietly
  <1>9. Globals' = g
    BY <1>2, <1>8 DEF Globals
  <1>10. /\ Depth(t) > 0 /\ Now(t) \in NativeStep(Looks(Top(t))) /\ LOADED
         /\ x \in Seq(NativeStep(Looks(Top(t))))
    BY <1>3, <1>8, AtNative
  <1>11. /\ StackOK(s, t, g) /\ s \in Seq(FrameSet) /\ s # << >>
         /\ Len(s) \in Nat \ {0} /\ Depth(t) = Len(s) /\ Top(t) = s[Len(s)]
    BY <1>1, <1>2, <1>10, TopFrame DEF CoreInv
  <1>12. /\ x \in Seq(StepSet) /\ FrameShape(n, Len(s)) /\ FrameState(n, t, g) /\ ~Caching(x)
    BY <1>5, <1>8, <1>9, <1>10, <1>11, NativeGoesOn
  <1>13. StackOK(r, t, g)
    <2>1. \A d \in 1..Len(s) - 1 : Stable(s[d], t, g, g)
      BY <1>10, <1>2, GlobalFields DEF Stable
    <2>2. QED
      BY <1>5, <1>7, <1>11, <1>12, <2>1, Replaced
  <1>14. r \in Seq(FrameSet) /\ Len(r) = Len(s)
    <2>1. Len(s) \in 1..Len(s)
      BY <1>11
    <2>2. n \in FrameSet
      <3>1. s[Len(s)] \in FrameSet
        BY <1>11, <2>1, ElementOfSeq
      <3>2. QED
        BY <1>5, <1>12, <3>1 DEF FrameSet, Frame
    <2>3. QED
      BY <1>7, <1>11, <2>2, ReplaceLemma
  <1>15. /\ y \in Seq(NativeStep({"ArrayList"})) /\ y \in Seq(StepSet)
    <2>1. Now(t).member \in Member
      BY <1>8, <1>10 DEF NativeStep
    <2>2. QED
      BY <1>4, <2>1, ListShape
  <1>16. /\ f.class = "list" /\ f.steps = y /\ f \in FrameSet
    BY <1>6, <1>15 DEF Frame, FrameSet
  <1>17. ~Caching(f.steps)
    <2>1. y \in Seq(Native)
      BY <1>15, ClassesApart, BodyMonotone
    <2>2. QED
      BY <1>16, <2>1, NativeIsNotCaching
  <1>18. FrameShape(f, Len(r) + 1)
    <2>1. Body(f.steps, {"ArrayList"})
      BY <1>15, <1>16 DEF Body
    <2>2. f.class \notin Class /\ f.class # ""
      BY <1>16, ClassesApart
    <2>3. Len(r) + 1 > 1
      BY <1>11, <1>14
    <2>4. QED
      BY <1>16, <2>1, <2>2, <2>3, ClassesApart DEF FrameShape
  <1>19. FrameState(f, t, g)
    <2>1. g.LOADED
      BY <1>2, <1>10, GlobalFields
    <2>2. f.class \notin Class
      BY <1>16, ClassesApart
    <2>3. QED
      BY <1>17, <2>1, <2>2, ClassesApart DEF FrameState
  <1>20. StackOK(Append(r, f), t, g)
    <2>1. f.class \notin Class
      BY <1>16, ClassesApart
    <2>2. \A d \in 1..Len(r) : Stable(r[d], t, g, g)
      BY <1>10, <1>2, GlobalFields DEF Stable
    <2>3. Above(f, r[Len(r)])
      BY <2>1 DEF Above
    <2>4. QED
      BY <1>13, <1>16, <1>17, <1>18, <1>19, <2>1, <2>2, <2>3, Pushed
  <1>21. /\ DOMAIN stack' = Threads /\ stack'[t] = Append(r, f)
         /\ \A u \in Threads \ {t} : stack'[u] = stack[u]
    <2>1. /\ DOMAIN WithSteps(t, x) = Threads /\ WithSteps(t, x)[t] = r
          /\ \A u \in Threads \ {t} : WithSteps(t, x)[u] = stack[u]
      BY <1>1, <1>5, <1>7, <1>10, <1>12, WithStepsIs
    <2>2. PICK w : w = WithSteps(t, x)
      OBVIOUS
    <2>3. stack' = [w EXCEPT ![t] = Append(@, f)]
      BY <1>8, <2>2
    <2>4. QED
      BY <2>1, <2>2, <2>3
  <1>22. GlobalType' /\ LoadOK(Globals') /\ CacheOK(Globals')
    <2>1. GlobalType'
      BY <1>8, <1>21 DEF CoreInv, GlobalType
    <2>2. QED
      BY <1>2, <1>9, <2>1 DEF CoreInv
  <1>23. \A u \in Threads \ {t} : Respects(u, g, g)
    BY DEF Respects
  <1>24. StackOK(stack'[t], t, Globals')
    BY <1>9, <1>20, <1>21
  <1>25. \A u \in Threads \ {t} : stack'[u] = stack[u] /\ Respects(u, Globals, Globals')
    BY <1>2, <1>9, <1>21, <1>23
  <1>26. QED
    BY <1>22, <1>24, <1>25, ThreadKeeps

\* A client calls: the first frame.
LEMMA StartKeeps ==
    ASSUME CoreInv, NEW t \in Threads, Start(t)
    PROVE  CoreInv'
  <1>1. PICK p \in Programs : stack' = [stack EXCEPT ![t] = <<Frame("", p)>>]
    BY DEF Start
  <1>2. PICK n : n = Frame("", p)
    OBVIOUS
  <1>3. PICK g : g = Globals
    OBVIOUS
  <1>4. /\ UNCHANGED <<system, classes, file, library, LOADED, cache, weak, mutex, pending, loads>>
        /\ stack[t] = << >> /\ calls < MaxCalls /\ calls' = calls + 1
    BY DEF Start
  <1>5. Globals' = g
    BY <1>3, <1>4 DEF Globals
  <1>6. Using(p, Guarded \union Enums) /\ p \in Seq(StepSet)
    BY ProgramShape
  <1>7. n.class = "" /\ n.steps = p /\ n \in FrameSet
    BY <1>2, <1>6 DEF Frame, FrameSet
  <1>8. FrameShape(n, 1)
    BY <1>6, <1>7, ClassesApart DEF FrameShape
  <1>9. ~Body(p, Cachable) /\ ~Caching(p)
    BY <1>6, UsingIsNotBody
  <1>10. FrameState(n, t, g)
    BY <1>7, <1>9, ClassesApart DEF FrameState
  <1>11. PICK s : s = << >> /\ s = stack[t]
    BY <1>4
  <1>12. StackOK(s, t, g)
    BY <1>3, <1>11 DEF CoreInv
  <1>13. Len(s) = 0 /\ Append(s, n) = <<n>>
    BY <1>11
  <1>14. StackOK(Append(s, n), t, g)
    <2>1. FrameShape(n, Len(s) + 1)
      BY <1>8, <1>13
    <2>2. \A d \in 1..Len(s) : Stable(s[d], t, g, g) /\ s[d].class # n.class
      BY <1>13
    <2>3. n.class \notin Class
      BY <1>7, ClassesApart
    <2>4. QED
      BY <1>7, <1>9, <1>10, <1>11, <1>12, <2>1, <2>2, <2>3, Pushed
  <1>15. DOMAIN stack = Threads
    BY DEF CoreInv, GlobalType
  <1>16. /\ DOMAIN stack' = Threads /\ stack'[t] = <<n>>
         /\ \A u \in Threads \ {t} : stack'[u] = stack[u]
    BY <1>1, <1>2, <1>15
  <1>17. GlobalType'
    <2>1. calls \in 0..MaxCalls /\ MaxCalls \in Nat
      BY JniAssumption DEF CoreInv, GlobalType
    <2>2. calls' \in 0..MaxCalls
      BY <1>4, <2>1
    <2>3. QED
      BY <1>4, <1>16, <2>2 DEF CoreInv, GlobalType
  <1>18. LoadOK(Globals') /\ CacheOK(Globals')
    BY <1>3, <1>5 DEF CoreInv
  <1>19. \A u \in Threads \ {t} : Respects(u, g, g)
    BY DEF Respects
  <1>20. StackOK(stack'[t], t, Globals')
    BY <1>5, <1>13, <1>14, <1>16
  <1>21. \A u \in Threads \ {t} : stack'[u] = stack[u] /\ Respects(u, Globals, Globals')
    BY <1>3, <1>5, <1>16, <1>19
  <1>22. QED
    BY <1>17, <1>18, <1>20, <1>21, ThreadKeeps

\* What ends, and how.
LEMMA EndedIsLoaded ==
    ASSUME NEW f, NEW t, NEW g, FrameState(f, t, g), f.steps = << >>
    PROVE  /\ f.class \in Class => g.classes[f.class] = t
           /\ f.class = "Loader" \/ f.class \in Guarded => g.LOADED \/ g.pending[t]
  BY DEF FrameState

LEMMA ReturnKeeps ==
    ASSUME CoreInv, NEW t \in Threads, Return(t)
    PROVE  CoreInv'
  <1>1. PICK s : s = stack[t]
    OBVIOUS
  <1>2. PICK g : g = Globals
    OBVIOUS
  <1>3. PICK h : h = Globals'
    OBVIOUS
  <1>4. PICK c : c = Top(t).class
    OBVIOUS
  <1>5. /\ UNCHANGED <<system, file, library, LOADED, cache, weak, mutex, calls, loads>>
        /\ Depth(t) > 0 /\ Top(t).steps = << >>
        /\ stack' = [stack EXCEPT ![t] = SubSeq(@, 1, Len(@) - 1)]
        /\ pending' = [pending EXCEPT ![t] = @ /\ Depth(t) > 1]
    BY DEF Return, Quietly
  <1>6. /\ StackOK(s, t, g) /\ s # << >> /\ Len(s) \in Nat \ {0} /\ Len(s) \in 1..Len(s)
        /\ Depth(t) = Len(s) /\ Top(t) = s[Len(s)] /\ FrameState(Top(t), t, g)
    BY <1>1, <1>2, <1>5, TopFrame DEF CoreInv
  <1>7. /\ g.classes = classes /\ g.file = file /\ g.library = library /\ g.LOADED = LOADED
        /\ g.cache = cache /\ g.mutex = mutex /\ g.pending = pending /\ g.weak = weak
        /\ h.classes = classes' /\ h.file = file /\ h.library = library /\ h.LOADED = LOADED
        /\ h.cache = cache /\ h.mutex = mutex /\ h.pending = pending' /\ h.weak = weak
    BY <1>2, <1>3, <1>5, GlobalFields
  <1>8. /\ c \in Class => classes[c] = t
        /\ c = "Loader" \/ c \in Guarded => LOADED \/ pending[t]
    BY <1>4, <1>5, <1>6, <1>7, EndedIsLoaded
  <1>9. /\ classes \in [Class -> {"none", "done", "failed"} \union Threads]
        /\ pending \in [Threads -> BOOLEAN] /\ DOMAIN stack = Threads
    BY DEF CoreInv, GlobalType
  <1>10. Threads \intersect {"none", "done", "failed"} = {}
    BY JniAssumption
  <1>11. /\ classes' \in [Class -> {"none", "done", "failed"} \union Threads]
         /\ \A b \in Class \ {c} : classes'[b] = classes[b]
         /\ c \in Class => classes'[c] = IF pending[t] THEN "failed" ELSE "done"
    <2>1. CASE c \in Class
      <3>1. classes' = [classes EXCEPT ![c] = IF pending[t] THEN "failed" ELSE "done"]
        BY <1>4, <1>8, <2>1 DEF Return
      <3>2. (IF pending[t] THEN "failed" ELSE "done") \in {"none", "done", "failed"}
        OBVIOUS
      <3>3. PICK e : e = IF pending[t] THEN "failed" ELSE "done"
        OBVIOUS
      <3>4. QED
        BY <1>9, <2>1, <3>1, <3>2, <3>3
    <2>2. CASE c \notin Class
      <3>1. classes' = classes
        BY <1>4, <2>2 DEF Return
      <3>2. QED
        BY <1>9, <2>2, <3>1
    <2>3. QED
      BY <2>1, <2>2
  <1>12. c \in Class => classes'[c] \in {"failed", "done"} /\ classes[c] = t
    BY <1>8, <1>11
  <1>13. /\ pending' \in [Threads -> BOOLEAN]
         /\ \A u \in Threads \ {t} : pending'[u] = pending[u]
         /\ Depth(t) > 1 => pending'[t] = pending[t]
    <2>1. PICK b : b = (pending[t] /\ Depth(t) > 1)
      OBVIOUS
    <2>2. b \in BOOLEAN
      BY <2>1
    <2>3. pending' = [pending EXCEPT ![t] = b]
      BY <1>5, <2>1
    <2>4. /\ pending' \in [Threads -> BOOLEAN] /\ pending'[t] = b
          /\ \A u \in Threads \ {t} : pending'[u] = pending[u]
      BY <1>9, <2>2, <2>3, Zenon
    <2>5. Depth(t) > 1 => b = pending[t]
      <3>1. pending[t] \in BOOLEAN
        BY <1>9
      <3>2. QED
        BY <2>1, <3>1
    <2>6. QED
      BY <2>4, <2>5
  <1>14. /\ DOMAIN stack' = Threads /\ stack'[t] = SubSeq(s, 1, Len(s) - 1)
         /\ \A u \in Threads \ {t} : stack'[u] = stack[u]
    BY <1>1, <1>5, <1>9
  <1>15. ASSUME NEW d \in 1..Len(s) - 1
         PROVE  Stable(s[d], t, g, h)
    <2>1. d \in 1..Len(s) /\ d # Len(s) /\ Len(s) > 1
      BY <1>6
    <2>2. s[d].class \in Class => s[d].class # c
      BY <1>4, <1>6, <2>1 DEF StackOK
    <2>3. s[d].class \in Class /\ g.classes[s[d].class] = t => h.classes[s[d].class] = t
      BY <1>7, <1>11, <2>2
    <2>4. classes["Loader"] \in {t, "failed"} => LOADED \/ classes'["Loader"] \in {t, "failed"}
      <3>1. CASE c = "Loader"
        BY <1>8, <1>11, <3>1, ClassesApart
      <3>2. CASE c # "Loader"
        BY <1>11, <3>2, ClassesApart
      <3>3. QED
        BY <3>1, <3>2
    <2>5. pending'[t] = pending[t]
      BY <1>6, <1>13, <2>1
    <2>6. QED
      BY <1>7, <2>3, <2>4, <2>5 DEF Stable
  <1>16. ASSUME NEW b \in Class, h.classes[b] = t
         PROVE  g.classes[b] = t /\ b # c
    <2>1. b # c
      BY <1>7, <1>10, <1>12, <1>16
    <2>2. QED
      BY <1>7, <1>11, <1>16, <2>1
  <1>17. StackOK(SubSeq(s, 1, Len(s) - 1), t, h)
    BY <1>4, <1>6, <1>15, <1>16, Popped
  <1>18. ASSUME NEW u \in Threads \ {t}
         PROVE  Respects(u, g, h)
    <2>1. ASSUME NEW b \in Class
          PROVE  /\ classes[b] = u <=> classes'[b] = u
                 /\ classes[b] = "failed" => classes'[b] = "failed"
      <3>1. CASE b = c
        BY <1>10, <1>12, <3>1
      <3>2. CASE b # c
        BY <1>11, <3>2
      <3>3. QED
        BY <3>1, <3>2
    <2>2. QED
      BY <1>7, <1>13, <2>1 DEF Respects
  <1>19. GlobalType'
    BY <1>5, <1>11, <1>13, <1>14 DEF CoreInv, GlobalType
  <1>20. LoadOK(h)
    <2>1. LoadOK(g)
      BY <1>2 DEF CoreInv
    <2>2. ASSUME NEW b \in {"Loader"} \union Guarded, classes'[b] = "done"
          PROVE  LOADED
      <3>1. b \in Class
        BY ClassesApart
      <3>2. CASE b = c
        BY <1>8, <1>11, <2>2, <3>1, <3>2
      <3>3. CASE b # c
        BY <1>7, <1>11, <2>1, <2>2, <3>1, <3>3 DEF LoadOK
      <3>4. QED
        BY <3>2, <3>3
    <2>3. classes'["Loader"] = "none" => classes["Loader"] = "none"
      BY <1>11, <1>12, ClassesApart
    <2>4. QED
      BY <1>7, <2>1, <2>2, <2>3 DEF LoadOK
  <1>21. CacheOK(h)
    <2>1. CacheOK(g)
      BY <1>2 DEF CoreInv
    <2>2. QED
      BY <1>7, <2>1 DEF CacheOK
  <1>22. StackOK(stack'[t], t, Globals')
    BY <1>3, <1>14, <1>17
  <1>23. \A u \in Threads \ {t} : stack'[u] = stack[u] /\ Respects(u, Globals, Globals')
    BY <1>2, <1>3, <1>14, <1>18
  <1>24. QED
    BY <1>3, <1>19, <1>20, <1>21, <1>22, <1>23, ThreadKeeps

\* Threads that have no frames and initialize no class.
LEMMA NoFrames ==
    ASSUME NEW t \in Threads, NEW g, \A c \in Class : g.classes[c] = "none"
    PROVE  StackOK(<< >>, t, g)
  <1>1. PICK s : s = << >>
    OBVIOUS
  <1>2. s \in Seq(FrameSet) /\ Len(s) = 0 /\ \A d \in 1..Len(s) : FALSE
    BY <1>1, EmptySeq
  <1>3. \A c \in Class : g.classes[c] # t
    BY JniAssumption
  <1>4. StackOK(s, t, g)
    BY <1>2, <1>3 DEF StackOK
  <1>5. QED
    BY <1>1, <1>4

\* The package as it is before its first use.
LEMMA Unused ==
    ASSUME NEW g, \A c \in Class : g.classes[c] = "none",
           g.library = NoFile, g.LOADED = FALSE, g.cache = None, g.weak = << >>
    PROVE  LoadOK(g) /\ CacheOK(g)
  <1>1. DOMAIN g.weak = {}
    <2>1. PICK w : w = << >> /\ w = g.weak
      OBVIOUS
    <2>2. Len(w) = 0 /\ DOMAIN w = 1..0
      BY <2>1
    <2>3. QED
      BY <2>1, <2>2
  <1>2. QED
    BY <1>1, ClassesApart DEF LoadOK, CacheOK

LEMMA UnloadKeeps ==
    ASSUME CoreInv, Unload
    PROVE  CoreInv'
  <1>1. /\ \A t \in Threads : stack[t] = << >>
        /\ loads < MaxLoads /\ loads' = loads + 1
        /\ classes' = [c \in Class |-> "none"] /\ file' = NoFile /\ library' = NoFile
        /\ LOADED' = FALSE /\ cache' = None /\ weak' = << >>
        /\ UNCHANGED <<system, mutex, stack, pending, calls>>
    BY DEF Unload
  <1>2. PICK h : h = Globals'
    OBVIOUS
  <1>3. /\ \A c \in Class : h.classes[c] = "none"
        /\ h.library = NoFile /\ h.LOADED = FALSE /\ h.cache = None /\ h.weak = << >>
    BY <1>1, <1>2, GlobalFields
  <1>4. LoadOK(Globals') /\ CacheOK(Globals')
    BY <1>2, <1>3, Unused
  <1>5. \A t \in Threads : StackOK(stack'[t], t, Globals')
    BY <1>1, <1>2, <1>3, NoFrames
  <1>6. GlobalType'
    <2>1. loads' \in 1..MaxLoads
      BY <1>1, JniAssumption DEF CoreInv, GlobalType
    <2>2. classes' \in [Class -> {"none", "done", "failed"} \union Threads]
      BY <1>1
    <2>3. QED
      BY <1>1, <2>1, <2>2 DEF CoreInv, GlobalType
  <1>7. QED
    BY <1>4, <1>5, <1>6 DEF CoreInv

LEMMA InitHolds == Init => CoreInv
  <1> SUFFICES ASSUME Init
               PROVE  CoreInv
    OBVIOUS
  <1>1. PICK g : g = Globals
    OBVIOUS
  <1>2. /\ \A c \in Class : g.classes[c] = "none"
        /\ g.library = NoFile /\ g.LOADED = FALSE /\ g.cache = None /\ g.weak = << >>
    BY <1>1, GlobalFields DEF Init
  <1>3. LoadOK(Globals) /\ CacheOK(Globals)
    BY <1>1, <1>2, Unused
  <1>4. \A t \in Threads : StackOK(stack[t], t, Globals)
    BY <1>1, <1>2, NoFrames DEF Init
  <1>5. GlobalType
    <2>1. 1 \in 1..MaxLoads /\ 0 \in 0..MaxCalls
      BY JniAssumption
    <2>2. classes \in [Class -> {"none", "done", "failed"} \union Threads]
      BY DEF Init
    <2>3. pending \in [Threads -> BOOLEAN] /\ DOMAIN stack = Threads
      BY DEF Init
    <2>4. QED
      BY <2>1, <2>2, <2>3 DEF Init, GlobalType
  <1>6. QED
    BY <1>3, <1>4, <1>5 DEF CoreInv

LEMMA NextKeeps == CoreInv /\ [Next]_vars => CoreInv'
  <1> SUFFICES ASSUME CoreInv, [Next]_vars
               PROVE  CoreInv'
    OBVIOUS
  <1>1. ASSUME NEW t \in Threads, Thread(t)
        PROVE  CoreInv'
    BY <1>1, ReturnKeeps, UseClassKeeps, CheckLoadedKeeps, FindFileKeeps, LoadLibraryKeeps,
       SetLoadedKeeps, LookupClassKeeps, StoreClassKeeps, LookupMethodKeeps, CallJniKeeps,
       ThrowNewKeeps, ConstructListKeeps
    DEF Thread
  <1>2. ASSUME NEW t \in Threads, Start(t)
        PROVE  CoreInv'
    BY <1>2, StartKeeps
  <1>3. CASE Unload
    BY <1>3, UnloadKeeps
  <1>4. CASE UNCHANGED vars
    BY <1>4 DEF vars, CoreInv, GlobalType, Globals
  <1>5. QED
    BY <1>1, <1>2, <1>3, <1>4 DEF Next, Rest

\* The inductive invariant holds of every behaviour of the specification.
THEOREM AlwaysCoreInv == Spec => []CoreInv
  BY InitHolds, NextKeeps, PTL DEF Spec

-----------------------------------------------------------------------------
(* Theorems. *)

\* The history of the lists that nobody asked for has its type.
UncheckedType == unchecked \in [Threads -> BOOLEAN]

LEMMA UncheckedHasType == Spec => []UncheckedType
  <1>1. Init => UncheckedType
    BY DEF Init, UncheckedType
  <1>2. UncheckedType /\ [Next]_vars => UncheckedType'
    <2> SUFFICES ASSUME UncheckedType, [Next]_vars
                 PROVE  UncheckedType'
      OBVIOUS
    <2>1. ASSUME NEW t \in Threads, Return(t)
          PROVE  UncheckedType'
      BY <2>1 DEF Return, UncheckedType
    <2>2. ASSUME NEW t \in Threads, Thread(t), ~Return(t)
          PROVE  UNCHANGED unchecked
      BY <2>2 DEF Thread, UseClass, CheckLoaded, FindFile, LoadLibrary, SetLoaded, LookupClass,
         StoreClass, LookupMethod, CallJni, ThrowNew, ConstructList, Quietly
    <2>3. ASSUME NEW t \in Threads, Start(t)
          PROVE  UNCHANGED unchecked
      BY <2>3 DEF Start
    <2>4. CASE Unload \/ UNCHANGED vars
      BY <2>4 DEF Unload, vars, UncheckedType
    <2>5. QED
      BY <2>1, <2>2, <2>3, <2>4 DEF Next, Rest, UncheckedType
  <1>3. QED
    BY <1>1, <1>2, PTL DEF Spec

\* In every reachable state, each variable has its type: classes are in the state
\* of being initialized by one thread or were, the loaded file is the one that
\* loadLibrary() found, and the cache knows nothing but classes and methods.
THEOREM TypeCorrect == Spec => []TypeOK
  <1>1. ASSUME CoreInv, UncheckedType
        PROVE  TypeOK
    <2>1. library \in {NoFile, file}
      BY <1>1, GlobalFields DEF CoreInv, LoadOK
    <2>2. cache = None \/ cache \in Cached
      BY <1>1, GlobalFields DEF CoreInv, CacheOK
    <2>3. \A key \in DOMAIN weak : weak[key] \in Nat
      <3>1. cache = None => DOMAIN weak = {}
        BY <1>1, GlobalFields DEF CoreInv, CacheOK
      <3>2. cache # None => \A key \in DOMAIN weak : weak[key] = 1
        BY <1>1, GlobalFields DEF CoreInv, CacheOK
      <3>3. QED
        BY <3>1, <3>2
    <2>4. ASSUME NEW t \in Threads, NEW d \in DOMAIN stack[t]
          PROVE  stack[t][d].class \in Class \union {"", "list"}
      <3>1. stack[t] \in Seq(FrameSet)
        BY <1>1 DEF CoreInv, StackOK
      <3>2. stack[t][d] \in FrameSet
        BY <3>1, ElementOfSeq, LenProperties
      <3>3. QED
        BY <3>2 DEF FrameSet
    <2>5. GlobalType
      BY <1>1 DEF CoreInv
    <2>6. QED
      BY <1>1, <2>1, <2>2, <2>3, <2>4, <2>5 DEF TypeOK, GlobalType, UncheckedType
  <1>2. QED
    BY <1>1, AlwaysCoreInv, UncheckedHasType, PTL

\* Native code only ever runs with the library loaded and its cache created, and
\* the library is only loaded where it is not, whatever threads use the package
\* first, and whatever fails on the way.
THEOREM NativesAlwaysAfterLoad == Spec => []NativesAfterLoad
  <1>1. ASSUME CoreInv
        PROVE  NativesAfterLoad
    <2> SUFFICES ASSUME NEW t \in Threads
                 PROVE  /\ At(t, {"class", "store", "method", "jni", "list", "throw"}) =>
                               library # NoFile /\ cache # None
                        /\ At(t, {"check"}) => LOADED \/ classes["Loader"] \in {t, "failed"}
                        /\ At(t, {"load"}) => library = NoFile /\ cache = None
      BY DEF NativesAfterLoad
    <2>1. At(t, {"class", "store", "method", "jni", "list", "throw"}) =>
              At(t, NativeOps) \/ At(t, {"store"})
      BY DEF At, NativeOps
    <2>2. At(t, NativeOps) \/ At(t, {"store"}) => library # NoFile /\ cache # None
      BY <1>1, AtNative, AtStore
    <2>3. At(t, {"check"}) => LOADED \/ classes["Loader"] \in {t, "failed"}
      <3> SUFFICES ASSUME At(t, {"check"})
                   PROVE  LOADED \/ classes["Loader"] \in {t, "failed"}
        OBVIOUS
      <3>1. /\ Depth(t) > 0 /\ Top(t).steps # << >> /\ Head(Top(t).steps).op = "check"
            /\ Top(t) \in FrameSet /\ FrameShape(Top(t), Depth(t))
            /\ FrameState(Top(t), t, Globals)
        BY <1>1, TopFrame DEF At
      <3>2. Top(t).class \in Guarded /\ Top(t).steps = ToCheck
        BY <3>1, LoaderFrame
      <3>3. QED
        BY <3>1, <3>2, GlobalFields DEF FrameState
    <2>4. At(t, {"load"}) => library = NoFile /\ cache = None
      <3>1. At(t, {"load"}) => At(t, {"find", "load", "loaded"}) /\ Now(t).op = "load"
        BY DEF At, Now
      <3>2. QED
        BY <1>1, <3>1, AtLoader
    <2>5. QED
      BY <2>1, <2>2, <2>3, <2>4
  <1>2. QED
    BY <1>1, AlwaysCoreInv, PTL

\* At any time, the weak global references that were made are one for each class
\* and each method in the cache, whichever threads raced to look them up.
THEOREM AlwaysOneReference == Spec => []OneReference
  <1>1. CoreInv => OneReference
    BY GlobalFields DEF CoreInv, CacheOK, OneReference
  <1>2. QED
    BY <1>1, AlwaysCoreInv, PTL

-----------------------------------------------------------------------------
(* Who waits for whom.                                                     *)

\* A list is constructed on behalf of a native method that looks up no class.
ListsOnNative(s) ==
    \A d \in 1..Len(s) : d + 1 \in 1..Len(s) /\ s[d + 1].class = "list" =>
        s[d].class \in Methods /\ ~Caching(s[d].steps)

\* Whoever holds the mutex is looking up a class.
HolderInv ==
    /\ \A t \in Threads :
          mutex = t => \E d \in 1..Len(stack[t]) : Caching(stack[t][d].steps)
    /\ \A t \in Threads : ListsOnNative(stack[t])

\* Only the stack of thread t changes, and the mutex is left, released, or taken by it.
LEMMA HolderKept ==
    ASSUME HolderInv, NEW t \in Threads,
           \A u \in Threads \ {t} : stack'[u] = stack[u],
           mutex' \in {mutex, None, t},
           mutex' = t => \E d \in 1..Len(stack'[t]) : Caching(stack'[t][d].steps),
           ListsOnNative(stack'[t])
    PROVE  HolderInv'
  <1>1. None \notin Threads
    BY JniAssumption
  <1>2. ASSUME NEW u \in Threads
        PROVE  /\ mutex' = u => \E d \in 1..Len(stack'[u]) : Caching(stack'[u][d].steps)
               /\ ListsOnNative(stack'[u])
    <2>1. CASE u = t
      BY <2>1
    <2>2. CASE u # t
      <3>1. stack'[u] = stack[u] /\ (mutex' = u => mutex = u)
        BY <1>1, <2>2
      <3>2. QED
        BY <3>1 DEF HolderInv
    <2>3. QED
      BY <2>1, <2>2
  <1>3. QED
    BY <1>2 DEF HolderInv

\* The steps that a frame is at, and what they are when it goes on.
LEMMA ListsOnReplaced ==
    ASSUME NEW s \in Seq(FrameSet), s # << >>, ListsOnNative(s),
           NEW r, Len(r) = Len(s), r[Len(s)].class = s[Len(s)].class,
           \A d \in 1..Len(s) - 1 : r[d] = s[d]
    PROVE  ListsOnNative(r)
  <1>1. Len(s) \in Nat \ {0}
    BY LenProperties, EmptySeq
  <1>2. ASSUME NEW d \in 1..Len(r), d + 1 \in 1..Len(r), r[d + 1].class = "list"
        PROVE  r[d].class \in Methods /\ ~Caching(r[d].steps)
    <2>1. d \in 1..Len(s) - 1 /\ d \in 1..Len(s) /\ d + 1 \in 1..Len(s)
      BY <1>1, <1>2
    <2>2. s[d + 1].class = r[d + 1].class
      <3>1. CASE d + 1 = Len(s)
        BY <3>1
      <3>2. CASE d + 1 # Len(s)
        <4>1. d + 1 \in 1..Len(s) - 1
          BY <1>1, <2>1, <3>2
        <4>2. QED
          BY <4>1
      <3>3. QED
        BY <3>1, <3>2
    <2>3. r[d] = s[d]
      BY <2>1
    <2>4. QED
      BY <1>2, <2>1, <2>2, <2>3 DEF ListsOnNative
  <1>3. QED
    BY <1>2 DEF ListsOnNative

LEMMA ListsOnPushed ==
    ASSUME NEW s \in Seq(FrameSet), ListsOnNative(s), NEW f \in FrameSet,
           f.class = "list" =>
               s # << >> /\ s[Len(s)].class \in Methods /\ ~Caching(s[Len(s)].steps)
    PROVE  ListsOnNative(Append(s, f))
  <1>1. PICK r : r = Append(s, f)
    OBVIOUS
  <1>2. /\ Len(r) = Len(s) + 1 /\ r[Len(s) + 1] = f
        /\ \A d \in 1..Len(s) : r[d] = s[d]
    BY <1>1, PushLemma
  <1>3. Len(s) \in Nat
    BY LenProperties
  <1>4. ASSUME NEW d \in 1..Len(r), d + 1 \in 1..Len(r), r[d + 1].class = "list"
        PROVE  r[d].class \in Methods /\ ~Caching(r[d].steps)
    <2>1. d \in 1..Len(s) /\ r[d] = s[d]
      BY <1>2, <1>3, <1>4
    <2>2. CASE d = Len(s)
      BY <1>2, <1>4, <2>1, <2>2
    <2>3. CASE d # Len(s)
      <3>1. d + 1 \in 1..Len(s)
        BY <1>3, <2>1, <2>3
      <3>2. r[d + 1] = s[d + 1]
        BY <1>2, <3>1
      <3>3. QED
        BY <1>4, <2>1, <3>1, <3>2 DEF ListsOnNative
    <2>4. QED
      BY <2>2, <2>3
  <1>5. ListsOnNative(r)
    BY <1>4 DEF ListsOnNative
  <1>6. QED
    BY <1>1, <1>5

LEMMA ListsOnPopped ==
    ASSUME NEW s \in Seq(FrameSet), s # << >>, ListsOnNative(s)
    PROVE  /\ ListsOnNative(SubSeq(s, 1, Len(s) - 1))
           /\ Len(SubSeq(s, 1, Len(s) - 1)) = Len(s) - 1
           /\ \A d \in 1..Len(s) - 1 : SubSeq(s, 1, Len(s) - 1)[d] = s[d]
           /\ Len(s) \in Nat \ {0}
  <1>1. PICK r : r = SubSeq(s, 1, Len(s) - 1)
    OBVIOUS
  <1>2. Len(r) = Len(s) - 1 /\ \A d \in 1..Len(s) - 1 : r[d] = s[d]
    BY <1>1, PopLemma
  <1>3. Len(s) \in Nat \ {0}
    BY LenProperties, EmptySeq
  <1>4. ASSUME NEW d \in 1..Len(r), d + 1 \in 1..Len(r)
        PROVE  /\ d \in 1..Len(s) /\ d + 1 \in 1..Len(s)
               /\ r[d] = s[d] /\ r[d + 1] = s[d + 1]
    BY <1>2, <1>3, <1>4
  <1>5. ListsOnNative(r)
    BY <1>4 DEF ListsOnNative
  <1>6. QED
    BY <1>1, <1>2, <1>3, <1>5

\* The frame that runs goes on: it keeps the mutex only if it goes on looking up.
LEMMA HolderGoesOn ==
    ASSUME CoreInv, HolderInv, NEW t \in Threads, Depth(t) > 0,
           NEW x \in Seq(StepSet), stack' = WithSteps(t, x),
           \/ mutex' = None
           \/ mutex' = t /\ Caching(x)
           \/ mutex' = mutex /\ (Caching(Top(t).steps) => Caching(x))
    PROVE  HolderInv'
  <1>1. PICK s : s = stack[t]
    OBVIOUS
  <1>2. PICK n : n = Frame(s[Len(s)].class, x)
    OBVIOUS
  <1>3. /\ s \in Seq(FrameSet) /\ s # << >> /\ Top(t) = s[Len(s)] /\ s[Len(s)] \in FrameSet
        /\ ListsOnNative(s)
    BY <1>1, TopFrame DEF HolderInv
  <1>4. n \in FrameSet /\ n.class = s[Len(s)].class /\ n.steps = x
    BY <1>2, <1>3 DEF FrameSet, Frame
  <1>5. PICK r : r = [s EXCEPT ![Len(s)] = n]
    OBVIOUS
  <1>6. /\ ListsOnNative(r) /\ Len(r) = Len(s) /\ r[Len(s)] = n /\ Len(s) \in Nat \ {0}
        /\ \A d \in 1..Len(s) - 1 : r[d] = s[d]
    <2>1. /\ Len(r) = Len(s) /\ r[Len(s)] = n /\ Len(s) \in Nat \ {0}
          /\ \A d \in 1..Len(s) - 1 : r[d] = s[d]
      BY <1>3, <1>4, <1>5, ReplaceLemma, LenProperties, EmptySeq
    <2>2. ListsOnNative(r)
      BY <1>3, <1>4, <2>1, ListsOnReplaced
    <2>3. QED
      BY <2>1, <2>2
  <1>7. /\ stack'[t] = r
        /\ \A u \in Threads \ {t} : stack'[u] = stack[u]
    BY <1>1, <1>2, <1>5, WithStepsIs
  <1>8. None \notin Threads
    BY JniAssumption
  <1>9. ASSUME mutex' = t
        PROVE  \E d \in 1..Len(r) : Caching(r[d].steps)
    <2>1. CASE Caching(x)
      <3>1. Len(s) \in 1..Len(r) /\ Caching(r[Len(s)].steps)
        BY <1>4, <1>6, <2>1
      <3>2. QED
        BY <3>1
    <2>2. CASE ~Caching(x)
      <3>1. mutex = t /\ ~Caching(s[Len(s)].steps)
        BY <1>3, <1>8, <1>9, <2>2
      <3>2. PICK d \in 1..Len(s) : Caching(s[d].steps)
        BY <1>1, <3>1 DEF HolderInv
      <3>3. d \in 1..Len(s) - 1 /\ d \in 1..Len(r)
        BY <1>6, <3>1, <3>2
      <3>4. Caching(r[d].steps)
        BY <1>6, <3>2, <3>3
      <3>5. QED
        BY <3>3, <3>4
    <2>3. QED
      BY <2>1, <2>2
  <1>10. mutex' \in {mutex, None, t}
    OBVIOUS
  <1>11. QED
    BY <1>6, <1>7, <1>9, <1>10, HolderKept

\* A frame is put on the others.
LEMMA HolderPushes ==
    ASSUME CoreInv, HolderInv, NEW t \in Threads, UNCHANGED mutex,
           NEW f \in FrameSet, f.class # "list", stack' = [stack EXCEPT ![t] = Append(@, f)]
    PROVE  HolderInv'
  <1>1. PICK s : s = stack[t]
    OBVIOUS
  <1>2. s \in Seq(FrameSet) /\ ListsOnNative(s)
    <2>1. StackOK(stack[t], t, Globals)
      BY DEF CoreInv
    <2>2. s \in Seq(FrameSet)
      BY <1>1, <2>1 DEF StackOK
    <2>3. QED
      BY <1>1, <2>2 DEF HolderInv
  <1>3. PICK r : r = Append(s, f)
    OBVIOUS
  <1>4. ListsOnNative(r)
    BY <1>2, <1>3, ListsOnPushed
  <1>5. Len(r) = Len(s) + 1 /\ (\A d \in 1..Len(s) : r[d] = s[d]) /\ Len(s) \in Nat
    BY <1>2, <1>3, PushLemma, LenProperties
  <1>6. DOMAIN stack = Threads
    BY DEF CoreInv, GlobalType
  <1>7. stack'[t] = r /\ \A u \in Threads \ {t} : stack'[u] = stack[u]
    BY <1>1, <1>3, <1>6
  <1>8. ASSUME mutex' = t
        PROVE  \E d \in 1..Len(r) : Caching(r[d].steps)
    <2>1. PICK d \in 1..Len(s) : Caching(s[d].steps)
      BY <1>1, <1>8 DEF HolderInv
    <2>2. d \in 1..Len(r) /\ r[d] = s[d]
      BY <1>5
    <2>3. QED
      BY <2>1, <2>2
  <1>9. QED
    BY <1>4, <1>7, <1>8, HolderKept


\* A frame with a class to store has a step that says so.
LEMMA CachingStores ==
    ASSUME NEW s \in Seq(StepSet), Caching(s)
    PROVE  \E i \in DOMAIN s : s[i].op = "store"
  <1>1. /\ DOMAIN s = 1..Len(s) /\ Len(s) \in Nat
        /\ s # << >> => /\ Len(s) > 0 /\ Head(s) = s[1]
                        /\ Tail(s) \in Seq(StepSet) /\ Len(Tail(s)) = Len(s) - 1
                        /\ \A i \in 1..Len(Tail(s)) : Tail(s)[i] = s[i + 1]
    BY HeadTailProperties, EmptySeq, LenProperties
  <1>2. CASE Storing(s, Cachable)
    <2>1. s # << >> /\ Head(s).op = "store"
      BY <1>2 DEF Storing
    <2>2. 1 \in DOMAIN s /\ s[1].op = "store"
      BY <1>1, <2>1
    <2>3. QED
      BY <2>2
  <1>3. CASE Finding(s, Cachable)
    <2>1. s # << >> /\ Tail(s) # << >> /\ Head(Tail(s)).op = "store"
      BY <1>3 DEF Finding, Storing
    <2>2. PICK r : r = Tail(s)
      OBVIOUS
    <2>3. r \in Seq(StepSet) /\ r # << >>
      BY <1>1, <2>1, <2>2
    <2>4. Len(r) \in Nat \ {0} /\ Head(r) = r[1]
      BY <2>3, HeadTailProperties, EmptySeq, LenProperties
    <2>5. 2 \in DOMAIN s /\ r[1] = s[2]
      <3>1. 1 \in 1..Len(r) /\ Len(r) = Len(s) - 1
        BY <1>1, <2>1, <2>2, <2>4
      <3>2. r[1] = s[1 + 1] /\ 1 + 1 = 2
        BY <1>1, <2>1, <2>2, <3>1
      <3>3. 2 \in 1..Len(s)
        BY <1>1, <3>1
      <3>4. QED
        BY <1>1, <3>2, <3>3
    <2>6. QED
      BY <2>1, <2>2, <2>4, <2>5
  <1>4. QED
    BY <1>2, <1>3 DEF Caching

\* A step that fails in the midst of a lookup releases the mutex.
LEMMA HolderFails ==
    ASSUME CoreInv, HolderInv, NEW t \in Threads, Depth(t) > 0, Fail(t)
    PROVE  HolderInv'
  <1>1. << >> \in Seq(StepSet) /\ stack' = WithSteps(t, << >>)
    BY EmptySeq DEF Fail
  <1>2. Top(t).steps \in Seq(StepSet) /\ FrameState(Top(t), t, Globals)
    BY TopFrame
  <1>3. mutex' = None \/ (mutex' = mutex /\ ~Caching(Top(t).steps))
    <2>1. ASSUME Caching(Top(t).steps)
          PROVE  mutex' = None
      <3>1. mutex = t
        BY <1>2, <2>1, GlobalFields DEF FrameState
      <3>2. \E i \in DOMAIN Top(t).steps : Top(t).steps[i].op = "store"
        BY <1>2, <2>1, CachingStores
      <3>3. QED
        BY <3>1, <3>2 DEF Fail
    <2>2. mutex' \in {None, mutex}
      BY DEF Fail
    <2>3. QED
      BY <2>1, <2>2
  <1>4. QED
    BY <1>1, <1>3, HolderGoesOn

\* A step that goes on, unless it stores the class.
LEMMA HolderAdvances ==
    ASSUME CoreInv, HolderInv, NEW t \in Threads, Depth(t) > 0, Top(t).steps # << >>,
           Advance(t),
           mutex' = None \/ (mutex' = mutex /\ Head(Top(t).steps).op # "store")
    PROVE  HolderInv'
  <1>1. PICK s : s = Top(t).steps
    OBVIOUS
  <1>2. s \in Seq(StepSet) /\ s # << >>
    BY <1>1, TopFrame
  <1>3. Tail(s) \in Seq(StepSet)
    BY <1>2, HeadTail
  <1>4. Caching(s) /\ Head(s).op # "store" => Caching(Tail(s))
    BY DEF Caching, Storing, Finding
  <1>5. stack' = WithSteps(t, Tail(s))
    BY <1>1 DEF Advance
  <1>6. QED
    BY <1>1, <1>3, <1>4, <1>5, HolderGoesOn

\* The class that is used, and by whom.
LEMMA UsedClass ==
    ASSUME CoreInv, NEW t \in Threads, At(t, {"use"})
    PROVE  /\ Now(t).class \in Class
           /\ Now(t).class \in Enums => Depth(t) = 1
           /\ Top(t).class \in Guarded => Now(t).class = "Loader"
           /\ Caching(Top(t).steps) => Now(t).class \in Cachable
  <1>1. PICK f : f = Top(t)
    OBVIOUS
  <1>2. PICK c : c = Now(t).class
    OBVIOUS
  <1>3. /\ Depth(t) > 0 /\ f.steps # << >> /\ Head(f.steps).op = "use"
        /\ f \in FrameSet /\ FrameShape(f, Depth(t)) /\ Head(f.steps).class = c
    BY <1>1, <1>2, TopFrame DEF At, Now
  <1>4. Caching(f.steps) => c \in Cachable
    BY <1>3 DEF Caching, Finding, Storing
  <1>5. CASE f.class \in Methods /\ Finding(f.steps, Looks(f))
    <2>1. c \in Cachable
      <3>1. Storing(Tail(f.steps), Looks(f)) /\ Head(Tail(f.steps)).class = c
        BY <1>3, <1>5 DEF Finding
      <3>2. QED
        BY <3>1, LooksType DEF Storing
    <2>2. QED
      BY <1>1, <1>2, <1>5, <2>1, ClassesApart DEF Methods
  <1>6. CASE f.class = "" /\ Depth(t) = 1 /\ Using(f.steps, Guarded \union Enums)
    <2>1. c \in Guarded \union Enums
      BY <1>3, <1>6 DEF Using
    <2>2. QED
      BY <1>1, <1>2, <1>4, <1>6, <2>1, ClassesApart DEF Methods
  <1>7. CASE f.class \in Enums /\ Using(f.steps, {"EnumConstantsHelper"})
    <2>1. c \in Guarded
      BY <1>3, <1>7 DEF Using, Guarded
    <2>2. QED
      BY <1>1, <1>2, <1>4, <1>7, <2>1, ClassesApart DEF Methods
  <1>8. CASE f.class \in Guarded /\ f.steps = GuardedBy("Loader")
    <2>1. c = "Loader"
      BY <1>3, <1>8, LoaderSteps
    <2>2. QED
      BY <1>1, <1>2, <1>4, <2>1, ClassesApart DEF Methods
  <1>9. QED
    BY <1>3, <1>5, <1>6, <1>7, <1>8, UsingFrame

LEMMA UseHolder ==
    ASSUME CoreInv, HolderInv, NEW t \in Threads, UseClass(t)
    PROVE  HolderInv'
  <1>1. PICK c : c = Now(t).class
    OBVIOUS
  <1>2. At(t, {"use"}) /\ Depth(t) > 0 /\ Top(t).steps # << >> /\ Head(Top(t).steps).op = "use"
    BY DEF UseClass, At
  <1>3. CASE Advance(t) /\ UNCHANGED mutex
    BY <1>2, <1>3, HolderAdvances
  <1>4. CASE Fail(t)
    BY <1>2, <1>4, HolderFails
  <1>5. CASE /\ \E steps \in Initializers(c) :
                    stack' = [stack EXCEPT ![t] = Append(@, Frame(c, steps))]
             /\ UNCHANGED mutex
    <2>1. PICK x \in Initializers(c) : stack' = [stack EXCEPT ![t] = Append(@, Frame(c, x))]
      BY <1>5
    <2>2. c \in Class /\ c # "list"
      BY <1>1, <1>2, UsedClass, ClassesApart
    <2>3. x \in Seq(StepSet)
      BY <2>2, InitializerShape
    <2>4. PICK f : f = Frame(c, x)
      OBVIOUS
    <2>5. f \in FrameSet /\ f.class # "list"
      BY <2>2, <2>3, <2>4 DEF FrameSet, Frame
    <2>6. QED
      BY <1>5, <2>1, <2>4, <2>5, HolderPushes
  <1>6. QED
    BY <1>1, <1>3, <1>4, <1>5 DEF UseClass

\* The loader and the classes that ask for it.
LEMMA LoaderHolder ==
    ASSUME CoreInv, HolderInv, NEW t \in Threads,
           CheckLoaded(t) \/ FindFile(t) \/ LoadLibrary(t) \/ SetLoaded(t)
    PROVE  HolderInv'
  <1>1. Depth(t) > 0 /\ Top(t).steps # << >> /\ Head(Top(t).steps).op # "store"
    BY DEF CheckLoaded, FindFile, LoadLibrary, SetLoaded, At
  <1>2. Fail(t) \/ (Advance(t) /\ UNCHANGED mutex)
    BY DEF CheckLoaded, FindFile, LoadLibrary, SetLoaded
  <1>3. QED
    BY <1>1, <1>2, HolderAdvances, HolderFails

\* Functions of the JNIEnv, methods, and exceptions.
LEMMA NativeHolder ==
    ASSUME CoreInv, HolderInv, NEW t \in Threads,
           LookupMethod(t) \/ CallJni(t) \/ ThrowNew(t)
    PROVE  HolderInv'
  <1>1. Depth(t) > 0 /\ Top(t).steps # << >> /\ Head(Top(t).steps).op # "store"
    BY DEF LookupMethod, CallJni, ThrowNew, At
  <1>2. Fail(t) \/ (Advance(t) /\ UNCHANGED mutex)
    BY DEF LookupMethod, CallJni, ThrowNew
  <1>3. QED
    BY <1>1, <1>2, HolderAdvances, HolderFails

\* The mutex is taken to find a class, and released when it is stored.
LEMMA LookupHolder ==
    ASSUME CoreInv, HolderInv, NEW t \in Threads, LookupClass(t)
    PROVE  HolderInv'
  <1>1. PICK c : c = Now(t).class
    OBVIOUS
  <1>2. /\ At(t, NativeOps) /\ Now(t).op = "class" /\ Depth(t) > 0 /\ Top(t).steps # << >>
        /\ Head(Top(t).steps).op # "store"
    BY DEF LookupClass, At, Now, NativeOps
  <1>3. CASE Fail(t)
    BY <1>2, <1>3, HolderFails
  <1>4. CASE Advance(t) /\ UNCHANGED mutex
    BY <1>2, <1>4, HolderAdvances
  <1>5. CASE /\ mutex' = t
             /\ stack' = WithSteps(t, Use(c) \o Step("store", c, "") \o Tail(Top(t).steps))
    <2>1. PICK x : x = Use(c) \o Step("store", c, "") \o Tail(Top(t).steps)
      OBVIOUS
    <2>2. /\ Now(t) \in NativeStep(Looks(Top(t)))
          /\ Tail(Top(t).steps) \in Seq(NativeStep(Looks(Top(t))))
      BY <1>2, AtNative
    <2>3. c \in Looks(Top(t))
      BY <1>1, <1>2, <2>2 DEF NativeStep
    <2>4. Finding(x, Looks(Top(t))) /\ x \in Seq(StepSet)
      BY <2>1, <2>2, <2>3, LooksType, FindAndStore
    <2>5. Caching(x)
      BY <2>4, LooksType, BodyMonotone DEF Caching
    <2>6. QED
      BY <1>2, <1>5, <2>1, <2>4, <2>5, HolderGoesOn
  <1>6. QED
    BY <1>1, <1>3, <1>4, <1>5 DEF LookupClass

LEMMA StoreHolder ==
    ASSUME CoreInv, HolderInv, NEW t \in Threads, StoreClass(t)
    PROVE  HolderInv'
  <1>1. Depth(t) > 0 /\ Top(t).steps # << >> /\ (Fail(t) \/ (Advance(t) /\ mutex' = None))
    BY DEF StoreClass, At
  <1>2. QED
    BY <1>1, HolderAdvances, HolderFails


\* The constructor of a list has a frame above that of a native method.
LEMMA ListHolder ==
    ASSUME CoreInv, HolderInv, NEW t \in Threads, ConstructList(t)
    PROVE  HolderInv'
  <1>1. PICK s : s = stack[t]
    OBVIOUS
  <1>2. PICK x : x = Tail(Top(t).steps)
    OBVIOUS
  <1>3. PICK n : n = Frame(s[Len(s)].class, x)
    OBVIOUS
  <1>4. PICK f : f = Frame("list", ListSteps(Now(t).member))
    OBVIOUS
  <1>5. /\ At(t, NativeOps) /\ Now(t).op = "list" /\ Depth(t) > 0 /\ UNCHANGED mutex
        /\ stack' = [WithSteps(t, x) EXCEPT ![t] = Append(@, f)]
    BY <1>2, <1>4 DEF ConstructList, At, Now, NativeOps
  <1>6. /\ Top(t).class \in Methods /\ Now(t) \in NativeStep(Looks(Top(t)))
        /\ Body(Top(t).steps, Cachable)
        /\ Top(t).steps \in Seq(NativeStep(Looks(Top(t))))
        /\ x \in Seq(NativeStep(Looks(Top(t))))
    BY <1>2, <1>5, AtNative
  <1>7. x \in Seq(Native) /\ Top(t).steps \in Seq(Native)
    BY <1>6, LooksType, BodyMonotone
  <1>8. ~Caching(x) /\ ~Caching(Top(t).steps)
    BY <1>7, NativeIsNotCaching
  <1>9. x \in Seq(StepSet)
    <2>1. Native \subseteq StepSet
      BY DEF Native, NativeStep
    <2>2. QED
      BY <1>7, <2>1, SeqMonotone
  <1>10. /\ s \in Seq(FrameSet) /\ s # << >> /\ Top(t) = s[Len(s)] /\ s[Len(s)] \in FrameSet
         /\ ListsOnNative(s)
    BY <1>1, <1>5, TopFrame DEF HolderInv
  <1>11. n \in FrameSet /\ n.class = s[Len(s)].class /\ n.steps = x
    BY <1>3, <1>9, <1>10 DEF FrameSet, Frame
  <1>12. f \in FrameSet
    <2>1. Now(t).member \in Member
      BY <1>5, <1>6 DEF NativeStep
    <2>2. QED
      BY <1>4, <2>1, ListShape DEF FrameSet, Frame
  <1>13. PICK r : r = [s EXCEPT ![Len(s)] = n]
    OBVIOUS
  <1>14. /\ r \in Seq(FrameSet) /\ Len(r) = Len(s) /\ r[Len(s)] = n /\ Len(s) \in Nat \ {0}
         /\ \A d \in 1..Len(s) - 1 : r[d] = s[d]
    BY <1>10, <1>11, <1>13, ReplaceLemma, LenProperties, EmptySeq
  <1>15. ListsOnNative(r)
    BY <1>10, <1>11, <1>14, ListsOnReplaced
  <1>16. PICK q : q = Append(r, f)
    OBVIOUS
  <1>17. ListsOnNative(q)
    <2>1. r # << >>
      BY <1>14, EmptySeq
    <2>2. r[Len(r)].class \in Methods /\ ~Caching(r[Len(r)].steps)
      BY <1>6, <1>8, <1>10, <1>11, <1>14
    <2>3. QED
      BY <1>12, <1>14, <1>15, <1>16, <2>1, <2>2, ListsOnPushed
  <1>18. Len(q) = Len(s) + 1 /\ \A d \in 1..Len(s) : q[d] = r[d]
    BY <1>12, <1>14, <1>16, PushLemma
  <1>19. /\ stack'[t] = q
         /\ \A u \in Threads \ {t} : stack'[u] = stack[u]
    BY <1>1, <1>3, <1>5, <1>9, <1>13, <1>16, WithStepsIs
  <1>20. ASSUME mutex' = t
         PROVE  \E d \in 1..Len(q) : Caching(q[d].steps)
    <2>1. PICK d \in 1..Len(s) : Caching(s[d].steps)
      BY <1>1, <1>5, <1>20 DEF HolderInv
    <2>2. d # Len(s)
      BY <1>8, <1>10, <2>1
    <2>3. d \in 1..Len(s) - 1 /\ d \in 1..Len(q)
      BY <1>14, <1>18, <2>1, <2>2
    <2>4. q[d] = s[d]
      BY <1>14, <1>18, <2>1, <2>3
    <2>5. QED
      BY <2>1, <2>3, <2>4
  <1>21. QED
    BY <1>5, <1>17, <1>19, <1>20, HolderKept

LEMMA StartHolder ==
    ASSUME CoreInv, HolderInv, NEW t \in Threads, Start(t)
    PROVE  HolderInv'
  <1>1. PICK p \in Programs : stack' = [stack EXCEPT ![t] = <<Frame("", p)>>]
    BY DEF Start
  <1>2. PICK n : n = Frame("", p)
    OBVIOUS
  <1>3. stack[t] = << >> /\ UNCHANGED mutex /\ DOMAIN stack = Threads
    BY DEF Start, CoreInv, GlobalType
  <1>4. n \in FrameSet /\ n.class # "list"
    BY <1>2, ProgramShape DEF FrameSet, Frame
  <1>5. PICK s : s = << >> /\ s = stack[t]
    BY <1>3
  <1>6. Append(s, n) = <<n>>
    BY <1>5
  <1>7. stack' = [stack EXCEPT ![t] = Append(@, n)]
    BY <1>1, <1>2, <1>5, <1>6
  <1>8. QED
    BY <1>3, <1>4, <1>7, HolderPushes

\* A frame that ends holds nothing.
LEMMA ReturnHolder ==
    ASSUME CoreInv, HolderInv, NEW t \in Threads, Return(t)
    PROVE  HolderInv'
  <1>1. PICK s : s = stack[t]
    OBVIOUS
  <1>2. PICK r : r = SubSeq(s, 1, Len(s) - 1)
    OBVIOUS
  <1>3. /\ Depth(t) > 0 /\ Top(t).steps = << >> /\ UNCHANGED mutex
        /\ stack' = [stack EXCEPT ![t] = SubSeq(@, 1, Len(@) - 1)]
    BY DEF Return
  <1>4. s \in Seq(FrameSet) /\ s # << >> /\ Top(t) = s[Len(s)] /\ ListsOnNative(s)
    BY <1>1, <1>3, TopFrame DEF HolderInv
  <1>5. /\ ListsOnNative(r) /\ Len(r) = Len(s) - 1 /\ Len(s) \in Nat \ {0}
        /\ \A d \in 1..Len(s) - 1 : r[d] = s[d]
    BY <1>2, <1>4, ListsOnPopped
  <1>6. stack'[t] = r /\ \A u \in Threads \ {t} : stack'[u] = stack[u]
    BY <1>1, <1>2, <1>3 DEF CoreInv, GlobalType
  <1>7. ~Caching(<< >>)
    BY DEF Caching, Storing, Finding
  <1>8. ASSUME mutex' = t
        PROVE  \E d \in 1..Len(r) : Caching(r[d].steps)
    <2>1. PICK d \in 1..Len(s) : Caching(s[d].steps)
      BY <1>1, <1>3, <1>8 DEF HolderInv
    <2>2. d # Len(s)
      BY <1>3, <1>4, <1>7, <2>1
    <2>3. d \in 1..Len(r) /\ r[d] = s[d]
      BY <1>5, <2>1, <2>2
    <2>4. QED
      BY <2>1, <2>3
  <1>9. QED
    BY <1>3, <1>5, <1>6, <1>8, HolderKept

LEMMA HolderNext == CoreInv /\ HolderInv /\ [Next]_vars => HolderInv'
  <1> SUFFICES ASSUME CoreInv, HolderInv, [Next]_vars
               PROVE  HolderInv'
    OBVIOUS
  <1>1. ASSUME NEW t \in Threads, Thread(t)
        PROVE  HolderInv'
    BY <1>1, ReturnHolder, UseHolder, LoaderHolder, NativeHolder, LookupHolder, StoreHolder,
       ListHolder
    DEF Thread
  <1>2. ASSUME NEW t \in Threads, Start(t)
        PROVE  HolderInv'
    BY <1>2, StartHolder
  <1>3. CASE Unload
    BY <1>3 DEF Unload, HolderInv
  <1>4. CASE UNCHANGED vars
    BY <1>4 DEF vars, HolderInv
  <1>5. QED
    BY <1>1, <1>2, <1>3, <1>4 DEF Next, Rest

LEMMA HolderInit == Init => HolderInv
  <1> SUFFICES ASSUME Init
               PROVE  HolderInv
    OBVIOUS
  <1>1. \A t \in Threads : stack[t] = << >> /\ mutex # t
    BY JniAssumption DEF Init
  <1>2. PICK s : s = << >>
    OBVIOUS
  <1>3. Len(s) = 0 /\ ListsOnNative(s)
    BY <1>2 DEF ListsOnNative
  <1>4. QED
    BY <1>1, <1>2, <1>3 DEF HolderInv


\* What is above a frame that is not free to construct a list initializes the
\* class that this one uses.
LEMMA FrameAbove ==
    ASSUME CoreInv, HolderInv, NEW t \in Threads, NEW s, s = stack[t],
           NEW d \in 1..Len(s), d # Len(s),
           s[d].class \notin Methods \/ Caching(s[d].steps)
    PROVE  /\ s[d].steps # << >> /\ Head(s[d].steps).op = "use"
           /\ Head(s[d].steps).class \in Class /\ classes[Head(s[d].steps).class] = t
  <1>1. StackOK(s, t, Globals) /\ ListsOnNative(s)
    BY DEF CoreInv, HolderInv
  <1>2. s \in Seq(FrameSet) /\ Len(s) \in Nat
    BY <1>1, LenProperties DEF StackOK
  <1>3. PICK e : e = d + 1
    OBVIOUS
  <1>4. e \in 1..Len(s) /\ e # 1
    BY <1>2, <1>3
  <1>5. Above(s[e], s[d]) /\ FrameShape(s[e], e) /\ FrameState(s[e], t, Globals)
    BY <1>1, <1>3, <1>4 DEF StackOK
  <1>6. s[e].class # "list"
    BY <1>1, <1>3, <1>4 DEF ListsOnNative
  <1>7. s[e].class # ""
    BY <1>4, <1>5 DEF FrameShape
  <1>8. s[e] \in FrameSet
    BY <1>2, <1>4, ElementOfSeq
  <1>9. s[e].class \in Class
    BY <1>6, <1>7, <1>8 DEF FrameSet
  <1>10. classes[s[e].class] = t
    BY <1>5, <1>9, GlobalFields DEF FrameState
  <1>11. QED
    BY <1>5, <1>9, <1>10 DEF Above

\* The frame that initializes a class.
LEMMA InitializerFrame ==
    ASSUME CoreInv, NEW t \in Threads, NEW c \in Class, classes[c] = t,
           NEW s, s = stack[t]
    PROVE  /\ \E d \in 1..Len(s) : s[d].class = c /\ FrameShape(s[d], d)
           /\ Depth(t) = Len(s) /\ Len(s) \in Nat /\ Top(t) = s[Len(s)]
  <1>1. StackOK(s, t, Globals)
    BY DEF CoreInv
  <1>2. \E d \in 1..Len(s) : s[d].class = c
    BY <1>1, GlobalFields DEF StackOK
  <1>3. s \in Seq(FrameSet) /\ Len(s) \in Nat
    BY <1>1, LenProperties DEF StackOK
  <1>4. Depth(t) = Len(s) /\ Top(t) = s[Len(s)]
    BY DEF Depth, Top
  <1>5. QED
    BY <1>1, <1>2, <1>3, <1>4 DEF StackOK

\* The mutex is taken only once the library is loaded.
LEMMA HeldIsLoaded ==
    ASSUME CoreInv, HolderInv, mutex \in Threads
    PROVE  cache # None
  <1>1. PICK t \in Threads : mutex = t
    OBVIOUS
  <1>2. PICK s : s = stack[t]
    OBVIOUS
  <1>3. PICK d \in 1..Len(s) : Caching(s[d].steps)
    BY <1>1, <1>2 DEF HolderInv
  <1>4. FrameState(s[d], t, Globals)
    BY <1>2 DEF CoreInv, StackOK
  <1>5. Body(s[d].steps, Cachable) /\ s[d].steps # << >>
    BY <1>3 DEF Caching, Body, Storing, Finding
  <1>6. LOADED
    BY <1>4, <1>5, GlobalFields DEF FrameState
  <1>7. QED
    BY <1>6, GlobalFields DEF CoreInv, LoadOK

\* Whoever initializes the loader waits for nobody.
LEMMA LoaderWaits ==
    ASSUME CoreInv, HolderInv, NEW u \in Threads, classes["Loader"] = u
    PROVE  WaitsFor(u) = {}
  <1>1. PICK s : s = stack[u]
    OBVIOUS
  <1>2. "Loader" \in Class /\ "Loader" \notin Methods
    BY ClassesApart
  <1>3. PICK d \in 1..Len(s) : s[d].class = "Loader" /\ FrameShape(s[d], d)
    BY <1>1, <1>2, InitializerFrame
  <1>4. Depth(u) = Len(s) /\ Len(s) \in Nat /\ Top(u) = s[Len(s)]
    BY <1>1, <1>2, InitializerFrame
  <1>5. s[d].steps \in {ToFind, ToLoad, ToFinish, << >>}
    BY <1>3 DEF FrameShape
  <1>6. s[d].steps # << >> => Head(s[d].steps).op \in {"find", "load", "loaded"}
    BY <1>5, LoaderSteps
  <1>7. d = Len(s)
    <2>1. ASSUME d # Len(s)
          PROVE  FALSE
      <3>1. s[d].steps # << >> /\ Head(s[d].steps).op = "use"
        BY <1>1, <1>2, <1>3, <2>1, FrameAbove
      <3>2. QED
        BY <1>6, <3>1
    <2>2. QED
      BY <2>1
  <1>8. ~At(u, {"use", "class", "method"})
    BY <1>4, <1>6, <1>7 DEF At
  <1>9. ASSUME At(u, {"load"}), mutex \in Threads
        PROVE  FALSE
    <2>1. At(u, {"find", "load", "loaded"}) /\ Now(u).op = "load"
      BY <1>9 DEF At, Now
    <2>2. cache = None
      BY <2>1, AtLoader
    <2>3. QED
      BY <1>9, <2>2, HeldIsLoaded
  <1>10. ASSUME NEW v \in WaitsFor(u)
         PROVE  FALSE
    <2>1. v \in Threads /\ ~At(u, {"use"})
      BY <1>8 DEF WaitsFor, At
    <2>2. At(u, {"load", "class", "method"}) /\ mutex = v
      BY <2>1 DEF WaitsFor
    <2>3. At(u, {"load"})
      BY <1>8, <2>2 DEF At
    <2>4. QED
      BY <1>9, <2>1, <2>2, <2>3
  <1>11. QED
    BY <1>10

\* Whoever initializes a class that asks for the loader waits for that at most.
LEMMA GuardedWaits ==
    ASSUME CoreInv, HolderInv, NEW u \in Threads, NEW c \in Guarded, classes[c] = u,
           NEW v \in WaitsFor(u)
    PROVE  classes["Loader"] = v
  <1>1. PICK s : s = stack[u]
    OBVIOUS
  <1>2. c \in Class /\ c \notin Methods
    BY ClassesApart
  <1>3. PICK d \in 1..Len(s) : s[d].class = c /\ FrameShape(s[d], d)
    BY <1>1, <1>2, InitializerFrame
  <1>4. Depth(u) = Len(s) /\ Len(s) \in Nat /\ Top(u) = s[Len(s)]
    BY <1>1, <1>2, InitializerFrame
  <1>5. s[d].steps \in {GuardedBy("Loader"), ToCheck, << >>}
    BY <1>3 DEF FrameShape
  <1>6. s[d].steps # << >> =>
            \/ Head(s[d].steps).op = "use" /\ Head(s[d].steps).class = "Loader"
            \/ Head(s[d].steps).op = "check"
    BY <1>5, LoaderSteps
  <1>7. CASE d = Len(s)
    <2>1. ~At(u, {"load", "class", "method"})
      BY <1>4, <1>6, <1>7 DEF At
    <2>2. At(u, {"use"}) /\ classes[Now(u).class] = v
      BY <2>1 DEF WaitsFor
    <2>3. Now(u).class = "Loader"
      BY <1>4, <1>6, <1>7, <2>2 DEF At, Now
    <2>4. QED
      BY <2>2, <2>3
  <1>8. CASE d # Len(s)
    <2>1. /\ s[d].steps # << >> /\ Head(s[d].steps).op = "use"
          /\ classes[Head(s[d].steps).class] = u
      BY <1>1, <1>2, <1>3, <1>8, FrameAbove
    <2>2. classes["Loader"] = u
      BY <1>6, <2>1
    <2>3. QED
      BY <2>2, LoaderWaits
  <1>9. QED
    BY <1>7, <1>8

\* Whoever initializes another class that is looked up waits for nobody.
LEMMA PlainWaits ==
    ASSUME CoreInv, HolderInv, NEW u \in Threads, NEW c \in Cachable \ Guarded, classes[c] = u
    PROVE  WaitsFor(u) = {}
  <1>1. PICK s : s = stack[u]
    OBVIOUS
  <1>2. c \in Class /\ c \notin Methods
    BY ClassesApart
  <1>3. PICK d \in 1..Len(s) : s[d].class = c /\ FrameShape(s[d], d)
    BY <1>1, <1>2, InitializerFrame
  <1>4. Depth(u) = Len(s) /\ Len(s) \in Nat /\ Top(u) = s[Len(s)]
    BY <1>1, <1>2, InitializerFrame
  <1>5. s[d].steps = << >>
    BY <1>3 DEF FrameShape
  <1>6. d = Len(s)
    BY <1>1, <1>2, <1>3, <1>5, FrameAbove
  <1>7. \A ops : ~At(u, ops)
    BY <1>4, <1>5, <1>6 DEF At
  <1>8. QED
    BY <1>7 DEF WaitsFor

\* Whoever holds the mutex waits for the class it looks up, or, to initialize that,
\* for the loader.
LEMMA HolderWaits ==
    ASSUME CoreInv, HolderInv, NEW u \in Threads, mutex = u, NEW v \in WaitsFor(u)
    PROVE  classes["Loader"] = v \/ \E c \in Cachable : classes[c] = v
  <1>1. PICK s : s = stack[u]
    OBVIOUS
  <1>2. PICK d \in 1..Len(s) : Caching(s[d].steps)
    BY <1>1 DEF HolderInv
  <1>3. /\ s[d].steps # << >> /\ Head(s[d].steps).op \in {"use", "store"}
        /\ Head(s[d].steps).class \in Cachable
    BY <1>2 DEF Caching, Storing, Finding
  <1>4. CASE d = Len(s)
    <2>1. Top(u) = s[d]
      BY <1>1, <1>4 DEF Top, Depth
    <2>2. ~At(u, {"load", "class", "method"})
      BY <1>3, <2>1 DEF At
    <2>3. At(u, {"use"}) /\ classes[Now(u).class] = v
      BY <2>2 DEF WaitsFor
    <2>4. Now(u).class \in Cachable
      BY <1>3, <2>1 DEF Now
    <2>5. QED
      BY <2>3, <2>4
  <1>5. CASE d # Len(s)
    <2>1. PICK c : c = Head(s[d].steps).class
      OBVIOUS
    <2>2. c \in Cachable /\ classes[c] = u
      BY <1>1, <1>2, <1>3, <1>5, <2>1, FrameAbove
    <2>3. c \in Guarded
      BY <2>2, PlainWaits
    <2>4. QED
      BY <2>2, <2>3, GuardedWaits
  <1>6. QED
    BY <1>4, <1>5

\* Whoever initializes an enumeration waits for the mutex or a class that is none.
LEMMA EnumWaits ==
    ASSUME CoreInv, HolderInv, NEW u \in Threads, NEW c \in Enums, classes[c] = u,
           NEW v \in WaitsFor(u)
    PROVE  mutex = v \/ \E b \in Class \ Enums : classes[b] = v
  <1>1. PICK s : s = stack[u]
    OBVIOUS
  <1>2. c \in Class
    BY ClassesApart
  <1>3. PICK d \in 1..Len(s) : s[d].class = c /\ FrameShape(s[d], d)
    BY <1>1, <1>2, InitializerFrame
  <1>4. Depth(u) = Len(s) /\ Len(s) \in Nat
    BY <1>1, <1>2, InitializerFrame
  <1>5. Depth(u) # 1
    <2>1. d = 2
      BY <1>3 DEF FrameShape
    <2>2. QED
      BY <1>4, <2>1
  <1>6. CASE At(u, {"use"}) /\ classes[Now(u).class] = v
    BY <1>5, <1>6, UsedClass
  <1>7. CASE mutex = v
    BY <1>7
  <1>8. QED
    BY <1>6, <1>7 DEF WaitsFor

\* Of threads that all wait for one of them, none initializes the loader, so none a
\* class that asks for it or is looked up, so none holds the mutex, so none
\* initializes an enumeration: nothing is left to wait for.
LEMMA NobodyInACircle == CoreInv /\ HolderInv => NoCircularWait
  <1> SUFFICES ASSUME CoreInv, HolderInv, NEW S \in SUBSET Threads, S # {},
                      \A t \in S : WaitsFor(t) \intersect S # {}
               PROVE  FALSE
    BY DEF NoCircularWait
  <1>1. \A u \in S : classes["Loader"] # u
    BY LoaderWaits
  <1>2. ASSUME NEW u \in S, NEW c \in Guarded \union Cachable, classes[c] = u
        PROVE  FALSE
    <2>1. PICK v \in S : v \in WaitsFor(u)
      OBVIOUS
    <2>2. c \in Guarded
      BY <1>2, <2>1, PlainWaits
    <2>3. classes["Loader"] = v
      BY <1>2, <2>1, <2>2, GuardedWaits
    <2>4. QED
      BY <1>1, <2>3
  <1>3. ASSUME NEW u \in S, mutex = u
        PROVE  FALSE
    <2>1. PICK v \in S : v \in WaitsFor(u)
      OBVIOUS
    <2>2. classes["Loader"] = v \/ \E c \in Cachable : classes[c] = v
      BY <1>3, <2>1, HolderWaits
    <2>3. QED
      BY <1>1, <1>2, <2>2
  <1>4. \A b \in Class \ Enums, u \in S : classes[b] # u
    BY <1>1, <1>2 DEF Class
  <1>5. ASSUME NEW u \in S, NEW c \in Enums, classes[c] = u
        PROVE  FALSE
    <2>1. PICK v \in S : v \in WaitsFor(u)
      OBVIOUS
    <2>2. mutex = v \/ \E b \in Class \ Enums : classes[b] = v
      BY <1>5, <2>1, EnumWaits
    <2>3. QED
      BY <1>3, <1>4, <2>2
  <1>6. PICK t \in S : TRUE
    OBVIOUS
  <1>7. PICK v \in S : v \in WaitsFor(t)
    OBVIOUS
  <1>8. mutex # v
    BY <1>3
  <1>9. At(t, {"use"}) /\ classes[Now(t).class] = v
    BY <1>7, <1>8 DEF WaitsFor
  <1>10. Now(t).class \in Class
    BY <1>9, UsedClass
  <1>11. QED
    BY <1>4, <1>5, <1>9, <1>10

\* Threads never wait for each other in a circle, for the mutex or for a class that
\* one of them initializes, and no thread for the mutex that it holds, however many
\* there are and whatever they look up first.
THEOREM NeverACircularWait == Spec => []NoCircularWait
  <1>1. Init => CoreInv /\ HolderInv
    BY InitHolds, HolderInit
  <1>2. (CoreInv /\ HolderInv) /\ [Next]_vars => (CoreInv /\ HolderInv)'
    BY NextKeeps, HolderNext
  <1>3. QED
    BY <1>1, <1>2, NobodyInACircle, PTL DEF Spec

-----------------------------------------------------------------------------
(* Exceptions: PendingInv. *)

\* Only thread t has another stack, or another exception.
LEMMA PendingKept ==
    ASSUME PendingInv, NEW t \in Threads,
           \A u \in Threads \ {t} : /\ stack'[u] = stack[u] /\ pending'[u] = pending[u]
                                    /\ unchecked'[u] = unchecked[u],
           \A b \in Class : classes[b] = "failed" => classes'[b] = "failed",
           \A c \in Cachable \ Guarded : classes'[c] # "failed",
           pending'[t] => /\ Raised(stack'[t])
                          /\ unchecked'[t] \/ Unwinding(stack'[t], Globals')
    PROVE  PendingInv'
  <1>1. PICK g : g = Globals
    OBVIOUS
  <1>2. PICK h : h = Globals'
    OBVIOUS
  <1>3. g.classes = classes /\ h.classes = classes'
    BY <1>1, <1>2, GlobalFields
  <1>4. ASSUME NEW u \in Threads, pending'[u]
        PROVE  Raised(stack'[u]) /\ (unchecked'[u] \/ Unwinding(stack'[u], h))
    <2>1. CASE u = t
      BY <1>2, <1>4, <2>1
    <2>2. CASE u # t
      <3>1. stack'[u] = stack[u] /\ pending[u] /\ unchecked'[u] = unchecked[u]
        BY <1>4, <2>2
      <3>2. Raised(stack[u]) /\ (unchecked[u] \/ Unwinding(stack[u], g))
        BY <1>1, <3>1 DEF PendingInv
      <3>3. Unwinding(stack[u], g) => Unwinding(stack[u], h)
        BY <1>3 DEF Unwinding
      <3>4. QED
        BY <3>1, <3>2, <3>3
    <2>3. QED
      BY <2>1, <2>2
  <1>5. \A u \in Threads :
            pending'[u] => Raised(stack'[u]) /\ (unchecked'[u] \/ Unwinding(stack'[u], Globals'))
    BY <1>2, <1>4
  <1>6. QED
    BY <1>5 DEF PendingInv

\* A thread with an exception pending, if it was asked for, can only end its frame, or
\* use a class that cannot be used.
LEMMA PendingAt ==
    ASSUME PendingInv, NEW t \in Threads, pending[t]
    PROVE  /\ stack[t] # << >> /\ Top(t).class \notin Cachable \ Guarded
           /\ \/ unchecked[t]
              \/ \A ops : At(t, ops) => "use" \in ops /\ classes[Now(t).class] = "failed"
  <1>1. PICK g : g = Globals
    OBVIOUS
  <1>2. Raised(stack[t]) /\ (unchecked[t] \/ Unwinding(stack[t], g)) /\ g.classes = classes
    BY <1>1, GlobalFields DEF PendingInv
  <1>3. stack[t] # << >> /\ Top(t).class \notin Cachable \ Guarded
    BY <1>2 DEF Raised, Top, Depth
  <1>4. ASSUME Unwinding(stack[t], g), NEW ops, At(t, ops)
        PROVE  "use" \in ops /\ classes[Now(t).class] = "failed"
    BY <1>2, <1>4 DEF Unwinding, Top, Depth, At, Now
  <1>5. QED
    BY <1>2, <1>3, <1>4

\* The frame that runs stays, with other steps.
LEMMA TopStays ==
    ASSUME CoreInv, NEW t \in Threads, Depth(t) > 0, NEW x \in Seq(StepSet),
           NEW w, w = WithSteps(t, x)
    PROVE  /\ DOMAIN w = Threads /\ \A u \in Threads \ {t} : w[u] = stack[u]
           /\ w[t] \in Seq(FrameSet) /\ w[t] # << >>
           /\ w[t][Len(w[t])].class = Top(t).class /\ w[t][Len(w[t])].steps = x
  <1>1. PICK s : s = stack[t]
    OBVIOUS
  <1>2. /\ s \in Seq(FrameSet) /\ s # << >> /\ Top(t) = s[Len(s)] /\ Top(t) \in FrameSet
    BY <1>1, TopFrame
  <1>3. PICK n : n = Frame(s[Len(s)].class, x)
    OBVIOUS
  <1>4. n \in FrameSet /\ n.class = Top(t).class /\ n.steps = x
    BY <1>2, <1>3 DEF FrameSet, Frame
  <1>5. PICK r : r = [s EXCEPT ![Len(s)] = n]
    OBVIOUS
  <1>6. r \in Seq(FrameSet) /\ Len(r) = Len(s) /\ r[Len(s)] = n
    BY <1>2, <1>4, <1>5, ReplaceLemma
  <1>7. r # << >>
    BY <1>2, <1>6, EmptySeq
  <1>8. DOMAIN w = Threads /\ w[t] = r /\ \A u \in Threads \ {t} : w[u] = stack[u]
    BY <1>1, <1>3, <1>5, WithStepsIs
  <1>9. QED
    BY <1>4, <1>6, <1>7, <1>8

\* Initializing a class that is looked up does nothing.
LEMMA AtSomething ==
    ASSUME CoreInv, NEW t \in Threads, NEW ops, At(t, ops)
    PROVE  /\ Depth(t) > 0 /\ Top(t).class \notin Cachable \ Guarded
           /\ Tail(Top(t).steps) \in Seq(StepSet)
  <1>1. Depth(t) > 0 /\ Top(t).steps # << >>
    BY DEF At
  <1>2. FrameShape(Top(t), Depth(t)) /\ Top(t).steps \in Seq(StepSet)
    BY <1>1, TopFrame
  <1>3. Tail(Top(t).steps) \in Seq(StepSet)
    BY <1>1, <1>2, HeadTail
  <1>4. QED
    BY <1>1, <1>2, <1>3 DEF FrameShape

\* A frame ends, or goes on without an exception that was asked for.
LEMMA PendingGoesOn ==
    ASSUME CoreInv, PendingInv, NEW t \in Threads, NEW ops, At(t, ops),
           UNCHANGED <<classes, unchecked>>,
           NEW x \in Seq(StepSet), stack' = WithSteps(t, x),
           \A u \in Threads \ {t} : pending'[u] = pending[u],
           x = << >> \/ (pending'[t] = pending[t] /\ (pending[t] => unchecked[t]))
    PROVE  PendingInv'
  <1>1. Depth(t) > 0 /\ Top(t).class \notin Cachable \ Guarded
    BY AtSomething
  <1>2. PICK w : w = WithSteps(t, x)
    OBVIOUS
  <1>3. /\ \A u \in Threads \ {t} : w[u] = stack[u]
        /\ w[t] # << >> /\ w[t][Len(w[t])].class = Top(t).class /\ w[t][Len(w[t])].steps = x
    BY <1>1, <1>2, TopStays
  <1>4. Raised(w[t])
    BY <1>1, <1>3 DEF Raised
  <1>5. PICK h : h = Globals'
    OBVIOUS
  <1>6. x = << >> => Unwinding(w[t], h)
    BY <1>3 DEF Unwinding
  <1>7. stack' = w /\ (pending'[t] => Raised(stack'[t]) /\ (unchecked'[t] \/ Unwinding(stack'[t], h)))
    BY <1>2, <1>4, <1>6
  <1>8. pending'[t] => Raised(stack'[t]) /\ (unchecked'[t] \/ Unwinding(stack'[t], Globals'))
    BY <1>5, <1>7
  <1>9. \A c \in Cachable \ Guarded : classes'[c] # "failed"
    BY DEF PendingInv
  <1>10. \A u \in Threads \ {t} : stack'[u] = stack[u]
    BY <1>3, <1>7
  <1>11. QED
    BY <1>8, <1>9, <1>10, PendingKept

\* A method that fails ends, and its exception is pending.
LEMMA FailUnwinds ==
    ASSUME CoreInv, PendingInv, NEW t \in Threads, NEW ops, At(t, ops), Fail(t),
           UNCHANGED <<classes, unchecked>>
    PROVE  PendingInv'
  <1>1. \A u \in Threads \ {t} : pending'[u] = pending[u]
    BY DEF Fail, CoreInv, GlobalType
  <1>2. PICK x : x = << >> /\ x \in Seq(StepSet)
    BY EmptySeq
  <1>3. stack' = WithSteps(t, x)
    BY <1>2 DEF Fail
  <1>4. QED
    BY <1>1, <1>2, <1>3, PendingGoesOn

\* The step is not the use of a class, and fails or goes on.
LEMMA StepPending ==
    ASSUME CoreInv, PendingInv, NEW t \in Threads, NEW ops, At(t, ops), "use" \notin ops,
           UNCHANGED <<classes, unchecked>>,
           \/ Fail(t)
           \/ UNCHANGED pending /\ \E x \in Seq(StepSet) : stack' = WithSteps(t, x)
    PROVE  PendingInv'
  <1>1. pending[t] => unchecked[t]
    BY PendingAt
  <1>2. CASE UNCHANGED pending /\ \E x \in Seq(StepSet) : stack' = WithSteps(t, x)
    <2>1. PICK x \in Seq(StepSet) : stack' = WithSteps(t, x)
      BY <1>2
    <2>2. pending' = pending
      BY <1>2
    <2>3. QED
      BY <1>1, <2>1, <2>2, PendingGoesOn
  <1>3. QED
    BY <1>2, FailUnwinds

LEMMA AdvancePending ==
    ASSUME CoreInv, PendingInv, NEW t \in Threads, NEW ops, At(t, ops), "use" \notin ops,
           UNCHANGED <<classes, unchecked>>, Fail(t) \/ (UNCHANGED pending /\ Advance(t))
    PROVE  PendingInv'
  <1>1. Advance(t) => \E x \in Seq(StepSet) : stack' = WithSteps(t, x)
    BY AtSomething DEF Advance
  <1>2. QED
    BY <1>1, StepPending

LEMMA UsePending ==
    ASSUME CoreInv, PendingInv, NEW t \in Threads, UseClass(t)
    PROVE  PendingInv'
  <1>1. PICK c : c = Now(t).class
    OBVIOUS
  <1>2. At(t, {"use"}) /\ UNCHANGED unchecked
    BY DEF UseClass, Quietly
  <1>3. Threads \intersect {"none", "done", "failed"} = {}
    BY JniAssumption
  <1>4. pending[t] => unchecked[t] \/ classes[c] = "failed"
    BY <1>1, <1>2, PendingAt
  <1>5. CASE classes[c] \in {"done", t} /\ Advance(t) /\ UNCHANGED <<classes, pending, mutex>>
    <2>1. pending[t] => unchecked[t]
      BY <1>3, <1>4, <1>5
    <2>2. PICK x \in Seq(StepSet) : stack' = WithSteps(t, x)
      BY <1>2, <1>5, AtSomething DEF Advance
    <2>3. QED
      BY <1>2, <1>5, <2>1, <2>2, PendingGoesOn
  <1>6. CASE Fail(t) /\ UNCHANGED classes
    BY <1>2, <1>6, FailUnwinds
  <1>7. CASE /\ classes[c] = "none" /\ ~pending[t]
             /\ classes' = [classes EXCEPT ![c] = t]
             /\ \E steps \in Initializers(c) :
                    stack' = [stack EXCEPT ![t] = Append(@, Frame(c, steps))]
             /\ UNCHANGED <<pending, mutex>>
    <2>1. /\ DOMAIN stack = Threads
          /\ classes \in [Class -> {"none", "done", "failed"} \union Threads]
      BY DEF CoreInv, GlobalType
    <2>2. \A u \in Threads \ {t} : stack'[u] = stack[u] /\ pending'[u] = pending[u]
      BY <1>7, <2>1
    <2>3. \A b \in Class : classes'[b] = classes[b] \/ (b = c /\ classes'[b] = t)
      BY <1>7, <2>1
    <2>4. \A b \in Class : classes[b] = "failed" <=> classes'[b] = "failed"
      BY <1>3, <1>7, <2>3
    <2>5. \A b \in Cachable \ Guarded : classes'[b] # "failed"
      BY <2>4, ClassesApart DEF PendingInv
    <2>6. ~pending'[t]
      BY <1>7
    <2>7. QED
      BY <1>2, <2>2, <2>4, <2>5, <2>6, PendingKept
  <1>8. QED
    BY <1>1, <1>5, <1>6, <1>7 DEF UseClass

LEMMA LoaderPending ==
    ASSUME CoreInv, PendingInv, NEW t \in Threads,
           CheckLoaded(t) \/ FindFile(t) \/ LoadLibrary(t) \/ SetLoaded(t)
    PROVE  PendingInv'
  <1>1. /\ At(t, {"check", "find", "load", "loaded"}) /\ UNCHANGED <<classes, unchecked>>
        /\ Fail(t) \/ (UNCHANGED pending /\ Advance(t))
    BY DEF CheckLoaded, FindFile, LoadLibrary, SetLoaded, At, Quietly
  <1>2. QED
    BY <1>1, AdvancePending

LEMMA NativePending ==
    ASSUME CoreInv, PendingInv, NEW t \in Threads,
           StoreClass(t) \/ LookupMethod(t) \/ CallJni(t) \/ ThrowNew(t)
    PROVE  PendingInv'
  <1>1. /\ At(t, {"store", "method", "jni", "throw"}) /\ UNCHANGED <<classes, unchecked>>
        /\ Fail(t) \/ (UNCHANGED pending /\ Advance(t))
    BY DEF StoreClass, LookupMethod, CallJni, ThrowNew, At, Quietly
  <1>2. QED
    BY <1>1, AdvancePending

LEMMA LookupPending ==
    ASSUME CoreInv, PendingInv, NEW t \in Threads, LookupClass(t)
    PROVE  PendingInv'
  <1>1. PICK c : c = Now(t).class
    OBVIOUS
  <1>2. /\ At(t, {"class"}) /\ At(t, NativeOps) /\ Now(t).op = "class"
        /\ UNCHANGED <<classes, unchecked>>
    BY DEF LookupClass, At, Now, NativeOps, Quietly
  <1>3. CASE Fail(t) \/ (Advance(t) /\ UNCHANGED pending)
    BY <1>2, <1>3, AdvancePending
  <1>4. CASE /\ stack' = WithSteps(t, Use(c) \o Step("store", c, "") \o Tail(Top(t).steps))
             /\ UNCHANGED pending
    <2>1. PICK x : x = Use(c) \o Step("store", c, "") \o Tail(Top(t).steps)
      OBVIOUS
    <2>2. /\ Now(t) \in NativeStep(Looks(Top(t)))
          /\ Tail(Top(t).steps) \in Seq(NativeStep(Looks(Top(t))))
      BY <1>2, AtNative
    <2>3. c \in Looks(Top(t))
      BY <1>1, <1>2, <2>2 DEF NativeStep
    <2>4. x \in Seq(StepSet)
      BY <2>1, <2>2, <2>3, LooksType, FindAndStore
    <2>5. QED
      BY <1>2, <1>4, <2>1, <2>4, StepPending
  <1>5. QED
    BY <1>1, <1>3, <1>4 DEF LookupClass

LEMMA ListPending ==
    ASSUME CoreInv, PendingInv, NEW t \in Threads, ConstructList(t)
    PROVE  PendingInv'
  <1>1. /\ At(t, {"list"}) /\ At(t, NativeOps) /\ Now(t).op = "list"
        /\ UNCHANGED <<pending, unchecked, classes>>
    BY DEF ConstructList, At, Now, NativeOps, Quietly
  <1>2. pending[t] => unchecked[t]
    BY <1>1, PendingAt
  <1>3. PICK x : x = Tail(Top(t).steps)
    OBVIOUS
  <1>4. Depth(t) > 0 /\ x \in Seq(StepSet) /\ Now(t) \in NativeStep(Looks(Top(t)))
    BY <1>1, <1>3, AtSomething, AtNative
  <1>5. PICK w : w = WithSteps(t, x)
    OBVIOUS
  <1>6. DOMAIN w = Threads /\ w[t] \in Seq(FrameSet) /\ \A u \in Threads \ {t} : w[u] = stack[u]
    BY <1>4, <1>5, TopStays
  <1>7. PICK f : f = Frame("list", ListSteps(Now(t).member))
    OBVIOUS
  <1>8. f \in FrameSet /\ f.class = "list"
    <2>1. Now(t).member \in Member
      BY <1>1, <1>4 DEF NativeStep
    <2>2. QED
      BY <1>7, <2>1, ListShape DEF FrameSet, Frame
  <1>9. stack' = [w EXCEPT ![t] = Append(@, f)]
    BY <1>3, <1>5, <1>7 DEF ConstructList
  <1>10. PICK r : r = Append(w[t], f)
    OBVIOUS
  <1>11. stack'[t] = r /\ \A u \in Threads \ {t} : stack'[u] = stack[u]
    BY <1>6, <1>9, <1>10
  <1>12. /\ r \in Seq(FrameSet) /\ r[Len(r)] = f /\ Len(r) = Len(w[t]) + 1 /\ Len(w[t]) \in Nat
    BY <1>6, <1>8, <1>10, PushLemma, LenProperties
  <1>13. Raised(r)
    <2>1. r # << >>
      BY <1>12, EmptySeq
    <2>2. "list" \notin Cachable \ Guarded
      BY ClassesApart
    <2>3. QED
      BY <1>8, <1>12, <2>1, <2>2 DEF Raised
  <1>14. \A c \in Cachable \ Guarded : classes'[c] # "failed"
    BY <1>1 DEF PendingInv
  <1>15. QED
    BY <1>1, <1>2, <1>11, <1>13, <1>14, PendingKept

LEMMA StartPending ==
    ASSUME CoreInv, PendingInv, NEW t \in Threads, Start(t)
    PROVE  PendingInv'
  <1>1. ~pending[t] /\ UNCHANGED <<pending, unchecked, classes>>
    BY PendingAt DEF Start
  <1>2. DOMAIN stack = Threads
    BY DEF CoreInv, GlobalType
  <1>3. \A u \in Threads \ {t} : stack'[u] = stack[u]
    BY <1>2 DEF Start
  <1>4. \A c \in Cachable \ Guarded : classes'[c] # "failed"
    BY <1>1 DEF PendingInv
  <1>5. QED
    BY <1>1, <1>3, <1>4, PendingKept

\* The frame below one that ended with an exception used its class, or goes on
\* without asking for its list.
LEMMA ReturnPending ==
    ASSUME CoreInv, HolderInv, PendingInv, UncheckedType, NEW t \in Threads, Return(t)
    PROVE  PendingInv'
  <1>1. PICK s : s = stack[t]
    OBVIOUS
  <1>2. PICK c : c = Top(t).class
    OBVIOUS
  <1>3. PICK k : k = Len(s)
    OBVIOUS
  <1>4. /\ Depth(t) > 0 /\ Top(t).steps = << >>
        /\ stack' = [stack EXCEPT ![t] = SubSeq(@, 1, Len(@) - 1)]
        /\ pending' = [pending EXCEPT ![t] = @ /\ Depth(t) > 1]
        /\ unchecked' = [unchecked EXCEPT ![t] = (@ \/ (c = "list" /\ pending[t])) /\ Depth(t) > 1]
    BY <1>2 DEF Return
  <1>5. /\ StackOK(s, t, Globals) /\ s \in Seq(FrameSet) /\ s # << >>
        /\ k \in Nat \ {0} /\ k \in 1..k /\ k = Len(s)
        /\ Depth(t) = k /\ Top(t) = s[k] /\ FrameState(Top(t), t, Globals)
        /\ FrameShape(Top(t), k) /\ Top(t) \in FrameSet
    BY <1>1, <1>3, <1>4, TopFrame DEF CoreInv
  <1>6. /\ classes \in [Class -> {"none", "done", "failed"} \union Threads]
        /\ pending \in [Threads -> BOOLEAN] /\ DOMAIN stack = Threads
    BY DEF CoreInv, GlobalType
  <1>7. Threads \intersect {"none", "done", "failed"} = {}
    BY JniAssumption
  <1>8. c \in Class => classes[c] = t
    BY <1>2, <1>4, <1>5, GlobalFields DEF FrameState
  <1>9. /\ \A b \in Class \ {c} : classes'[b] = classes[b]
        /\ c \in Class => classes'[c] = IF pending[t] THEN "failed" ELSE "done"
    <2>1. CASE c \in Class
      <3>1. classes' = [classes EXCEPT ![c] = IF pending[t] THEN "failed" ELSE "done"]
        BY <1>2, <1>8, <2>1 DEF Return
      <3>2. QED
        BY <1>6, <2>1, <3>1
    <2>2. CASE c \notin Class
      BY <1>2, <2>2 DEF Return
    <2>3. QED
      BY <2>1, <2>2
  <1>10. ASSUME NEW b \in Class, classes[b] = "failed"
         PROVE  classes'[b] = "failed"
    <2>1. b # c
      BY <1>7, <1>8, <1>10
    <2>2. QED
      BY <1>9, <1>10, <2>1
  <1>11. pending[t] => c \notin Cachable \ Guarded
    BY <1>2, PendingAt
  <1>12. ASSUME NEW b \in Cachable \ Guarded
         PROVE  classes'[b] # "failed"
    <2>1. b \in Class /\ classes[b] # "failed"
      BY ClassesApart DEF PendingInv
    <2>2. CASE b = c
      BY <1>9, <1>11, <2>1, <2>2
    <2>3. CASE b # c
      BY <1>9, <2>1, <2>3
    <2>4. QED
      BY <2>2, <2>3
  <1>13. \A u \in Threads \ {t} : /\ stack'[u] = stack[u] /\ pending'[u] = pending[u]
                                  /\ unchecked'[u] = unchecked[u]
    BY <1>4, <1>6 DEF UncheckedType
  <1>14. ASSUME pending'[t]
         PROVE  Raised(stack'[t]) /\ (unchecked'[t] \/ Unwinding(stack'[t], Globals'))
    <2>1. pending[t] /\ Depth(t) > 1
      BY <1>4, <1>6, <1>14
    <2>2. PICK r : r = SubSeq(s, 1, k - 1)
      OBVIOUS
    <2>3. PICK e : e = s[k - 1]
      OBVIOUS
    <2>4. /\ stack'[t] = r /\ r \in Seq(FrameSet) /\ Len(r) = k - 1 /\ r[k - 1] = e
          /\ k - 1 \in 1..k - 1
      <3>1. /\ r \in Seq(FrameSet) /\ Len(r) = k - 1
            /\ \A i \in 1..k - 1 : r[i] = s[i]
        BY <1>5, <2>2, PopLemma
      <3>2. k - 1 \in 1..k - 1
        BY <1>5, <2>1
      <3>3. stack'[t] = r
        BY <1>1, <1>4, <1>5, <1>6, <2>2
      <3>4. QED
        BY <2>3, <3>1, <3>2, <3>3
    <2>5. r # << >> /\ r[Len(r)] = e
      BY <1>5, <2>1, <2>4, EmptySeq
    <2>6. k - 1 \in 1..Len(s) /\ (k - 1) + 1 = k /\ k \in 1..Len(s)
      BY <1>5, <2>1
    <2>7. FrameShape(e, k - 1) /\ Above(s[k], e)
      <3>1. \A d \in 1..Len(s) : d + 1 \in 1..Len(s) => Above(s[d + 1], s[d])
        BY <1>5 DEF StackOK
      <3>2. Above(s[(k - 1) + 1], s[k - 1])
        BY <2>6, <3>1
      <3>3. \A d \in 1..Len(s) : FrameShape(s[d], d)
        BY <1>5 DEF StackOK
      <3>4. QED
        BY <2>3, <2>6, <3>2, <3>3
    <2>8. CASE c = "list"
      <3>1. unchecked'[t]
        BY <1>4, <2>1, <2>8 DEF UncheckedType
      <3>2. e.class \in Methods
        <4>1. ListsOnNative(s)
          BY <1>1 DEF HolderInv
        <4>2. s[(k - 1) + 1].class = "list"
          BY <1>2, <1>5, <2>6, <2>8
        <4>3. QED
          BY <2>3, <2>6, <4>1, <4>2 DEF ListsOnNative
      <3>3. Raised(r)
        BY <2>5, <3>2, ClassesApart DEF Raised
      <3>4. QED
        BY <2>4, <3>1, <3>3
    <2>9. CASE c # "list"
      <3>1. c \in Class
        <4>1. c \in Class \union {"", "list"}
          BY <1>2, <1>5 DEF FrameSet
        <4>2. c # ""
          <5>1. k # 1
            BY <1>5, <2>1
          <5>2. QED
            BY <1>2, <1>5, <5>1 DEF FrameShape
        <4>3. QED
          BY <2>9, <4>1, <4>2
      <3>2. e.steps # << >> /\ Head(e.steps).op = "use" /\ Head(e.steps).class = c
        BY <1>2, <1>5, <2>7, <3>1 DEF Above
      <3>3. e.class \notin Cachable \ Guarded
        BY <2>7, <3>2 DEF FrameShape
      <3>4. classes'[c] = "failed"
        BY <1>9, <2>1, <3>1
      <3>5. PICK h : h = Globals'
        OBVIOUS
      <3>6. Raised(r) /\ Unwinding(r, h)
        <4>1. h.classes[c] = "failed"
          BY <3>4, <3>5, GlobalFields
        <4>2. QED
          BY <2>5, <3>1, <3>2, <3>3, <4>1 DEF Raised, Unwinding
      <3>7. QED
        BY <2>4, <3>5, <3>6
    <2>10. QED
      BY <2>8, <2>9
  <1>15. QED
    BY <1>10, <1>12, <1>13, <1>14, PendingKept

LEMMA UnloadPending ==
    ASSUME PendingInv, Unload
    PROVE  PendingInv'
  <1>1. /\ \A t \in Threads : stack[t] = << >>
        /\ classes' = [c \in Class |-> "none"] /\ UNCHANGED pending
    BY DEF Unload
  <1>2. \A t \in Threads : ~pending'[t]
    BY <1>1, PendingAt
  <1>3. \A c \in Cachable \ Guarded : classes'[c] # "failed"
    BY <1>1, ClassesApart
  <1>4. QED
    BY <1>2, <1>3 DEF PendingInv

LEMMA PendingNext ==
    CoreInv /\ HolderInv /\ UncheckedType /\ PendingInv /\ [Next]_vars => PendingInv'
  <1> SUFFICES ASSUME CoreInv, HolderInv, UncheckedType, PendingInv, [Next]_vars
               PROVE  PendingInv'
    OBVIOUS
  <1>1. ASSUME NEW t \in Threads, Thread(t)
        PROVE  PendingInv'
    BY <1>1, ReturnPending, UsePending, LoaderPending, NativePending, LookupPending, ListPending
    DEF Thread
  <1>2. ASSUME NEW t \in Threads, Start(t)
        PROVE  PendingInv'
    BY <1>2, StartPending
  <1>3. CASE Unload
    BY <1>3, UnloadPending
  <1>4. CASE UNCHANGED vars
    BY <1>4 DEF vars, PendingInv, Raised, Unwinding, Globals
  <1>5. QED
    BY <1>1, <1>2, <1>3, <1>4 DEF Next, Rest

LEMMA PendingInit == Init => PendingInv
  BY ClassesApart DEF Init, PendingInv

\* Whatever fails in a native method, or in the initialization of a class that it looks
\* up, its exception reaches the client through every frame below, and no function of
\* the JNIEnv is called and nothing is looked up on the way, unless what failed is the
\* construction of a list.
THEOREM AlwaysStopsAtException == Spec => []StopsAtException
  <1>1. Init => CoreInv /\ HolderInv /\ PendingInv
    BY InitHolds, HolderInit, PendingInit
  <1>2. /\ CoreInv /\ HolderInv /\ UncheckedType /\ PendingInv
        /\ [Next]_vars
        => CoreInv' /\ HolderInv' /\ PendingInv'
    BY NextKeeps, HolderNext, PendingNext
  <1>3. CoreInv /\ PendingInv => StopsAtException
    <2> SUFFICES ASSUME PendingInv, NEW t \in Threads, pending[t], ~unchecked[t]
                 PROVE  ~CallsTheJvm(t)
      BY DEF StopsAtException
    <2>1. QED
      BY PendingAt DEF CallsTheJvm
  <1>4. QED
    BY <1>1, <1>2, <1>3, UncheckedHasType, PTL DEF Spec

=============================================================================
