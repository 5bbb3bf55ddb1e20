----------------------------- MODULE JniLibrary -----------------------------
(***************************************************************************)
(* The native library of the Java package, from the first use of a class   *)
(* on: the static initializers and Loader.java, which find and load it;    *)
(* the cache of classes and methods behind one mutex (cache.cpp); and the  *)
(* native methods, which convert C++ values step by step and return NULL   *)
(* when a step fails (Interface.cpp, IpAddress.cpp, MacAddress.cpp,        *)
(* wrappers.cpp).                                                          *)
(*                                                                         *)
(* A method is the sequence of its steps.  A thread's frames are the       *)
(* methods, static initializers and constructors it is in.  FindClass()    *)
(* initializes the class, and Java lets one thread initialize it while the *)
(* others wait.  A class, and with it the weak reference in the cache, is  *)
(* collected with its class loader only, which unloads the library.        *)
(***************************************************************************)
EXTENDS Naturals, Sequences, FiniteSets, Loader

CONSTANTS
    Threads,
    None,
    Systems,        \* platforms and what is installed on them, as in Loader
    Shapes,         \* interfaces: which of their parts there are
    MaxCalls,       \* bound: calls of the client
    MaxLoads        \* bound: class loaders that load the package

VARIABLES
    system,      \* one of Systems
    classes,     \* who initializes a class, or how that ended
    file,        \* what loadLibrary() found
    library,     \* the file that is loaded
    LOADED,
    cache,       \* the singleton: the classes and methods in it; or None
    weak,        \* weak global references made for each class and method
    mutex,       \* who holds _singleton_mutex
    stack,       \* the frames of each thread, the innermost last
    pending,     \* an exception is pending in the thread
    unchecked,   \* history: it is that of a list, which nobody asked for
    calls, loads

vars == <<system, classes, file, library, LOADED, cache, weak, mutex,
          stack, pending, unchecked, calls, loads>>

Guarded  == {"EnumConstantsHelper", "InterfaceBrowser", "MacAddress", "Samples", "VersionInfo"}
Enums    == {"InterfaceFlag", "InterfaceIPAddressFlag"}
Cachable == {"Short", "Integer", "Long", "ArrayList", "IllegalArgumentException",
             "EnumConstantNotPresentException", "InetAddressHelper", "MacAddress",
             "InterfaceIPAddress", "Interface"}
Class    == {"Loader"} \union Guarded \union Enums \union Cachable

\* Methods and constructors.
Member == {"ArrayList(int)", "add(Object)", "MacAddress(...)", "InterfaceIPAddress(...)",
           "Interface(...)", "valueOf(short)", "valueOf(int)", "valueOf(long)",
           "getIPv4Address(byte[])", "getIPv6Address(byte[], Integer)"}

Cached == [classes : SUBSET Cachable, methods : SUBSET (Cachable \X Member)]

\* None is no thread and no cache, a thread is not one of the ways in which the
\* initialization of a class may end, and a shape tells which parts there are.
ASSUME JniAssumption ==
    /\ None \notin Threads /\ None \notin Cached
    /\ Threads \intersect {"none", "done", "failed"} = {}
    /\ Shapes \subseteq [mtu : BOOLEAN, mac : BOOLEAN, ipv4 : BOOLEAN, ipv6 : BOOLEAN,
                         scoped : BOOLEAN]
    /\ MaxCalls \in Nat /\ MaxLoads \in Nat \ {0}

-----------------------------------------------------------------------------
(* Steps. *)

Step(op, class, member) == <<[op |-> op, class |-> class, member |-> member]>>
Use(c)       == Step("use", c, "")          \* Java uses the class
JClass(c)    == Step("class", c, "")        \* JCache::c
Method(c, m) == Step("method", c, m)        \* JCache::m, JCache::sm
Jni(f)       == Step("jni", "", f)          \* any other function of the JNIEnv
Throw        == Step("throw", "", "")
If(b, steps) == IF b THEN steps ELSE << >>

Static(c, m)    == JClass(c) \o Method(c, m) \o Jni("CallStaticObjectMethod")
Construct(c, m) == JClass(c) \o Method(c, m) \o Jni("NewObject")

ConvertIPv4 == Jni("NewByteArray") \o Static("InetAddressHelper", "getIPv4Address(byte[])")

Short   == Static("Short", "valueOf(short)")
Integer == Static("Integer", "valueOf(int)")
Long    == Static("Long", "valueOf(long)")

ConvertIPv6(scoped) ==
    Jni("NewByteArray") \o If(scoped, Integer)
    \o Static("InetAddressHelper", "getIPv6Address(byte[], Integer)")

ConvertMac ==
    Jni("NewStringUTF") \o Jni("NewByteArray") \o Construct("MacAddress", "MacAddress(...)")

\* address is how the address itself is converted, once more for the broadcast
\* address or the other end.
ConvertAddress(address, prefix, other) ==
    address \o If(prefix, Short) \o If(other, address)
    \o Construct("InterfaceIPAddress", "InterfaceIPAddress(...)")

\* ArrayList(int), in a frame of its own.
NewList == Step("list", "ArrayList", "ArrayList(int)")
ListSteps(m) ==
    JClass("ArrayList") \o Method("ArrayList", "add(Object)")
    \o Method("ArrayList", m) \o Jni("NewObject")
Add(steps) == steps \o Jni("CallBooleanMethod")

ConvertInterface(s) ==
    Jni("NewStringUTF") \o If(s.mtu, Long) \o If(s.mac, ConvertMac) \o NewList \o NewList
    \o If(s.ipv4, Add(ConvertAddress(ConvertIPv4, TRUE, TRUE)))
    \o If(s.ipv6, Add(ConvertAddress(ConvertIPv6(s.scoped), TRUE, FALSE)))
    \o Construct("Interface", "Interface(...)")

GetInterfacesList(s) == NewList \o Add(ConvertInterface(s))

\* An argument is refused with an exception of class c.
Refuse(c) == JClass(c) \o Throw

GetDataFromRepr(valid) ==
    IF valid THEN Jni("GetStringUTFChars") \o Jni("NewByteArray")
    ELSE Refuse("IllegalArgumentException")

\* What a client may call.
Programs ==
    {Use("VersionInfo") \o Jni("NewStringUTF"), Use("InterfaceFlag"), Use("InterfaceIPAddressFlag")}
    \union {Use("MacAddress") \o GetDataFromRepr(valid) : valid \in BOOLEAN}
    \union {Use("Samples") \o ConvertInterface(s) : s \in Shapes}
    \union {Use("InterfaceBrowser") \o GetInterfacesList(s) : s \in Shapes}

\* Static initializers.  Those of the enumerations call native methods for their
\* constants; the second may find that C++ does not know one.
GuardedBy(loader) == Use(loader) \o Step("check", loader, "")

Initializers(c) ==
    IF c = "Loader" THEN {Step("find", c, "") \o Step("load", c, "") \o Step("loaded", c, "")}
    ELSE IF c \in Guarded THEN {GuardedBy("Loader")}
    ELSE IF c = "InterfaceFlag"
    THEN {Use("EnumConstantsHelper") \o Jni("GetStringUTFChars")}
    ELSE IF c = "InterfaceIPAddressFlag"
    THEN {Use("EnumConstantsHelper") \o Jni("GetStringUTFChars") \o odd :
              odd \in {<< >>, Refuse("EnumConstantNotPresentException")}}
    ELSE {<< >>}

-----------------------------------------------------------------------------
(* Frames. *)

Frame(class, steps) == [class |-> class, steps |-> steps]

Depth(t)   == Len(stack[t])
Top(t)     == stack[t][Depth(t)]
At(t, ops) == Depth(t) > 0 /\ Top(t).steps # << >> /\ Head(Top(t).steps).op \in ops
Now(t)     == Head(Top(t).steps)

WithSteps(t, steps) == [stack EXCEPT ![t][Depth(t)].steps = steps]
Advance(t) == stack' = WithSteps(t, Tail(Top(t).steps))
Quietly    == UNCHANGED <<system, unchecked, calls, loads>>

\* A step fails: an exception is pending, and the method returns, which unlocks
\* the mutex if FindClass() was to be followed by storing the class.
Fail(t) ==
    /\ stack' = WithSteps(t, << >>)
    /\ pending' = [pending EXCEPT ![t] = TRUE]
    /\ mutex' = IF mutex = t /\ \E i \in DOMAIN Top(t).steps : Top(t).steps[i].op = "store"
                THEN None ELSE mutex

Init ==
    /\ system \in Systems
    /\ classes = [c \in Class |-> "none"]
    /\ file = NoFile
    /\ library = NoFile
    /\ LOADED = FALSE
    /\ cache = None
    /\ weak = << >>
    /\ mutex = None
    /\ stack = [t \in Threads |-> << >>]
    /\ pending = [t \in Threads |-> FALSE]
    /\ unchecked = [t \in Threads |-> FALSE]
    /\ calls = 0
    /\ loads = 1

Start(t) ==
    /\ stack[t] = << >>
    /\ calls < MaxCalls
    /\ calls' = calls + 1
    /\ \E p \in Programs : stack' = [stack EXCEPT ![t] = <<Frame("", p)>>]
    /\ UNCHANGED <<system, classes, file, library, LOADED, cache, weak, mutex,
                   pending, unchecked, loads>>

\* A frame's end.  A static initializer leaves its class usable or not; the
\* client gets the exception or the result.  The constructor of a list returns in
\* any case, and the method goes on without asking whether it failed.
Return(t) ==
    /\ Depth(t) > 0
    /\ Top(t).steps = << >>
    /\ stack' = [stack EXCEPT ![t] = SubSeq(@, 1, Len(@) - 1)]
    /\ classes' = IF Top(t).class \in Class /\ classes[Top(t).class] = t
                  THEN [classes EXCEPT ![Top(t).class] = IF pending[t] THEN "failed" ELSE "done"]
                  ELSE classes
    /\ pending' = [pending EXCEPT ![t] = @ /\ Depth(t) > 1]
    /\ unchecked' = [unchecked EXCEPT ![t] = (@ \/ (Top(t).class = "list" /\ pending[t])) /\ Depth(t) > 1]
    /\ UNCHANGED <<system, file, library, LOADED, cache, weak, mutex, calls, loads>>

-----------------------------------------------------------------------------
(* Class initialization and loading. *)

\* Initialized by this thread or already; impossible; begun now; or waited for.
\* While an exception is pending, no initialization is begun.
UseClass(t) ==
    /\ At(t, {"use"})
    /\ LET c == Now(t).class
       IN \/ /\ classes[c] \in {"done", t}
             /\ Advance(t)
             /\ UNCHANGED <<classes, pending, mutex>>
          \/ /\ classes[c] = "failed" \/ pending[t]
             /\ Fail(t)
             /\ UNCHANGED classes
          \/ /\ classes[c] = "none" /\ ~pending[t]
             /\ classes' = [classes EXCEPT ![c] = t]
             /\ \E steps \in Initializers(c) :
                    stack' = [stack EXCEPT ![t] = Append(@, Frame(c, steps))]
             /\ UNCHANGED <<pending, mutex>>
    /\ UNCHANGED <<file, library, LOADED, cache, weak>>
    /\ Quietly

CheckLoaded(t) ==
    /\ At(t, {"check"})
    /\ \/ LOADED /\ Advance(t) /\ UNCHANGED <<pending, mutex>>
       \/ ~LOADED /\ Fail(t)
    /\ UNCHANGED <<classes, file, library, LOADED, cache, weak>>
    /\ Quietly

FindFile(t) ==
    /\ At(t, {"find"})
    /\ file' \in Found(system.platform, system.installed)
    /\ \/ file' = NoFile /\ Fail(t)
       \/ file' # NoFile /\ Advance(t) /\ UNCHANGED <<pending, mutex>>
    /\ UNCHANGED <<classes, library, LOADED, cache, weak>>
    /\ Quietly

NewCache == [classes |-> {}, methods |-> {}]

\* A fault in LoadLibrary: JNI_OnLoad looks up a class in advance.
LoadLibraryPreloading(t) ==
    /\ At(t, {"load"})
    /\ mutex = None
    /\ library' = file
    /\ cache' = NewCache
    /\ stack' = WithSteps(t, JClass("MacAddress") \o Tail(Top(t).steps))
    /\ UNCHANGED <<classes, file, LOADED, weak, pending, mutex>>
    /\ Quietly

\* System.load() refuses the file, or JNI_OnLoad calls create_instance().
LoadLibrary(t) ==
    /\ At(t, {"load"})
    /\ \/ /\ Fail(t)
          /\ UNCHANGED <<library, cache>>
       \/ /\ mutex = None
          /\ library' = file
          /\ \/ cache # None /\ Fail(t) /\ UNCHANGED cache
             \/ /\ cache = None
                /\ cache' = NewCache
                /\ Advance(t)
                /\ UNCHANGED <<pending, mutex>>
    /\ UNCHANGED <<classes, file, LOADED, weak>>
    /\ Quietly

SetLoaded(t) ==
    /\ At(t, {"loaded"})
    /\ LOADED' = TRUE
    /\ Advance(t)
    /\ UNCHANGED <<classes, file, library, cache, weak, mutex, pending>>
    /\ Quietly

\* A fault in Unload: the library and its cache stay.
UnloadKeeping ==
    /\ \A t \in Threads : stack[t] = << >>
    /\ loads < MaxLoads
    /\ loads' = loads + 1
    /\ classes' = [c \in Class |-> "none"]
    /\ file' = NoFile
    /\ LOADED' = FALSE
    /\ weak' = << >>
    /\ UNCHANGED <<system, library, cache, mutex, stack, pending, unchecked, calls>>

\* Nothing refers to the package's class loader: its classes go, and with them
\* the library, which calls destroy_instance().  Another loader may come.
Unload ==
    /\ \A t \in Threads : stack[t] = << >>
    /\ loads < MaxLoads
    /\ loads' = loads + 1
    /\ classes' = [c \in Class |-> "none"]
    /\ file' = NoFile
    /\ library' = NoFile
    /\ LOADED' = FALSE
    /\ cache' = None
    /\ weak' = << >>
    /\ UNCHANGED <<system, mutex, stack, pending, unchecked, calls>>

-----------------------------------------------------------------------------
(* The cache, and other functions of the JNIEnv. *)

Count(key) == IF key \in DOMAIN weak THEN weak[key] ELSE 0
Referenced(key) == [k \in DOMAIN weak \union {key} |-> Count(k) + (IF k = key THEN 1 ELSE 0)]
ClassKey(c) == <<c, "">>

\* A fault in LookupClass: the mutex is not held while FindClass() runs.
LookupClassUnlocked(t) ==
    /\ At(t, {"class"})
    /\ mutex = None
    /\ stack' = WithSteps(t, (IF cache # None /\ Now(t).class \in cache.classes THEN << >>
                              ELSE Use(Now(t).class) \o Step("store", Now(t).class, ""))
                             \o Tail(Top(t).steps))
    /\ UNCHANGED <<classes, file, library, LOADED, cache, weak, mutex, pending>>
    /\ Quietly

\* c(): the class is in the cache, or FindClass() and storing it come next, with
\* the mutex held.
LookupClass(t) ==
    /\ At(t, {"class"})
    /\ mutex = None
    /\ LET c == Now(t).class
       IN \/ Fail(t)
          \/ /\ cache # None
             /\ c \in cache.classes
             /\ Advance(t)
             /\ UNCHANGED <<mutex, pending>>
          \/ /\ cache # None
             /\ c \notin cache.classes
             /\ mutex' = t
             /\ stack' = WithSteps(t, Use(c) \o Step("store", c, "") \o Tail(Top(t).steps))
             /\ UNCHANGED pending
    /\ UNCHANGED <<classes, file, library, LOADED, cache, weak>>
    /\ Quietly

\* The weak reference cannot be made, or the class is stored.
StoreClass(t) ==
    /\ At(t, {"store"})
    /\ \/ /\ Fail(t)
          /\ UNCHANGED <<cache, weak>>
       \/ /\ cache' = [cache EXCEPT !.classes = @ \union {Now(t).class}]
          /\ weak' = Referenced(ClassKey(Now(t).class))
          /\ mutex' = None
          /\ Advance(t)
          /\ UNCHANGED pending
    /\ UNCHANGED <<classes, file, library, LOADED>>
    /\ Quietly

\* m(), sm(): under the mutex from first to last.  The class was found before.
LookupMethod(t) ==
    /\ At(t, {"method"})
    /\ mutex = None
    /\ LET key == <<Now(t).class, Now(t).member>>
       IN \/ /\ Fail(t)
             /\ UNCHANGED <<cache, weak>>
          \/ /\ cache # None
             /\ key \in cache.methods
             /\ Advance(t)
             /\ UNCHANGED <<cache, weak, mutex, pending>>
          \/ /\ cache # None
             /\ key \notin cache.methods
             /\ cache' = [cache EXCEPT !.methods = @ \union {key}]
             /\ weak' = Referenced(key)
             /\ Advance(t)
             /\ UNCHANGED <<mutex, pending>>
    /\ UNCHANGED <<classes, file, library, LOADED>>
    /\ Quietly

\* A fault in CallJni: that the function failed goes unnoticed.
CallJniUnchecked(t) ==
    /\ At(t, {"jni"})
    /\ Advance(t)
    /\ \E fails \in BOOLEAN : pending' = [pending EXCEPT ![t] = @ \/ fails]
    /\ UNCHANGED <<classes, file, library, LOADED, cache, weak, mutex>>
    /\ Quietly

CallJni(t) ==
    /\ At(t, {"jni"})
    /\ \/ Advance(t) /\ UNCHANGED <<pending, mutex>>
       \/ Fail(t)
    /\ UNCHANGED <<classes, file, library, LOADED, cache, weak>>
    /\ Quietly

ThrowNew(t) ==
    /\ At(t, {"throw"})
    /\ Fail(t)
    /\ UNCHANGED <<classes, file, library, LOADED, cache, weak>>
    /\ Quietly

\* ArrayList(env, capacity).
ConstructList(t) ==
    /\ At(t, {"list"})
    /\ stack' = [WithSteps(t, Tail(Top(t).steps)) EXCEPT
                    ![t] = Append(@, Frame("list", ListSteps(Now(t).member)))]
    /\ UNCHANGED <<classes, file, library, LOADED, cache, weak, mutex, pending>>
    /\ Quietly

-----------------------------------------------------------------------------

Thread(t) ==
    \/ Return(t) \/ UseClass(t) \/ CheckLoaded(t) \/ FindFile(t) \/ LoadLibrary(t) \/ SetLoaded(t)
    \/ LookupClass(t) \/ StoreClass(t) \/ LookupMethod(t)
    \/ CallJni(t) \/ ThrowNew(t) \/ ConstructList(t)

Rest == (\A t \in Threads : stack[t] = << >>) /\ UNCHANGED vars

Next == (\E t \in Threads : Thread(t) \/ Start(t)) \/ Unload \/ Rest

\* The JVM runs every thread that does not wait.
Spec == Init /\ [][Next]_vars /\ \A t \in Threads : WF_vars(Thread(t))

-----------------------------------------------------------------------------
(* Properties *)

TypeOK ==
    /\ system \in Systems
    /\ classes \in [Class -> {"none", "done", "failed"} \union Threads]
    /\ file \in {NoFile} \union Found(system.platform, system.installed)
    /\ library \in {NoFile, file}
    /\ LOADED \in BOOLEAN
    /\ cache = None \/ cache \in Cached
    /\ \A key \in DOMAIN weak : weak[key] \in Nat
    /\ mutex \in {None} \union Threads
    /\ \A t \in Threads : \A d \in DOMAIN stack[t] : stack[t][d].class \in Class \union {"", "list"}
    /\ pending \in [Threads -> BOOLEAN]
    /\ unchecked \in [Threads -> BOOLEAN]
    /\ calls \in 0..MaxCalls
    /\ loads \in 1..MaxLoads

\* Native code runs only while the library is loaded and has its cache, however
\* many threads use the package first: no lookup finds that the library was not
\* loaded, no load that it was loaded before, and no static initializer that
\* LOADED is false ("Not possible!"), not even if loading failed or the package
\* was unloaded and loaded again.
NativesAfterLoad ==
    \A t \in Threads :
        /\ At(t, {"class", "store", "method", "jni", "list", "throw"}) =>
               library # NoFile /\ cache # None
        /\ At(t, {"check"}) => LOADED \/ classes["Loader"] \in {t, "failed"}
        /\ At(t, {"load"}) => library = NoFile /\ cache = None

\* What a thread must not do while an exception is pending.
CallsTheJvm(t) == At(t, {"class", "store", "method", "jni", "list", "throw"})

\* No function of the JNIEnv is called, and no lookup made, while an exception is
\* pending: every step that fails ends the native method at once, however deep in a
\* lookup or in an initializer it failed, but for the construction of a list
\* (Interface.cpp:170-171, InterfaceBrowser.cpp:90), which nobody asks for.
StopsAtException ==
    \A t \in Threads : pending[t] /\ ~unchecked[t] => ~CallsTheJvm(t)

\* What the library checks in other places, for a list, too ("IF_INVALID_STMT(
\* interfaces_list, return false)", InterfaceBrowser.cpp:280): nothing is done with what
\* could not be made, and so nothing is called while an exception is pending.
NothingCalledWhilePending == \A t \in Threads : pending[t] => ~CallsTheJvm(t)

\* One weak global reference is made for each class and method that is used, and
\* the cache knows it, whichever threads look it up at once.
OneReference ==
    cache # None =>
        /\ \A key \in DOMAIN weak : weak[key] = 1
        /\ DOMAIN weak = {ClassKey(c) : c \in cache.classes} \union cache.methods

\* Whom a thread waits for: the one that holds the mutex, which it takes in every
\* lookup and in JNI_OnLoad, itself included; or the one that initializes the
\* class it uses.
WaitsFor(t) ==
    {u \in Threads :
        \/ At(t, {"load", "class", "method"}) /\ mutex = u
        \/ At(t, {"use"}) /\ classes[Now(t).class] = u /\ u # t}

\* Threads that look up classes with the mutex held, initialize classes that need
\* the library, or load it, never wait for each other in a circle: of any threads
\* one waits for none of them.
NoCircularWait ==
    \A waiting \in (SUBSET Threads) \ {{}} :
        \E t \in waiting : WaitsFor(t) \intersect waiting = {}

\* Every call comes back to the client: whoever waits for the mutex or for a class is
\* let in at last, and every initializer and native method comes to its end.
CallsEnd == \A t \in Threads : stack[t] # << >> ~> stack[t] = << >>
=============================================================================
