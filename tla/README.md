# A TLA+ model of ifaddrs4u

ifaddrs4u lists a machine's network interfaces with their flags, MTUs, hardware
and IP addresses: a C++ library (`ifaddrs4cpp`), a Java binding over JNI
(`ifaddrs4j`) and a Python extension module (`ifaddrs4py`). The directory
`ifaddrs4pl` is empty. This directory holds TLA+ modules that model the
library's behaviour, TLC configurations that check them on small instances, and
proofs, checked by TLAPS, of what holds for every size.

## 1. Inventory

| Component | State | Operations | What is hard | What makes it correct |
|---|---|---|---|---|
| C++ `InterfaceBrowser`, POSIX (`impl/Interfaces.ipp`) | list of interfaces, two lookup maps, warnings; the process's descriptors | construction, `for_each_interface`, `get_interface`, `operator[]`, `getWarnings` | the system changes between `getifaddrs()` and the lookups by name that follow; descriptors run out | nothing on the list is lost or misplaced without a warning; what is said of a quiet system is true, and complete unless a descriptor was missing; lookups find what is listed |
| C++ `InterfaceBrowser`, Windows | the same | construction over `GetAdaptersAddresses` | the code does not compile (section 6) | the same |
| C++ values: `Interface`, `InterfaceIPAddress`, `IPv4Address`, `IPv6Address`, `MacAddress` | immutable | construction, parsing, classification, comparison, printing | boundaries: prefix lengths, address ranges, scope ids, octet counts | agreement with the ranges and formats documented in the headers |
| Java `InterfaceBrowser` with `NativeBrowser`, `BrowserCleaner` and the JNI functions | pointer to the C++ browser, cached Java list, closed flag, two monitors | six accessors, `forEachInterface` with a callback, `close`, the Cleaner | threads, callbacks that call back, partial failure, close while in use | one snapshot, one order, no use of a deleted object, no deadlock |
| JNI class and method cache (`cache.cpp`) | a singleton behind a mutex: weak references to classes and method ids | lookup, creation and destruction with the library | `FindClass()` with the mutex held runs static initializers | the cache is there whenever native code runs; one reference each; no deadlock |
| JNI conversions and wrappers | none | copy one value to Java | an exception may be pending at every step | nothing is called once an exception is pending, which the code breaks for lists (finding 6) |
| Java `Interface` and its iterators, `InetAddressHelper`, `MacAddress`, enums | immutable | chained iteration over address lists, the text of an address, flag tests | empty lists in the chain, runs of zeros | every address once and in order; the text denotes the address, in the form of RFC 5952 (but see section 4) |
| Java `Loader` | `LOADED`, class initialization | find, copy and load the native library | order of alternatives; threads that use the package first; failure | the best fitting library; native methods run only after it is loaded |
| Python `InterfaceBrowser` (`browser.py`, `extern.cpp`) | the wrapper's extension object; pointer to the C++ browser, cached tuple | `__init__`, `__new__`, `for_each_interface`, `get_interfaces`, `get_interface`, item access, iteration, length, deallocation | callbacks that re-enter, other threads whenever Python code runs, reference counts | nothing is read that is gone; the tuple is complete; truthful answers |
| Python conversions and value classes | immutable | conversion to Python objects, MAC and scope parsing | reference counts, integers of any size | values survive; balanced reference counts |
| Version, samples, build and release scripts | none | - | - | not part of the running program |

How they interact: a Java or Python browser owns one C++ browser, which takes
its snapshot in its constructor and never changes. The binding converts that
snapshot on first use, once, into a list that it caches, or converts it one by
one while it calls a function of the client's, filling the list as it goes. A
client's callback runs on the caller's thread, inside the native iteration and
inside the monitor of the Java `NativeBrowser`.

`PROJECT.json` lists the hazards found on the way, each at its line.

## 2. Modules

| Module | Models | Kind |
|---|---|---|
| `JavaBrowser` | `InterfaceBrowser.java` and `InterfaceBrowser.cpp` of the Java binding | detailed specification |
| `BrowserSnapshot` | what that class's documentation promises | abstract specification |
| `MCJavaBrowser` | instance for TLC | |
| `JavaBrowserProofs` | theorems about `JavaBrowser` | proofs |
| `JavaSnapshotProofs` | that `JavaBrowser` implements `BrowserSnapshot` | proofs, extends `JavaBrowserProofs` |
| `StackLemmas` | what pushing, replacing and popping do to a sequence, prefixes, the least number, and the states of a loop over positions; used by all proofs about stacks, lists and texts | lemmas |
| `Populate` | construction of the C++ browser on POSIX systems, and its lookups | detailed specification |
| `MCPopulate` | instance for TLC | |
| `PopulateProofs` | theorems about `Populate` | proofs |
| `PyBrowser` | the Python `InterfaceBrowser`: `browser.py` and `extern.cpp` | detailed specification |
| `MCPyBrowser` | instance for TLC | |
| `PyBrowserProofs` | theorems about `PyBrowser` | proofs |
| `IpAddress` | the C++ IP addresses: kinds, multicast scopes and flags, IPv6 scopes | operators |
| `InetAddress` | IPv6 addresses in Java and Python | operators, extends `IpAddress` |
| `MacAddress` | MAC addresses in C++, Java and Python | operators |
| `Interface` | prefix lengths, flags, the Java iterator | operators |
| `Loader` | which library `Loader.java` loads | operators |
| `Values` | takes one value after the other, and states what the operators promise, with reference definitions taken from the documentation | specification over the five modules above |
| `MCValues` | the inputs for TLC | |
| `ValuesProofs` | theorems about `Values`: scopes, the iterator, the library, MAC addresses | proofs |
| `AddressProofs` | theorems about `Values`: the kinds of addresses, their texts in Java, netmasks | proofs |
| `JniLibrary` | class initialization, `Loader`, the class cache and the native methods together | detailed specification, extends `Loader` |
| `MCJniLibrary` | instance for TLC | |
| `JniLibraryProofs` | theorems about `JniLibrary` | proofs |

Definitions named "A fault in X" are variants of X with a plausible bug. No
specification uses them; each shows, put in X's place, that a property notices.

### JavaBrowser

State. `native` is the object behind `pBrowser`; `closed` and `interfaces` are
the fields of `NativeBrowser` (a list is told apart by the call that built it,
so that replacing it by an equal one is visible); `registered` is the state of
the `Cleanable`; `reachable` says whether the client still holds the browser.
`stack` has, for each thread, the calls it is in: a callback may call the
browser again. A frame holds a program point and the locals of
`forEachInterfaceAndPopulate`'s lambda. `answer` is what a thread's last call
returned or threw.

Monitors. `ready()` is synchronized on the `InterfaceBrowser`; `isClosed()`,
`close()` and all native methods on the `NativeBrowser`. Which thread owns a
monitor follows from the program points: a thread at `isClosed` owns the
former (it is inside `ready()`), a thread with a frame at `visit` or `callback`
the latter. The other synchronized methods call nothing back, so that each is
one step that needs the monitor to be enterable. Both are reentrant.

Actions. `StartCall` is a client or a callback calling an accessor or `close()`.
`EnterReady` and `CheckClosed` are the two halves of `ready()`; after them the
thread owns nothing, which is where the interesting interleavings are.
`GetInterface` and `GetInterfaces` are the native methods with
`ENSURE_POPULATED`. `BeginForEach` chooses between the Java loop (`VisitList`,
`FinishList`) and the JNI loop (`VisitNative`, `FailVisit`, `FinishNative`), and
`CallbackReturn` is the client's function returning true or false, or failing.
`Clean`, `CleanerRuns` and `Shut` are `close()` by a client and by the Cleaner.
`UseDeleted` is undefined behaviour: a native method that starts with the
deleted object; nothing is known of the program afterwards.

Abstracted: an interface is a model value, and converting it succeeds or fails
with an exception. `toString()` only reads. A constructor that throws leaves no
object. `iterator()` and `interfaces()` do what `getInterfaces()` does.

Two constants say how the browser is used. With `CloseOverlaps = FALSE` it is
closed when nobody is inside it, as the class comment's try-with-resources
does; with `NestOverlaps = FALSE` a callback calls the browser only while its
thread is the only user. `java_close_race` and `java_nest_deadlock` show why each is
needed.

`BrowserSnapshot` is the documented promise with one step per call: a snapshot
that answers every accessor, in one order, until it is closed and refuses.
`JavaBrowser` implements it under both disciplines, with `status` mapped to
`native` and `published` to "the list is cached".

### Populate

State. `kernel` gives each interface index its name; `descriptors` counts the
sockets of `getMtu()`, which nobody closes. `getifaddrs()`, `if_nametoindex()` and
`if_indextoname()` need a socket only while they run: `Scarce` says when a builder's
call may find none left, because the other builders are about to make such a call
(`Borrows`) or the rest of the program has taken up to `Elsewhere` for a moment. `browser[b]` holds the locals of
`populateInterfaces` (the list from `getifaddrs()`, the position on it, the
looked-up index, `indexToName`) and the browser's members. The list is not
copied: `dump` remembers who had which name when it was made, and `pos` walks
the items of `Slots` whose interface existed then. `witnessed`, `quiet` and
the field `starved` are history: which index-name pairs the kernel has had since,
whether it has changed at all, and whether a call of this builder found no descriptor.

Actions. `GetIfAddrs` succeeds or throws. Each item is first matched by name
(`KnownInterface` compares flags, `NewInterface` asks `if_nametoindex()`,
`GetMtu` opens the socket and creates the `Interface`) and then dealt with by its
address's family (`SetMacAddress`, `AddIPv4Address`, `AddIPv6Address`,
`Unrecognized`, `NoAddress`). `Index` fills the two maps. `ChangeKernel` may come
between any two of these steps.

A momentary shortage is the case that the code does not tell of: `if_nametoindex()`
fails, the index is 0, and `getMtu()` may succeed right after it, so that there is
no warning. `QuietSnapshot` therefore says two things of a browser that was built
while the kernel was quiet: what it says is true whatever was short (an index that is
not 0 is the interface's own and finds it, and so on for MTUs and scopes), and nothing
is missing from it if no call was short of a descriptor.

Abstracted: an address is the item it came from, a hardware address one of the
kinds that `_setMacAddress` distinguishes. Prefix lengths are in `Interface`, the
eight-octet limit at which `MacAddress` throws in `MacAddress`; `_setMacAddress` takes
Ethernet addresses only, which Linux always gives six octets.
`assert` does nothing, as with `NDEBUG`. The variants for AF_LINK and for
per-address flags on the BSDs are left out.

A fact about the lists that Linux makes is a definition of its own, because
a theorem depends on it: `OneLinkItemEach` (one item with the MTU and the hardware
address for each interface). The instances for TLC satisfy it.

### PyBrowser

State. The wrapper has one extension object, `extern`, and its `__init__` makes a
new one each time. An object in `objects` has a C++ browser (numbered by its
construction, because the system may have changed in between) and a cached tuple.
`tuples` counts for each tuple the references there are and how many of them the
client owns, so that one too few or too many shows. `destroyed` has the C++
browsers that are gone. `stack` has, for each thread, the calls it is in.

The interpreter's lock is given up only where Python code runs: in the client's
function (`inside`) and in the constructors of the objects that an interface is
converted to. A step goes from one such place to the next. `EachConvert`,
`EachAnswer` and `EachFinish` are `forEachInterfaceAndPopulate`, which reads the
C++ list where it is; `GetConvert` and `GetFinish` are `_get_interfaces`, which
copies it; `WalkCall` and `WalkAnswer` are `forEachPopulatedInterface`, which
reads the size once and the tuple anew each time. `ItemConvert` is
`__getitem__`, and `get_interface` once it has a tuple. Objects die in `Settle`,
when the wrapper has gone on to another, or was forgotten, and the last call in
them has returned.

A conversion that fails returns `NULL`, and `ENSURE_POPULATED` stores that in the object
whatever is there by then (`Overwritten`); the tuple that was there keeps the object's
reference for ever. `lost` remembers this. A walk of that tuple on another thread then
crashes at its next item. `BeginWalk` goes as far as the client's function in one step,
since no Python code runs before. `__iter__` is `get_interfaces()` whose result is
iterated even if it is `NULL`: `Refuse` and `GetConvert` may end in a crash for it.

`Disciplined = TRUE` says that the client does not call `__init__` of the
*extension* object again while a method of it runs: the class is not public, and
the wrapper never does it. `Crash` is a segmentation fault, and `crashed` says of what: a
function that raised, a walk without a tuple, an iteration over `NULL`, or a C++ browser
that is gone.

### Values and the modules it looks at

`IpAddress` represents an address by its octets or words, and classifies with the
code's chain of tests in the code's order, byte order included. The text after
`%` is either digits, with a value, or a name; `IdModulus` and `LongModulus` are
where `uint32_t` and `unsigned long` end. `MacAddress` reads the characters of a text in
the order of the C++ loop, one state for each position (`Scanned`), and counts in
advance what it will read, in eight bits. `InetAddress` does the same for the words of
an address, first for the longest run of zeros, then for what is appended (`Part`).
`Interface` computes a prefix length from the bits of a netmask;
a flag is the set of its bits. `GenericAddressIterator` is a list, a place and a
number of lists begun. `Loader` describes a system by the texts its name
contains and a file by what it is made for. `LoaderAssumption` says how these go with
what the system really is (`ShowsWhatItIs`: a text that says "darwin" contains "win",
one of another system's never says "mac"), and that a file which names a processor
names its system, too. How a processor or a variant of Unix names itself is taken
from the code.

`Values` takes a value, looks at it and puts it back; only an iterator has steps
of its own. Its properties compare two things that were written independently:
the code's tests and the documented prefixes, a text and what it denotes, one
binding and another.

### JniLibrary

A native method is the sequence of its steps into the JVM, made from the code by
the operators `Convert...`; `Fail` is a step that fails with an exception pending
and makes the method return. `classes` says of each class whether it is
initialized, by whom it is being initialized, or that this failed; `UseClass`
is the JVM's rule that other threads wait for the one that initializes a class.
`LookupClass`, `StoreClass` and `LookupMethod` are `cache.cpp` under
`_singleton_mutex`; `FindClass()` is called in between and may begin another
initialization with the mutex held. `FindFile`, `LoadLibrary` and `SetLoaded` are
`Loader.java`'s static initializer and `JNI_OnLoad`. `Unload` is the end of the
class loader, with which classes, library and cache go; a class whose weak
reference is dead (`cache.cpp:214`) cannot be met by native code, because its
class goes with the library only.

Any lookup, any call and the making of any reference may fail. The constructor of an
`ArrayList` (`ConstructList`) is a frame of its own, which returns in any case: its
caller goes on, as `Interface.cpp:170-171` and `InterfaceBrowser.cpp:90` do, with the
exception pending, and the history variable `unchecked` remembers that. What the JVM
does with calls made then is not specified; the model lets each of them succeed or fail,
and begins no class initialization.

`Cachable` and `Member` are the keys of the tables in `cache.cpp` that native
methods use. `JniAssumption` says that threads, `None` and the words for the end
of an initialization are different things, and what a shape is.

## 3. Runs

| Run | Bounds | Shows |
|---|---|---|
| `java_disciplined` | 2 threads and the Cleaner, 2 calls each, nested 2 deep, 2 interfaces and one unknown | no use of the deleted object, no circle of monitors, every call returns, the snapshot is implemented |
| `java_free` | the same with 3 calls each, no discipline | cache complete, never replaced, one order, delete excludes other threads' iterations |
| `java_close_race` | 2 calls each | violation of `NoUseAfterDelete` |
| `java_nest_deadlock` | 2 calls each | violation of `NoDeadlyEmbrace` |
| `populate` | 3 indexes and names, 10 items, 3 changes, 2 constructions, 4 descriptors of which 1 may be in use elsewhere | everything accounted for, honest scopes, true when quiet and complete unless starved, lookups find, construction ends |
| `populate_assert` | 1 change | violation of the assertion in the code |
| `populate_mtu` | 3 constructions, no change | violation of `Interface.getMtu()`'s documentation |
| `python` | 2 threads, 5 calls, nested 2 deep, 2 extension objects, C++ browsers of 2 and 1 interfaces | no C++ browser read that is gone, and no tuple that was not overwritten, complete tuples, enough references, calls in order, true answers |
| `python_walk` | 2 threads, 4 calls | violation of `TupleOutlastsWalk` |
| `values` | 10 800 IPv4 and 14 976 IPv6 addresses at the boundaries of all ranges, the 256 patterns of zero words, 45 scope texts with 5 kernels, MAC texts of 5 to 9 octets with one odd, all 129 netmasks, 10 systems, lists of 0 to 3 addresses | values are classified as documented, and survive text, Java and Python |
| `jni_library` | 2 threads, 2 calls, 2 class loaders, a library inside a JAR or none, one interface with every part | library and cache precede native code, one exception ends a method unless it is a list's, one reference each, no circle of waits, every call ends |
| `jni_list` | 1 call, 1 class loader | violation of `NothingCalledWhilePending` |

Why the bounds are enough. Two threads suffice for each race on one object: a
property relates at most two threads. Two calls let a thread close after or
during a use; three let it nest, fail and try again. With two interfaces an
iteration has a first, a last and an in-between. In `populate`, three changes can
swap two names through a third, and descriptors suffice for one browser and run out in
the second, in the middle of its construction, or earlier while one is in use
elsewhere; `populate_mtu` shows three browsers in a row. To a builder another one is no more than a
program that keeps some descriptors and borrows others: the run has one builder and
`Elsewhere`, the theorems any number of builders. In `python`, five calls let one
thread iterate, nest a call or a new construction in its callback, and do the
same on the other thread meanwhile; the second C++ browser is shorter than the
first, so that mixing them up shows. In `values`, `IdModulus = 8` and
`LongModulus = 32` make every overflow happen with small numbers, and the
addresses are all that lie next to a boundary in the first octets or words. In
`jni_library` one call initializes every class it needs, so that two cover a
race for each class, and a second class loader covers a reload. MaxObjects,
MaxLoads, MaxCalls, MaxDepth, MaxChanges,
MaxBuilds and MaxDescriptors are bounds of the model (the last is also a real
limit, though a larger one).

`java_free` uses symmetry between the two threads, which no property tells
apart; it checks no liveness. Deadlock is checked in every passing run but
`java_free`, where the real deadlock of finding 2, and a program that used a
deleted object, stop. A step `Rest` lets the system idle when no call is in
progress, so that deadlock means threads stuck inside calls.

Fairness. `JavaBrowser` asks weak fairness of each thread's steps inside a call:
threads are scheduled and callbacks return. Java monitors are not fair, and
none is assumed to be: since each thread makes finitely many calls, whoever
waits is continuously enabled in the end. Clients need not call, close or
forget anything. `Populate` asks weak fairness of each running constructor,
which waits for nobody; the kernel and the clients are free. `Values` asks it of
`CallNext`, a client that iterates to the end. `JniLibrary` asks it of each
thread's steps inside a call: the JVM runs threads that do not wait, and whoever
waits for a mutex or a class is continuously enabled once calls run out.
`PyBrowser` states no liveness: a client's function may never return.

## 4. Findings

1. `java_close_race`: `ready()` checks, lets go, and the native method runs
   later. A `close()` in between deletes the C++ browser; `pBrowser` is not
   reset, so that neither of the two checks meant to throw
   `IllegalStateException` does.
2. `java_nest_deadlock`: a callback that calls any accessor, while another
   thread enters an accessor, deadlocks, against the class's promise of use "in
   any combination, and by multiple threads".
3. `populate_assert`: the index is looked up by name after the list was made,
   and may be 0; the assertion aborts a debug build.
4. `populate_mtu`: one descriptor per interface and browser is never closed, and
   interfaces lose their MTU in the end.
5. `python_walk`: two threads fill the tuple at once, one succeeds and walks it, the
   other's conversion fails: `ENSURE_POPULATED` (`extern.cpp:311`) stores `NULL` over
   the tuple, and the walk's next `PyTuple_GetItem` (line 163) reads it. The tuple is
   never released.
6. `jni_list`: an `ArrayList` is used without asking whether it could be constructed
   (`Interface.cpp:170`, `InterfaceBrowser.cpp:90`): the conversion goes on and calls
   the JVM with an exception pending, which `StopsAtException` shows to be the only way
   to do so.

Differences met while modelling that have no run of their own:

- An IPv4 prefix length is the position of the netmask's highest bit as the machine
  reads it, not the netmask's ("the prefix length", `InterfaceIPAddress.java:89`). On a
  little-endian machine that rounds up to whole octets (`Interfaces.ipp:861-871`):
  255.255.240.0 gives 24. `PrefixLengthsKept` states what is right nevertheless, IPv6
  always and IPv4 for no bits, all bits and whole octets; the theorem
  `IPv4PrefixLengthExactly` says that every other IPv4 length is wrong.
- A zero word that stands alone is shortened in Java, which RFC 5952, named as the rule
  at `InetAddressHelper.java:101`, forbids. The text still denotes the address
  (`TextDenotesAddress`); the theorem `TextCanonicalExactly` says that it is the
  canonical one if two zero words are neighbours or there is none, and only then.
- A Python function that raises in the first `for_each_interface` of a browser crashes
  the interpreter, because its `NULL` result is released (`extern.cpp:240`); and
  `__iter__` (line 336) iterates the `NULL` that stands for an exception, of an object
  that was never initialized or of a conversion that failed. Both are steps of
  `PyBrowser`; no schedule is needed for either.
- An index of 0, or a scope without a name, for want of a descriptor is told by no
  warning (`Interfaces.ipp:1042`, `IpAddress.ipp:219-251`): `QuietSnapshot` leaves it
  open for browsers that were `starved`.
- `64:ff9b:1::/48` is compared with the wrong word (`IpAddress.ipp:890`), and
  link-local addresses are looked for in `fe80::/10` with three words of zeros,
  not in `fe80::/64` (`IpAddress.hpp:211`). `AddressesAsDocumented` leaves these
  two ranges out (`Disputed`).
- The chained iterator's `hasNext()` is true while only an empty list remains,
  and `next()` then throws (`Interface.java:324-351`), for every interface
  without IPv6 addresses. No address is lost: a client that goes on gets them
  all.
- A scope of digits is always read as an id (`extractScope`, `IpAddress.ipp:276-300`),
  but printed as a name if there is one: the scope of an interface whose name is a
  number is read as another interface. The properties about scopes presuppose
  that no name is (`NamesAreNames`).
- Ids of Java scopes from 2^31 on are negative and not printed
  (`InetAddressHelper.java:178`).
- The octets of a MAC address are counted in eight bits: in a text in advance
  (`MacAddress.ipp:48-61`), from the separators, so that the array it is read into is too
  small for a text of 256 of them or more; in bytes where Java and Python hand them
  on (`JavaOfData`, `PythonOfData`), so that 262 octets are printed as 6.
  `MacTextsAgree` presupposes fewer.
- `__iter__` leaks a reference (`extern.cpp:336`), and tuples made by two threads
  at once leak all but the last; a conversion that fails leaks the one it overwrites.
- Debian and Fedora have no `ID_LIKE` in `/etc/os-release`, so that only
  derivatives are recognized (`Loader.java:184-191`); the loader then falls back
  on a library without a platform in its name.

## 5. Proofs

`JavaBrowserProofs` proves, from `ConstantsAssumption`, for any set of threads and interfaces, any
depth of nesting and any number of calls:

| Theorem | States |
|---|---|
| `TypeCorrect` | `Spec => []TypeOK` |
| `CacheAlwaysComplete` | the cached list is the whole list, in order |
| `AlwaysSameOrder` | every accessor and callback sees prefixes of one order |
| `CacheNeverReplaced` | the cached object stays |
| `NoDeleteUnderIteration` | no delete while another thread iterates |
| `NoUseWhenClosedLast` | given `~CloseOverlaps`, the deleted object is never used |

The hypothesis is exactly what the run `java_close_race` drops.

*The core invariant* `CoreInv` is `TypeOK`, `FramesOK`, `CacheComplete` and
`AnswersOK`. `CacheComplete` alone is not inductive: `FinishNative` caches what
the JNI lambda has put together, so the proof has to know what that is at every
earlier moment. `FramesOK` says it of every frame of every stack, suspended ones
included: `built` is the prefix of the native list up to the cursor, and so is
`applied` unless the function said stop; a frame that walks the Java list exists
only once that list does (it is never dropped again). At the end of the list the
prefix is the list. `AnswersOK` carries the same over to what callers were
given. The lemmas `PushKeepsCore`, `ReplaceKeepsCore` and `ReturnKeepsCore` deal
once with the three things a step does to a stack; each action then only has to
show that its new frame, or its answer, is right.

*The closing invariant* `CloseInv` is needed for `NoUseWhenClosedLast`: that
`closed` and the deletion go together, that calls are past `ready()` only in a
live browser, and that a close is alone on all the stacks. The last is what makes
it inductive. A close looks for others only when it starts, and `registered`,
`reachable` and the empty stacks tell that the Cleaner's thread has one to
itself as well.

`ValuesProofs` proves, from `IpAddressAssumption` (a 32-bit id is no wider than
`unsigned long`) and `ValuesAssumption` (the kernel knows each interface by an index
that fits and a name of its own; an interface has two lists of addresses; octets have
8 bits and words 16; a text of a MAC address is any sequence of characters, its bytes
any sequence of octets):

| Theorem | States |
|---|---|
| `TextAlwaysSurvives` | an IPv6 address, its scope included, survives being printed, normalized and read again |
| `ScopeAlwaysTravels` | a scope that fits is accepted by Python and Java and leads back to the same interface |
| `AlwaysInOrder` | the Java iterator yields all addresses once and in order |
| `AlwaysBestLibrary` | the library that is loaded is the best one that fits; from `LoaderAssumption` |
| `MacTextsAlwaysAgree` | a MAC address is accepted exactly if it is well formed, everywhere alike, and its text and its bytes say the same |

*Scopes.* The lemma `ScopeForms` says that reading a text yields one of three
things: no scope, an id with the kernel's name for it if there is one, or a text
that is no name of the kernel's and no id. `ScopeRoundTrip` shows for each that
what is printed is read as the same again. That needs the kernel's names to be
distinct and not to be numbers, which both properties presuppose: for an
interface whose name is a number the code fails (section 4). The third form
contains the texts of digits that are 0 once they are cut off to 32 bits: these
are kept as names.

*The iterator.* `IteratesInOrder` alone is not inductive: it does not say how far
the iterator is. `IteratorInv` does: it stands at some place of one of the lists,
or before them, and what was yielded is all that lies before that place
(`Before`). `NextKeeps` shows that `next()` keeps this, inside a list
(`NextInside`) and at the end of one (`NextOver`), where it may throw.

*The library.* `OptionsLemma` says which names are looked for on a system that shows
what it is; `BestName` that the first of them among some names fits, that no other
that fits says more, and that there is none only if none fits. `BestOnPath` carries
this to the first directory that has one, by the least-number principle
(`LeastElement`), and `BestFile` to all that `Found` allows.

*MAC addresses.* The loop that reads a text has a state after each position, and
`ReadSoFar` says what it is: as long as every character is the one a well-formed text
has there (`Pairs`), the octets read are those of the pairs passed, and what is left
over is the digits of the next one; after the first that is not, nothing makes up for
it. That the loop has such states at all is `StepByStep`, of `StackLemmas`: a function
exists that is defined at each position in terms of its value at the one before. The
property presupposes fewer than 256 octets, in a text as in bytes, because more are
counted wrongly: their number is kept in eight bits (section 4).

`AddressProofs` proves, from the same assumptions:

| Theorem | States |
|---|---|
| `AlwaysAsDocumented` | every IPv4 address, and every IPv6 address outside the two disputed ranges, is classified as documented |
| `TextAlwaysDenotesAddress` | the text that Java makes of an IPv6 address denotes it, and is that of RFC 5952 unless its zero words all stand alone |
| `PrefixLengthsAlwaysKept` | an IPv6 prefix length is that of the netmask; an IPv4 one is, for no bits, all bits, and whole octets in a little-endian machine |
| `IPv4PrefixLengthExactly` | an IPv4 prefix length is right in these cases and in no other |
| `TextCanonicalExactly` | the text is that of RFC 5952 if two zero words are neighbours or none is there, and only then |

The first and those about prefix lengths hold in either byte order; the run tries one.

*Kinds.* `AddressesAsDocumented` compares the constructors' tests
with the documentation's prefixes, so the first lemmas translate a prefix into
conditions on octets or words: `WholeItems` where it ends between two of them,
`PartOfFirst` and `PartOfSecond` where it ends inside one. `FirstDecides` and
`NoneDecides` say which of a chain of `else if`s decides. With them, `IPv4KindLemma`
and `IPv6KindLemma` turn each chain into conditions on octets and words. That the
chain for IPv6 names *the* kind needs more: `IPv6Kinds` shows that no two tests hold
of one address, so that their order decides nothing. Multicast scopes and flags are
digits in the second octet: `Nibbles` finds them there, whatever the group is. TLC
tries the boundaries of the ranges; the theorem says that there are no other places
where code and documentation part.

*Texts.* The search for zeros and the appending of words are two loops, with an
invariant each. `Searched` says of the first that `best` is the first of the longest
runs that ended so far (`BestUpTo`), and `run` the zeros the last words make; that no
run reaches across a word that is not zero (`BeforeOrInside`) lets `Keep` compare runs
when they end only. `Built` says of the second what stands in the text before, inside
and after the run. TLC tries the 256 patterns of zeros with one other word; the
theorem says that the words make no difference.

*Netmasks.* `BitOfMask` finds the bits of an octet of a netmask, from which `OnesOfMask`
counts them and `LengthOfIPv4` takes the highest. The lemmas about the two loops follow
the code: the bits counted after some octets are the netmask's first bits
(`FirstBitsMore`); and the highest bit is in the last octet that is not zero where the
least significant octet comes first, in the first otherwise.

`JavaSnapshotProofs` proves `BrowserIsSnapshot`, the refinement: with
`~CloseOverlaps`, `Spec => ImplementsSnapshot`. Every step of the browser is one step
of `BrowserSnapshot`, or none. Its invariant `SnapshotInv` adds two facts to
`CoreInv` and `CloseInv`. Until the C++ browser is deleted, whoever ended the
registration is still about to delete it (`Shutting`): a `close()` that finds nothing
left to do comes after the end of the abstract browser, too. And a function that
runs, or that has said stop, was applied to something (`AppliedOK`): what `true` and
`false` mean to the snapshot depends on it. The hypothesis is the one of
`NoUseWhenClosedLast`: a native method that starts on the deleted object implements
nothing.

`PyBrowserProofs` proves, for any threads, depth of nesting, calls and objects:

| Theorem | States |
|---|---|
| `TypeCorrect` | `Spec => []TypeOK` |
| `NoTupleFreedEarly` | references to a tuple are never fewer than its holders |
| `CacheAlwaysComplete` | given `Disciplined`, a cached tuple is the whole list of its C++ browser |
| `AlwaysReadsWhatIsThere` | given `Disciplined`, no frame reads a C++ browser that is gone, nor a tuple unless a failed conversion has overwritten it |
| `AlwaysCalledInOrder` | given `Disciplined`, a function is called in order and without a gap |
| `AlwaysAnswersTruly` | given `Disciplined`, `True` and `False` mean what they say |

There are two invariants. `CoreInv` needs no discipline: it counts the references
that frames, objects and the client hold. `BoundInv` says that a frame's browser is
its object's browser, alive until the frame has returned, so that the cursor and the
size read earlier still fit; an `__init__` of the extension object in the middle of
its own iteration replaces the browser under the frame, which is what `Disciplined`
excludes. `CachedIsComplete` alone is not inductive for the reason given for the
Java browser: `EachFinish` caches a list that grew over many steps, while other
frames of the same object grew theirs.

`PopulateProofs` proves, from `PopulateAssumption` (the system's bounds, and that it
has no two interfaces of one name to begin with), for any items, kernels, numbers of
builders, changes and descriptors:

| Theorem | States |
|---|---|
| `TypeCorrect` | `Spec => []TypeOK` |
| `AlwaysAccounted` | given `OneLinkItemEach`, each item is kept where it belongs, or warned of |
| `AlwaysHonestScopes` | the name of a scope was true at some time during the construction |
| `LookupsAlwaysFind` | the two maps lead to what is listed |
| `AlwaysQuietSnapshot` | what is said of a quiet system is true, an MTU is not missing without a warning, and nothing is missing if no call lacked its descriptor |

The invariant says at each position what the browser has taken from the items
before it: for each name one interface, made from the first item of that name, with
the addresses of the later ones in their order. That some item is the first of
its name is the least-number principle (`LeastElement`), the one place where
a proof goes over the list as a whole. `HonestScopes` alone is not
inductive: a scope's name may come from `indexToName`, which was filled many steps
before, so that what was `witnessed` has to be known of that map and of the index
just looked up as well. For `QuietSnapshot` it has to be known that *all* of
`witnessed` is the kernel as it is, and of a browser that is not `starved` that each
lookup found what there was to find. Nothing is assumed of who else uses descriptors.

`OneLinkItemEach` is needed: of two link items of one interface the code keeps the
second hardware address in place of the first, and warns of nothing.

`JniLibraryProofs` proves, from `JniAssumption`, for any threads, systems, shapes,
calls and class loaders:

| Theorem | States |
|---|---|
| `TypeCorrect` | `Spec => []TypeOK` |
| `NativesAlwaysAfterLoad` | native code runs with the library and its cache only |
| `AlwaysOneReference` | one weak reference for each thing in the cache |
| `AlwaysStopsAtException` | no call with an exception pending, unless it is that of a list |
| `NeverACircularWait` | of any threads, one waits for none of the others |

`NativesAfterLoad` alone is as far from inductive as can be: that native code has its
library depends on which initializers ended, how, and on whose behalf. `CoreInv`
says it of every frame. `FrameShape` lists what may be left of each kind of method:
of a native method any steps (`Body`, which includes a class being looked up,
`Finding`, or to be stored, `Storing`), of `Loader`'s initializer one of four
remainders, of a class that asks for it one of three. `FrameState` says what holds
there: the class is this thread's, a native method that has begun has `LOADED`, a
class is looked up with the mutex held and is not in the cache, the loader has found,
loaded, or neither. `Above` links a frame to the one below, which uses its class; a
class has one frame, and the one lookup one. With these, a thread that uses a class
that it is itself initializing can only be `Loader`'s (`NotUnderWay`). `LoadOK` says
what an ended initialization leaves behind and `CacheOK` is `OneReference` with the
types. `Stable` and `Respects` collect what a frame needs of its own thread's steps
and of the others'; each action then shows the state of the one frame it changes.

`PendingInv` says that a thread with an exception pending that is not a list's only
unwinds: each frame ends, and the one below is found using a class that has just failed,
and so ends, too. It needs that no class of the
JVM is being initialized by such a thread (`Raised`), nor has failed: a lookup would
otherwise come back to a method that goes on. An exception that the constructor of a
list has left pending is exempt, and `unchecked` says from when to when that is.

*Circular waits.* `NoCircularWait` is the safety part of `CallsEnd`. `HolderInv` adds to
`CoreInv` that whoever holds the mutex is looking up a class, in some frame. Then who
waits for whom goes one way only: who initializes `Loader` waits for nobody
(`LoaderWaits`); who initializes a class that checks `LOADED` waits for `Loader` at most
(`GuardedWaits`), and one of a class of the JVM for nobody (`PlainWaits`); who holds the
mutex waits for one of these (`HolderWaits`); and who initializes an enumeration, which
asks native code for its constants, for the holder or one of these (`EnumWaits`). That
the holder never waits for an enumeration is what matters: no class that native code
looks up is one whose initializer calls native code. `HolderInv` also says that lists
are constructed by native methods only, which never hold the mutex meanwhile, so that
an exception there does not leave it locked.

Only checked by TLC: liveness (`CallsReturn` of `JavaBrowser`, and
`ConstructionEnds`, `IterationEnds`, `CallsEnd`), which is out of the prover's reach;
`NoDeadlyEmbrace` under `~NestOverlaps`, which excludes the very case in which the
code deadlocks; and `FlagsReported` of `Values`, which comes down to what would have to be assumed of
the flags: that no interface has all of those that stand for an unsupported one.

## 6. Not modelled

- The Windows half of `Interfaces.ipp` (lines 265-705): it does not compile
  (line 367 lacks a semicolon, 391 uses a string as a condition, 494 has an
  unbalanced parenthesis, 653 an undeclared variable).
- Printing, comparing and moving of the immutable values, apart from what section
  2 names; `toString()` only reads.
- The references to the parts of a converted interface in
  `ifaddrs4py/source/cpp/interface.cpp`, which releases `None` without having
  taken it; the class `ModuleState` of `helpers.cpp`, which nothing uses.
- The BSDs' AF_LINK and per-address flags.
- Constants, generated headers, build, packaging and release scripts.

## 7. Plan

References in the Python conversions, as sequences of steps like those of
`JniLibrary`.
