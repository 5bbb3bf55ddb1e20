----------------------------- MODULE JavaBrowser -----------------------------
(***************************************************************************)
(* The Java binding's interface browser: InterfaceBrowser.java, its nested *)
(* NativeBrowser and BrowserCleaner, and the JNI functions behind them in  *)
(* ifaddrs4j/source/production/cpp/InterfaceBrowser.cpp.                   *)
(*                                                                         *)
(* One browser is shared by several threads.  A thread runs a stack of     *)
(* calls, because the function given to forEachInterface may call the      *)
(* browser again while it is being applied.  Two monitors are involved:    *)
(* ready() is synchronized on the InterfaceBrowser, everything else on the *)
(* NativeBrowser, and both are reentrant.  A monitor is not a variable:    *)
(* which thread owns it follows from the program points of its calls.      *)
(*                                                                         *)
(* Not modelled: toString() (reads only), conversion of one interface to   *)
(* its Java object (it succeeds or fails), a constructor that fails (no    *)
(* object comes into being, so it leaves everything as it was).            *)
(***************************************************************************)
EXTENDS Naturals, Sequences

CONSTANTS
    Threads,        \* the client's threads
    CleanerThread,  \* the thread of InterfaceBrowser.cleaner
    Interfaces,     \* every interface a client may ask for
    Native,         \* the interfaces the C++ browser found, in its order
    NoList,         \* Java null in the field NativeBrowser.interfaces
    MaxDepth,       \* bound: calls nested in callbacks, the outermost included
    MaxCalls,       \* bound: calls one thread starts
    CloseOverlaps,  \* may the browser be closed while other calls are in progress?
    NestOverlaps    \* may a callback call the browser while other threads use it?

AllThreads == Threads \union {CleanerThread}

Ops     == {"getInterface", "getInterfaces", "forEachInterface", "close"}
Points  == {"ready", "isClosed", "enter", "visit", "callback", "clean", "shut"}
Sources == {"none", "list", "native"}
Kinds   == {"none", "refused", "failed", "found", "absent", "list",
            "completed", "stopped", "closed"}

\* The converted list, told apart by the call that built it: object identity.
InterfaceList == [by : AllThreads \X Nat, items : Seq(Interfaces)]

\* One call in progress: forEachInterface's cursor, the list its JNI lambda
\* fills, what its function was applied to, and keep_calling_callable.
Frame == [op : Ops, at : Points, src : Sources, pos : Nat,
          built : Seq(Interfaces), applied : Seq(Interfaces), going : BOOLEAN]

\* What a thread's latest finished call gave its caller.
Answer == [op : Ops, kind : Kinds, seen : Seq(Interfaces)]

ASSUME ConstantsAssumption ==
    /\ CleanerThread \notin Threads
    /\ Native \in Seq(Interfaces)
    /\ NoList \notin InterfaceList
    /\ MaxDepth \in Nat \ {0}
    /\ MaxCalls \in Nat
    /\ CloseOverlaps \in BOOLEAN
    /\ NestOverlaps \in BOOLEAN

VARIABLES
    native,      \* the C++ object pBrowser points to: none, live or deleted
    closed,      \* NativeBrowser.closed
    interfaces,  \* NativeBrowser.interfaces
    registered,  \* the Cleanable has not been cleaned yet
    reachable,   \* the client still holds the InterfaceBrowser
    stack,       \* each thread's calls in progress, the innermost last
    calls,       \* how many calls each thread has started
    answer,      \* each thread's latest answer
    undefined    \* the program has used a deleted C++ object

vars == <<native, closed, interfaces, registered, reachable, stack, calls,
          answer, undefined>>

TypeOK ==
    /\ native \in {"none", "live", "deleted"}
    /\ closed \in BOOLEAN
    /\ interfaces \in InterfaceList \union {NoList}
    /\ registered \in BOOLEAN
    /\ reachable \in BOOLEAN
    /\ stack \in [AllThreads -> Seq(Frame)]
    /\ calls \in [AllThreads -> 0..MaxCalls]
    /\ answer \in [AllThreads -> Answer]
    /\ undefined \in BOOLEAN

-----------------------------------------------------------------------------
(* Stacks of calls. *)

Configured(k) == \E i \in DOMAIN Native : Native[i] = k

NewFrame(op, at) ==
    [op |-> op, at |-> at, src |-> "none", pos |-> 0,
     built |-> << >>, applied |-> << >>, going |-> TRUE]

Top(t)      == stack[t][Len(stack[t])]
InCall(t)   == stack[t] # << >>

\* Where a thread is in its innermost call.  A program that has used a deleted
\* object is nowhere: no action is enabled in it.
TopAt(t, p) == ~undefined /\ InCall(t) /\ Top(t).at = p

Push(t, f)    == stack' = [stack EXCEPT ![t] = Append(@, f)]
Replace(t, f) == stack' = [stack EXCEPT ![t] = [@ EXCEPT ![Len(@)] = f]]
Goto(t, p)    == Replace(t, [Top(t) EXCEPT !.at = p])

\* The innermost call ends, by returning or by throwing.
Return(t, kind, seen) ==
    /\ stack' = [stack EXCEPT ![t] = SubSeq(@, 1, Len(@) - 1)]
    /\ answer' = [answer EXCEPT ![t] = [op |-> Top(t).op, kind |-> kind, seen |-> seen]]

-----------------------------------------------------------------------------
(* The monitors.  A forEachInterface in progress owns the NativeBrowser's;  *)
(* ready() owns the InterfaceBrowser's while it waits in isClosed().  The   *)
(* other synchronized methods call nothing back: each is one step, taken    *)
(* when the thread can own the monitor.                                     *)

HoldsNative(t)  == \E i \in DOMAIN stack[t] : stack[t][i].at \in {"visit", "callback"}
HoldsBrowser(t) == \E i \in DOMAIN stack[t] : stack[t][i].at = "isClosed"

\* A fault in CanEnterNative: a monitor that its own thread cannot enter again.
CanEnterNativeOnce(t) == \A u \in AllThreads : ~HoldsNative(u)

CanEnterNative(t)  == \A u \in AllThreads \ {t} : ~HoldsNative(u)
CanEnterBrowser(t) == \A u \in AllThreads \ {t} : ~HoldsBrowser(u)

-----------------------------------------------------------------------------
(* The client: creation, calls and the end of the object's life. *)

\* A fault in Init: the cache starts out as an empty list, not as null.
InitEmptyList ==
    /\ native = "none"
    /\ closed = FALSE
    /\ interfaces = << >>
    /\ registered = FALSE
    /\ reachable = FALSE
    /\ stack = [t \in AllThreads |-> << >>]
    /\ calls = [t \in AllThreads |-> 0]
    /\ answer = [t \in AllThreads |-> [op |-> "close", kind |-> "none", seen |-> << >>]]
    /\ undefined = FALSE

Init ==
    /\ native = "none"
    /\ closed = FALSE
    /\ interfaces = NoList
    /\ registered = FALSE
    /\ reachable = FALSE
    /\ stack = [t \in AllThreads |-> << >>]
    /\ calls = [t \in AllThreads |-> 0]
    /\ answer = [t \in AllThreads |-> [op |-> "close", kind |-> "none", seen |-> << >>]]
    /\ undefined = FALSE

\* init() creates the C++ browser, which takes the snapshot of the system.
InitNative ==
    /\ native = "none"
    /\ native' = "live"

\* InterfaceBrowser(), which also registers the object with the Cleaner.
Construct ==
    /\ ~undefined
    /\ InitNative
    /\ registered' = TRUE
    /\ reachable' = TRUE
    /\ UNCHANGED <<closed, interfaces, stack, calls, answer, undefined>>

Busy    == \E t \in AllThreads : InCall(t)
Closing == \E t \in AllThreads : \E i \in DOMAIN stack[t] : stack[t][i].op = "close"

\* Try-with-resources: the browser is closed when its users are done with it.
CloseDiscipline(op) ==
    CloseOverlaps \/ (~Closing /\ (op = "close" => ~Busy))

\* A callback calls the browser only while it is the only user.
NestDiscipline(t) ==
    \/ NestOverlaps
    \/ IF InCall(t) THEN \A u \in AllThreads \ {t} : ~InCall(u)
                    ELSE \A u \in AllThreads : Len(stack[u]) <= 1

\* A thread, or a callback that runs on it, calls a method of the browser.
StartCall(t, op) ==
    /\ ~undefined
    /\ reachable
    /\ calls[t] < MaxCalls
    /\ Len(stack[t]) < MaxDepth
    /\ InCall(t) => Top(t).at = "callback"
    /\ CloseDiscipline(op)
    /\ NestDiscipline(t)
    /\ Push(t, NewFrame(op, IF op = "close" THEN "clean" ELSE "ready"))
    /\ calls' = [calls EXCEPT ![t] = @ + 1]
    /\ UNCHANGED <<native, closed, interfaces, registered, reachable, answer, undefined>>

\* The InterfaceBrowser becomes unreachable: the client forgot it, and no call
\* in progress reads a field of it any more.
Forget ==
    /\ ~undefined
    /\ reachable
    /\ \A t \in AllThreads : \A i \in DOMAIN stack[t] :
            stack[t][i].at \notin {"ready", "isClosed", "clean"}
    /\ CloseOverlaps \/ ~Busy
    /\ reachable' = FALSE
    /\ UNCHANGED <<native, closed, interfaces, registered, stack, calls, answer, undefined>>

-----------------------------------------------------------------------------
(* ready() *)

\* The thread enters ready(), synchronized on the InterfaceBrowser.
EnterReady(t) ==
    /\ TopAt(t, "ready")
    /\ CanEnterBrowser(t)
    /\ Goto(t, "isClosed")
    /\ UNCHANGED <<native, closed, interfaces, registered, reachable, calls, answer, undefined>>

\* A fault in CheckClosed: ready() forgets to look at isClosed().
CheckNothing(t) ==
    /\ TopAt(t, "isClosed")
    /\ CanEnterNative(t)
    /\ Goto(t, "enter")
    /\ UNCHANGED <<native, closed, interfaces, registered, reachable, calls, answer, undefined>>

\* isClosed() on the NativeBrowser; ready() throws or returns, and the accessor
\* goes on without either monitor.
CheckClosed(t) ==
    /\ TopAt(t, "isClosed")
    /\ CanEnterNative(t)
    /\ \/ /\ closed
          /\ Return(t, "refused", << >>)
       \/ /\ ~closed
          /\ Goto(t, "enter")
          /\ UNCHANGED answer
    /\ UNCHANGED <<native, closed, interfaces, registered, reachable, calls, undefined>>

-----------------------------------------------------------------------------
(* getInterface and getInterfaces.  The latter also serves iterator() and  *)
(* interfaces().                                                           *)

\* ENSURE_POPULATED: the field's list, or a conversion of every interface.
Populated(t) ==
    IF interfaces = NoList
    THEN [by |-> <<t, Len(stack[t])>>, items |-> Native]
    ELSE interfaces

EnterMethod(t, op) ==
    /\ TopAt(t, "enter")
    /\ Top(t).op = op
    /\ CanEnterNative(t)

\* A conversion fails, with a Java exception pending.
FailPopulate(t) ==
    /\ interfaces = NoList
    /\ Return(t, "failed", << >>)
    /\ UNCHANGED interfaces

\* getInterface(k), by name or by index: it populates the list for later calls,
\* then converts the C++ interface anew.
GetInterface(t) ==
    /\ EnterMethod(t, "getInterface")
    /\ native = "live"
    /\ \/ FailPopulate(t)
       \/ \E k \in Interfaces :
            /\ interfaces' = Populated(t)
            /\ \/ Configured(k)  /\ Return(t, "found", <<k>>)
               \/ Return(t, "failed", << >>)
               \/ ~Configured(k) /\ Return(t, "absent", <<k>>)
    /\ UNCHANGED <<native, closed, registered, reachable, calls, undefined>>

\* getInterfaces(): only a population reads the C++ browser.
GetInterfaces(t) ==
    /\ EnterMethod(t, "getInterfaces")
    /\ interfaces = NoList => native = "live"
    /\ \/ FailPopulate(t)
       \/ /\ interfaces' = Populated(t)
          /\ Return(t, "list", Populated(t).items)
    /\ UNCHANGED <<native, closed, registered, reachable, calls, undefined>>

-----------------------------------------------------------------------------
(* forEachInterface.  The monitor is kept from here to the end of the call. *)

\* A fault in BeginForEach: it asks the checked accessor for the list, which
\* goes through ready(), when it already owns the monitor.
BeginForEachAsking(t) ==
    /\ EnterMethod(t, "forEachInterface")
    /\ stack' = [stack EXCEPT ![t] = Append([@ EXCEPT ![Len(@)].at = "visit",
                                                      ![Len(@)].src = "native"],
                                            NewFrame("getInterfaces", "ready"))]
    /\ UNCHANGED <<native, closed, interfaces, registered, reachable, calls, answer, undefined>>

\* The Java list if there is one, else the JNI function that also populates.
BeginForEach(t) ==
    /\ EnterMethod(t, "forEachInterface")
    /\ \/ /\ interfaces # NoList
          /\ Replace(t, [Top(t) EXCEPT !.at = "visit", !.src = "list"])
       \/ /\ interfaces = NoList
          /\ Replace(t, [Top(t) EXCEPT !.at = "visit", !.src = "native"])
    /\ UNCHANGED <<native, closed, interfaces, registered, reachable, calls, answer, undefined>>

\* The for statement over the Java list applies the function to the next element.
VisitList(t) ==
    /\ TopAt(t, "visit")
    /\ Top(t).src = "list"
    /\ Top(t).pos < Len(interfaces.items)
    /\ LET n == Top(t).pos + 1
       IN Replace(t, [Top(t) EXCEPT !.at = "callback", !.pos = n,
                                    !.applied = Append(@, interfaces.items[n])])
    /\ UNCHANGED <<native, closed, interfaces, registered, reachable, calls, answer, undefined>>

\* A fault in VisitNative: the lambda adds each interface at the front of the list.
VisitNativeReversed(t) ==
    /\ TopAt(t, "visit")
    /\ Top(t).src = "native"
    /\ native = "live"
    /\ Top(t).pos < Len(Native)
    /\ LET f     == Top(t)
           n     == f.pos + 1
           added == [f EXCEPT !.pos = n, !.built = <<Native[n]>> \o @]
       IN \/ /\ f.going
             /\ Replace(t, [added EXCEPT !.at = "callback",
                                         !.applied = Append(@, Native[n])])
          \/ /\ ~f.going
             /\ Replace(t, added)
    /\ UNCHANGED <<native, closed, interfaces, registered, reachable, calls, answer, undefined>>

\* for_each_interface hands the lambda the next C++ interface: it is converted,
\* added to the new list, and passed to the function unless that said stop.
VisitNative(t) ==
    /\ TopAt(t, "visit")
    /\ Top(t).src = "native"
    /\ native = "live"
    /\ Top(t).pos < Len(Native)
    /\ LET f     == Top(t)
           n     == f.pos + 1
           added == [f EXCEPT !.pos = n, !.built = Append(@, Native[n])]
       IN \/ /\ f.going
             /\ Replace(t, [added EXCEPT !.at = "callback",
                                         !.applied = Append(@, Native[n])])
          \/ /\ ~f.going
             /\ Replace(t, added)
    /\ UNCHANGED <<native, closed, interfaces, registered, reachable, calls, answer, undefined>>

\* A fault in FailVisit: the list is kept although its conversion failed.
FailVisitKeeping(t) ==
    /\ TopAt(t, "visit")
    /\ Top(t).src = "native"
    /\ native = "live"
    /\ interfaces' = IF interfaces = NoList
                     THEN [by |-> <<t, Len(stack[t])>>, items |-> Top(t).built]
                     ELSE interfaces
    /\ Return(t, "failed", Top(t).applied)
    /\ UNCHANGED <<native, closed, registered, reachable, calls, undefined>>

\* A JNI conversion, allocation or field lookup fails, leaving an exception.
FailVisit(t) ==
    /\ TopAt(t, "visit")
    /\ Top(t).src = "native"
    /\ native = "live"
    /\ Return(t, "failed", Top(t).applied)
    /\ UNCHANGED <<native, closed, interfaces, registered, reachable, calls, undefined>>

\* The function returns true or false, or returns null or throws.  After a
\* false the JNI loop converts the rest, so that the list is complete.
CallbackReturn(t) ==
    /\ TopAt(t, "callback")
    /\ \/ Goto(t, "visit") /\ UNCHANGED answer
       \/ /\ Top(t).src = "native"
          /\ Replace(t, [Top(t) EXCEPT !.at = "visit", !.going = FALSE])
          /\ UNCHANGED answer
       \/ Top(t).src = "list" /\ Return(t, "stopped", Top(t).applied)
       \/ Return(t, "failed", Top(t).applied)
    /\ UNCHANGED <<native, closed, interfaces, registered, reachable, calls, undefined>>

\* End of the Java list.
FinishList(t) ==
    /\ TopAt(t, "visit")
    /\ Top(t).src = "list"
    /\ Top(t).pos = Len(interfaces.items)
    /\ Return(t, "completed", Top(t).applied)
    /\ UNCHANGED <<native, closed, interfaces, registered, reachable, calls, undefined>>

\* A fault in FinishNative: the loop ends at the first false, with the list half built.
FinishNativeEarly(t) ==
    /\ TopAt(t, "visit")
    /\ Top(t).src = "native"
    /\ native = "live"
    /\ Top(t).pos = Len(Native) \/ ~Top(t).going
    /\ interfaces' = IF interfaces = NoList
                     THEN [by |-> <<t, Len(stack[t])>>, items |-> Top(t).built]
                     ELSE interfaces
    /\ Return(t, IF Top(t).going THEN "completed" ELSE "stopped", Top(t).applied)
    /\ UNCHANGED <<native, closed, registered, reachable, calls, undefined>>

\* A fault in FinishNative: the new list replaces one that a nested call has cached.
FinishNativeReplacing(t) ==
    /\ TopAt(t, "visit")
    /\ Top(t).src = "native"
    /\ native = "live"
    /\ Top(t).pos = Len(Native)
    /\ interfaces' = [by |-> <<t, Len(stack[t])>>, items |-> Top(t).built]
    /\ Return(t, IF Top(t).going THEN "completed" ELSE "stopped", Top(t).applied)
    /\ UNCHANGED <<native, closed, registered, reachable, calls, undefined>>

\* End of the C++ list: the new list is kept unless a nested call already did.
FinishNative(t) ==
    /\ TopAt(t, "visit")
    /\ Top(t).src = "native"
    /\ native = "live"
    /\ Top(t).pos = Len(Native)
    /\ interfaces' = IF interfaces = NoList
                     THEN [by |-> <<t, Len(stack[t])>>, items |-> Top(t).built]
                     ELSE interfaces
    /\ Return(t, IF Top(t).going THEN "completed" ELSE "stopped", Top(t).applied)
    /\ UNCHANGED <<native, closed, registered, reachable, calls, undefined>>

-----------------------------------------------------------------------------
(* Closing *)

\* InterfaceBrowser.close(): Cleanable.clean() runs its action the first time.
Clean(t) ==
    /\ TopAt(t, "clean")
    /\ \/ registered /\ Goto(t, "shut") /\ UNCHANGED answer
       \/ ~registered /\ Return(t, "closed", << >>)
    /\ registered' = FALSE
    /\ UNCHANGED <<native, closed, interfaces, reachable, calls, undefined>>

\* The Cleaner's thread runs the same action for an unreachable browser.
CleanerRuns ==
    /\ ~undefined
    /\ ~reachable
    /\ registered
    /\ registered' = FALSE
    /\ Push(CleanerThread, NewFrame("close", "shut"))
    /\ UNCHANGED <<native, closed, interfaces, reachable, calls, answer, undefined>>

\* closeInternal() deletes the C++ browser and leaves pBrowser as it is.
CloseInternal == native' = "deleted"

\* A fault in Shut: NativeBrowser.close() is not synchronized.
ShutUnsynchronized(t) ==
    /\ TopAt(t, "shut")
    /\ closed' = TRUE
    /\ IF closed THEN UNCHANGED native ELSE CloseInternal
    /\ Return(t, "closed", << >>)
    /\ UNCHANGED <<interfaces, registered, reachable, calls, undefined>>

\* NativeBrowser.close() and closeInternal().
Shut(t) ==
    /\ TopAt(t, "shut")
    /\ CanEnterNative(t)
    /\ closed' = TRUE
    /\ IF closed THEN UNCHANGED native ELSE CloseInternal
    /\ Return(t, "closed", << >>)
    /\ UNCHANGED <<interfaces, registered, reachable, calls, undefined>>

-----------------------------------------------------------------------------
(* Undefined behaviour: pBrowser keeps its value after the delete, so that *)
(* a call past ready() goes on to use the deleted object.  Nothing is      *)
(* known of the program from there on.                                     *)

UsesNative(t) ==
    \/ EnterMethod(t, "getInterface")
    \/ EnterMethod(t, "getInterfaces") /\ interfaces = NoList
    \/ TopAt(t, "visit") /\ Top(t).src = "native"

UseDeleted(t) ==
    /\ native = "deleted"
    /\ UsesNative(t)
    /\ undefined' = TRUE
    /\ UNCHANGED <<native, closed, interfaces, registered, reachable, stack, calls, answer>>

-----------------------------------------------------------------------------

\* The steps a thread takes inside a call.
Step(t) ==
    \/ EnterReady(t) \/ CheckClosed(t)
    \/ GetInterface(t) \/ GetInterfaces(t)
    \/ BeginForEach(t) \/ VisitList(t) \/ VisitNative(t) \/ FailVisit(t)
    \/ CallbackReturn(t) \/ FinishList(t) \/ FinishNative(t)
    \/ Clean(t) \/ Shut(t)
    \/ UseDeleted(t)

\* All threads are outside the browser, possibly for ever.
Rest == ~undefined /\ ~Busy /\ UNCHANGED vars

Next ==
    \/ Construct
    \/ \E t \in Threads, op \in Ops : StartCall(t, op)
    \/ Forget
    \/ CleanerRuns
    \/ \E t \in AllThreads : Step(t)
    \/ Rest

\* A thread inside a call keeps running; callbacks return.  No fairness is
\* asked of monitors, and clients need not call anything.
Fairness == \A t \in AllThreads : WF_vars(Step(t))

Spec == Init /\ [][Next]_vars /\ Fairness

-----------------------------------------------------------------------------
(* Properties *)

\* No call uses the C++ browser after closeInternal() deleted it.  ready()
\* means to guarantee it by refusing calls to a closed browser.
NoUseAfterDelete == ~undefined

\* No two threads wait for each other's monitor: one in ready(), owning the
\* InterfaceBrowser's and waiting in isClosed() for the NativeBrowser's; one
\* in a callback, owning the latter and about to enter ready().
NoDeadlyEmbrace ==
    \A t, u \in AllThreads :
        ~ (t # u /\ HoldsBrowser(t) /\ HoldsNative(u) /\ TopAt(u, "ready"))

\* Every call eventually returns or throws, callbacks and nested calls included.
CallsReturn == \A t \in AllThreads : InCall(t) ~> ~InCall(t)

\* The cached list holds every interface in the C++ browser's order, even
\* when the iteration that built it failed, was stopped by its function or
\* was overtaken by a nested call.
CacheComplete == interfaces # NoList => interfaces.items = Native

\* The list object, once cached, is never dropped or replaced by another one:
\* what clients already hold stays what the browser serves.
SnapshotStable == [][interfaces # NoList => interfaces' = interfaces]_vars

\* The C++ browser is never deleted while another thread iterates over it or
\* is inside one of its callbacks.
DeleteExcludesIteration ==
    [][native' # native /\ native = "live" =>
          \A u \in AllThreads : HoldsNative(u) => stack'[u] # stack[u]]_vars

\* Whatever a client sees of the interfaces, through a list or one by one, in
\* a callback that is still running or in one that failed, is in one order.
Prefix(s) == \E n \in 0..Len(Native) : s = SubSeq(Native, 1, n)
SameOrder ==
    \A t \in AllThreads :
        /\ \A i \in DOMAIN stack[t] : Prefix(stack[t][i].applied)
        /\ answer[t].kind \in {"list", "completed"} => answer[t].seen = Native
        /\ answer[t].kind \in {"stopped", "failed"} => Prefix(answer[t].seen)

\* What BrowserSnapshot promises is what a browser used with discipline does.
Status == CASE native = "none" -> "unbuilt"
            [] native = "live" -> "open"
            [] native = "deleted" -> "closed"

Snapshot == INSTANCE BrowserSnapshot
            WITH Threads <- AllThreads, status <- Status,
                 published <- (interfaces # NoList)

\* Every answer is the snapshot's while the browser is open, and a refusal
\* once it is closed: the calls behave as if each took one step.
ImplementsSnapshot == Snapshot!Spec

=============================================================================
