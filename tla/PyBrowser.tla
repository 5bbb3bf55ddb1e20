------------------------------ MODULE PyBrowser ------------------------------
(***************************************************************************)
(* The Python InterfaceBrowser: the wrapper in browser.py and the type of  *)
(* the same name in the extension module (ifaddrs4py/source/cpp/           *)
(* extern.cpp), with any number of threads.                                *)
(*                                                                         *)
(* The extension has no lock but the interpreter's.  Another thread may    *)
(* run whenever the interpreter does: in the client's function, and in the *)
(* constructors of the Python objects that an interface is converted to.   *)
(* What lies between two such places is one step here.                     *)
(*                                                                         *)
(* Failing allocations are left out; a conversion or the construction of   *)
(* the C++ browser may fail.                                               *)
(***************************************************************************)
EXTENDS Naturals, Sequences, FiniteSets

CONSTANTS
    Threads,
    Sizes,        \* how many interfaces the first, second... C++ browser lists
    MaxObjects,   \* bound: extension objects ever made
    MaxDepth,     \* bound: calls nested in callbacks
    MaxCalls,     \* bound: calls started
    Disciplined   \* __init__ of an extension object is called again only while
                  \* no method of it runs

ASSUME PyBrowserAssumption ==
    /\ Sizes \in Seq(Nat)
    /\ MaxObjects \in Nat
    /\ MaxDepth \in Nat \ {0}
    /\ MaxCalls \in Nat
    /\ Disciplined \in BOOLEAN

VARIABLES
    extern,      \* the wrapper's _extern; 0 if there is none
    objects,     \* the extension objects: C++ browser and cached tuple, 0 for NULL;
                 \* lost (history): NULL was stored over a tuple
    tuples,      \* the tuples: items, reference count and the client's references
    made,        \* C++ browsers constructed
    destroyed,   \* the C++ browsers that are gone
    stack,       \* the calls each thread is in, the innermost last
    answer,      \* how each thread's latest call ended
    calls,       \* calls started
    crashed      \* what the process died of, or "no"

vars == <<extern, objects, tuples, made, destroyed, stack, answer, calls, crashed>>

Natives == DOMAIN Sizes
Item    == Natives \X Nat          \* an interface: its browser and its place

\* The interfaces of a C++ browser, in order.
Listed(n) == [i \in 1..Sizes[n] |-> <<n, i>>]

\* get: get_interfaces; iter: __iter__; find: get_interface, until the tuple is
\* there; item: __getitem__, and get_interface from then on; each and walk:
\* for_each_interface without and with the tuple.
Ops == {"get", "iter", "find", "item", "each", "walk"}

Frame == [op : Ops, obj : 1..MaxObjects, native : Natives,
          size : Nat,               \* walk: numInterfaces
          list : Seq(Item),         \* the tuple, or tempList, being filled
          seen : Seq(Item),         \* what the client's function was called with
          keep : BOOLEAN,           \* each: keepCallingCallable
          said : BOOLEAN,           \* each: what the client's function last said
          inside : BOOLEAN]         \* the client's function is running

Kinds == {"none", "refused", "failed", "done", "true", "false"}

\* The function raised; NULL was iterated; the tuple, or the C++ browser, was
\* gone from under a call.
Faults == {"raise", "iter", "walk", "destroyed"}

TypeOK ==
    /\ extern \in 0..MaxObjects
    /\ objects \in Seq([browser : {0} \union Natives, cache : Nat, lost : BOOLEAN])
    /\ tuples \in Seq([items : Seq(Item), refs : Nat, owned : Nat])
    /\ made \in {0} \union Natives
    /\ destroyed \subseteq Natives
    /\ stack \in [Threads -> Seq(Frame)]
    /\ answer \in [Threads -> Kinds]
    /\ calls \in 0..MaxCalls
    /\ crashed \in Faults \union {"no"}

Init ==
    /\ extern = 0
    /\ objects = << >>
    /\ tuples = << >>
    /\ made = 0
    /\ destroyed = {}
    /\ stack = [t \in Threads |-> << >>]
    /\ answer = [t \in Threads |-> "none"]
    /\ calls = 0
    /\ crashed = "no"

-----------------------------------------------------------------------------
(* Threads, frames and references. *)

Depth(t) == Len(stack[t])
Top(t)   == stack[t][Depth(t)]
Runs(t, ops) == crashed = "no" /\ Depth(t) > 0 /\ Top(t).op \in ops /\ ~Top(t).inside

\* A thread may call the browser from outside, or from the client's function.
MayCall(t) ==
    /\ crashed = "no"
    /\ calls < MaxCalls
    /\ Depth(t) > 0 => Depth(t) < MaxDepth /\ Top(t).inside

Push(t, f)    == [stack EXCEPT ![t] = Append(@, f)]
Replace(t, f) == [stack EXCEPT ![t] = [@ EXCEPT ![Len(@)] = f]]
Pop(t)        == [stack EXCEPT ![t] = SubSeq(@, 1, Len(@) - 1)]

New(op, o) ==
    [op |-> op, obj |-> o, native |-> objects[o].browser,
     size |-> IF op = "walk" THEN Len(tuples[objects[o].cache].items) ELSE 0,
     list |-> << >>, seen |-> << >>, keep |-> TRUE,
     said |-> TRUE, inside |-> FALSE]

Fresh(n) == [browser |-> n, cache |-> 0, lost |-> FALSE]

Referenced(o, x, st) ==
    x = o \/ \E t \in Threads : \E d \in DOMAIN st[t] : st[t][d].obj = o

\* The wrapper's reference and the calls become x and st.  The objects that
\* nothing refers to any more are deallocated, with their C++ browser and their
\* reference to the tuple.
Settle(x, st, objs, tups, gone) ==
    LET dead == {o \in DOMAIN objs : ~Referenced(o, x, st)}
    IN /\ extern' = x
       /\ stack' = st
       /\ objects' = [o \in DOMAIN objs |->
                         IF o \in dead THEN Fresh(0) ELSE objs[o]]
       /\ tuples' = [i \in DOMAIN tups |->
                        [tups[i] EXCEPT !.refs = @ - Cardinality({o \in dead : objs[o].cache = i})]]
       /\ destroyed' = (gone \union {objs[o].browser : o \in dead}) \ {0}

Crash(fault) ==
    /\ crashed' = fault
    /\ UNCHANGED <<extern, objects, tuples, made, destroyed, stack, answer, calls>>

\* Steps that only change the calls, and those that end one.
Continue(t, f) ==
    /\ stack' = Replace(t, f)
    /\ UNCHANGED <<extern, objects, tuples, made, destroyed, answer, calls, crashed>>

ReturnWith(t, kind, objs, tups) ==
    /\ Settle(extern, Pop(t), objs, tups, destroyed)
    /\ answer' = [answer EXCEPT ![t] = kind]
    /\ UNCHANGED <<made, calls, crashed>>

Return(t, kind) == ReturnWith(t, kind, objects, tuples)

Started(t, kind) ==
    /\ calls' = calls + 1
    /\ answer' = [answer EXCEPT ![t] = kind]
    /\ UNCHANGED crashed

-----------------------------------------------------------------------------
(* Construction. *)

\* A fault in Construct: the wrapper reuses its extension object.
ConstructInPlace(t) ==
    /\ MayCall(t)
    /\ made < Len(Sizes)
    /\ made' = made + 1
    /\ LET old == IF extern = 0 THEN 0 ELSE objects[extern].browser
       IN IF extern = 0
          THEN Settle(1, stack, <<Fresh(made')>>, tuples, destroyed)
          ELSE Settle(extern, stack, [objects EXCEPT ![extern].browser = made'],
                      tuples, destroyed \union {old})
    /\ Started(t, "done")

\* The wrapper's __init__ makes a new extension object; the old one goes when
\* the last call in it returns.  If the C++ browser cannot be constructed the
\* new object goes, and the wrapper keeps the old one.
Construct(t) ==
    /\ MayCall(t)
    /\ \/ /\ made < Len(Sizes)
          /\ Len(objects) < MaxObjects
          /\ made' = made + 1
          /\ Settle(Len(objects) + 1, stack,
                    Append(objects, Fresh(made')), tuples, destroyed)
          /\ Started(t, "done")
       \/ /\ Started(t, "failed")
          /\ UNCHANGED <<extern, objects, tuples, made, destroyed, stack>>

\* __new__ alone makes an object that has no C++ browser.
NewUninitialized(t) ==
    /\ MayCall(t)
    /\ Len(objects) < MaxObjects
    /\ Settle(Len(objects) + 1, stack,
              Append(objects, Fresh(0)), tuples, destroyed)
    /\ Started(t, "done")
    /\ UNCHANGED made

InUse(o) == \E t \in Threads : \E d \in DOMAIN stack[t] : stack[t][d].obj = o

\* __init__ of the extension object once more: a new C++ browser replaces the
\* old one, and then the tuple is dropped; or neither happens.
Reinit(t) ==
    /\ MayCall(t)
    /\ extern # 0
    /\ Disciplined => ~InUse(extern)
    /\ LET c == objects[extern].cache
       IN \/ /\ made < Len(Sizes)
             /\ made' = made + 1
             /\ Settle(extern, stack,
                       [objects EXCEPT ![extern] = Fresh(made')],
                       [i \in DOMAIN tuples |->
                           [tuples[i] EXCEPT !.refs = IF i = c THEN @ - 1 ELSE @]],
                       destroyed \union {objects[extern].browser})
             /\ Started(t, "done")
          \/ /\ Started(t, "failed")
             /\ UNCHANGED <<extern, objects, tuples, made, destroyed, stack>>

\* The client forgets the browser, inside a callback too; or a tuple it was given.
Forget ==
    /\ crashed = "no"
    /\ extern # 0
    /\ Settle(0, stack, objects, tuples, destroyed)
    /\ UNCHANGED <<made, answer, calls, crashed>>

Drop(i) ==
    /\ crashed = "no"
    /\ i \in DOMAIN tuples
    /\ tuples[i].owned > 0
    /\ tuples' = [tuples EXCEPT ![i].owned = @ - 1, ![i].refs = @ - 1]
    /\ UNCHANGED <<extern, objects, made, destroyed, stack, answer, calls, crashed>>

-----------------------------------------------------------------------------
(* The methods that need the tuple, and __getitem__. *)

Cache(o) == objects[o].cache

\* ENSURE_INITIALIZED: a method needs a C++ browser, or raises IllegalStateError.
\* __iter__ hands the NULL that get_interfaces returns then to PyObject_GetIter.
Ready(t) == MayCall(t) /\ extern # 0 /\ objects[extern].browser # 0

Refuse(t) ==
    /\ MayCall(t)
    /\ extern # 0
    /\ objects[extern].browser = 0
    /\ \/ /\ Started(t, "refused")
          /\ UNCHANGED <<extern, objects, tuples, made, destroyed, stack>>
       \/ Crash("iter")

Begin(t, op) ==
    /\ stack' = Push(t, New(op, extern))
    /\ Started(t, "none")
    /\ UNCHANGED <<extern, objects, tuples, made, destroyed>>

\* A fault in Given: the tuple is returned without a reference of its own.
GivenBorrowed(op, tups, i) == [tups EXCEPT ![i].owned = @ + 1]

\* get_interfaces returns a new reference.  __iter__ makes an iterator, with a
\* reference of its own, and never gives back the first.
Given(op, tups, i) ==
    [tups EXCEPT ![i].owned = @ + 1, ![i].refs = @ + (IF op = "iter" THEN 2 ELSE 1)]

\* ENSURE_POPULATED: is there a tuple?  If not, _get_interfaces copies the list
\* of the C++ browser, whose interfaces it thereby keeps alive.
BeginGet(t) ==
    /\ Ready(t)
    /\ Cache(extern) = 0
    /\ \E op \in {"get", "iter", "find"} : Begin(t, op)

GetCached(t) ==
    /\ Ready(t)
    /\ Cache(extern) # 0
    /\ \E op \in {"get", "iter"} : tuples' = Given(op, tuples, Cache(extern))
    /\ Started(t, "done")
    /\ UNCHANGED <<extern, objects, made, destroyed, stack>>

\* __getitem__, which needs no tuple, and get_interface once it has one.
BeginItem(t) == Ready(t) /\ Begin(t, "item")

NextItem(f) == Listed(f.native)[Len(f.list) + 1]
AllListed(f) == Len(f.list) = Sizes[f.native]

\* NULL is stored as an object's tuple; its reference to the one that another
\* call has stored meanwhile is never given back.
Overwritten(o) == [objects EXCEPT ![o].cache = 0, ![o].lost = @ \/ Cache(o) # 0]

\* The next interface is converted, which runs Python code; or it cannot be, and
\* what there is of the tuple is released.  The NULL result is stored all the
\* same, and __iter__ iterates it.
GetConvert(t) ==
    /\ Runs(t, {"get", "iter", "find"})
    /\ ~AllListed(Top(t))
    /\ LET f == Top(t)
       IN \/ Continue(t, [f EXCEPT !.list = Append(@, NextItem(f))])
          \/ f.op # "iter" /\ ReturnWith(t, "failed", Overwritten(f.obj), tuples)
          \/ f.op = "iter" /\ Crash("iter")

Cached(items) == [items |-> items, refs |-> 1, owned |-> 0]

\* The tuple is stored, even if another call stored one meanwhile, which is then
\* lost with its reference.
GetFinish(t) ==
    /\ Runs(t, {"get", "iter", "find"})
    /\ AllListed(Top(t))
    /\ LET f    == Top(t)
           i    == Len(tuples) + 1
           objs == [objects EXCEPT ![f.obj].cache = i]
           tups == Append(tuples, Cached(f.list))
       IN \/ f.op # "find" /\ ReturnWith(t, "done", objs, Given(f.op, tups, i))
          \/ /\ f.op = "find"
             /\ Settle(extern, Replace(t, [f EXCEPT !.op = "item", !.list = << >>,
                                                    !.native = objects[f.obj].browser]),
                       objs, tups, destroyed)
             /\ UNCHANGED <<made, answer, calls, crashed>>

\* The interface found by its index or name belongs to the C++ browser, and is
\* read between the constructors that run.  KeyError if it is not found.
ItemConvert(t) ==
    /\ Runs(t, {"item"})
    /\ \/ Top(t).native \in destroyed /\ Crash("destroyed")
       \/ /\ Top(t).native \notin destroyed
          /\ \E kind \in {"done", "failed"} : Return(t, kind)

-----------------------------------------------------------------------------
(* for_each_interface *)

BeginEach(t) ==
    /\ Ready(t)
    /\ Cache(extern) = 0
    /\ Begin(t, "each")

\* The function is called with an interface.
Shown(f, item) == [f EXCEPT !.seen = Append(@, item), !.inside = TRUE]

\* With a tuple, nothing runs before the function is called with its first item.
BeginWalk(t) ==
    /\ Ready(t)
    /\ Cache(extern) # 0
    /\ LET items == tuples[Cache(extern)].items
       IN \/ /\ items = << >>
             /\ Started(t, "true")
             /\ UNCHANGED stack
          \/ /\ items # << >>
             /\ Started(t, "none")
             /\ stack' = Push(t, Shown(New("walk", extern), items[1]))
    /\ UNCHANGED <<extern, objects, tuples, made, destroyed>>

CallFunction(t, item, f) == Continue(t, Shown(f, item))

\* forEachInterfaceAndPopulate: the C++ browser's list is walked where it is.
\* Each interface is converted, and passed to the function until that says
\* stop; the list is filled to its end all the same.
EachConvert(t) ==
    /\ Runs(t, {"each"})
    /\ LET f == Top(t)
       IN \/ f.native \in destroyed /\ Crash("destroyed")
          \/ /\ f.native \notin destroyed
             /\ ~AllListed(f)
             /\ \/ f.keep /\ CallFunction(t, NextItem(f), f)
                \/ ~f.keep /\ Continue(t, [f EXCEPT !.list = Append(@, NextItem(f))])
                \/ Return(t, "failed")

\* A fault in EachAnswer: the walk ends when the function says stop.
EachAnswerStopping(t) ==
    /\ crashed = "no" /\ Depth(t) > 0 /\ Top(t).op = "each" /\ Top(t).inside
    /\ LET f == Top(t)
       IN \/ Continue(t, [f EXCEPT !.inside = FALSE, !.list = Append(@, NextItem(f))])
          \/ ReturnWith(t, "false", [objects EXCEPT ![f.obj].cache = Len(tuples) + 1],
                        Append(tuples, Cached(Append(f.list, NextItem(f)))))
          \/ Return(t, "failed")
          \/ Crash("raise")

\* A fault in EachAnswer: keepCallingCallable is what the last call returned,
\* and is not looked at before the end.
EachAnswerForgetting(t) ==
    /\ crashed = "no" /\ Depth(t) > 0 /\ Top(t).op = "each" /\ Top(t).inside
    /\ LET f == Top(t)
       IN \/ \E said \in BOOLEAN :
                Continue(t, [f EXCEPT !.inside = FALSE, !.said = said,
                                      !.list = Append(@, NextItem(f))])
          \/ Return(t, "failed")
          \/ Crash("raise")

\* The function returns True or False, or something else, which is an error.  If
\* it raises, its result is NULL, and is released like an object.
EachAnswer(t) ==
    /\ crashed = "no" /\ Depth(t) > 0 /\ Top(t).op = "each" /\ Top(t).inside
    /\ LET f == Top(t)
       IN \/ \E said \in BOOLEAN :
                Continue(t, [f EXCEPT !.inside = FALSE, !.said = said, !.keep = said,
                                      !.list = Append(@, NextItem(f))])
          \/ Return(t, "failed")
          \/ Crash("raise")

Verdict(keep) == IF keep THEN "true" ELSE "false"

\* The tuple is stored unless a nested call or another thread has stored one.
EachFinish(t) ==
    /\ Runs(t, {"each"})
    /\ Top(t).native \notin destroyed
    /\ AllListed(Top(t))
    /\ LET f == Top(t)
       IN \/ /\ Cache(f.obj) # 0
             /\ Return(t, Verdict(f.keep))
          \/ /\ Cache(f.obj) = 0
             /\ ReturnWith(t, Verdict(f.keep),
                           [objects EXCEPT ![f.obj].cache = Len(tuples) + 1],
                           Append(tuples, Cached(f.list)))

\* A fault in WalkCall: the tuple is walked from its end.
WalkCallBackwards(t) ==
    /\ Runs(t, {"walk"})
    /\ LET f == Top(t)
           i == f.size - Len(f.seen)
           c == Cache(f.obj)
       IN \/ i = 0 /\ Return(t, "true")
          \/ i > 0 /\ c # 0 /\ CallFunction(t, tuples[c].items[i], f)

\* forEachPopulatedInterface: the size is read once, the tuple at every step.  An
\* index past the tuple's end is an error, and no tuple at all a crash.
WalkCall(t) ==
    /\ Runs(t, {"walk"})
    /\ LET f == Top(t)
           i == Len(f.seen) + 1
           c == Cache(f.obj)
       IN \/ i > f.size /\ Return(t, "true")
          \/ i <= f.size /\ c = 0 /\ Crash("walk")
          \/ /\ i <= f.size
             /\ c # 0
             /\ \/ /\ i \in DOMAIN tuples[c].items
                   /\ CallFunction(t, tuples[c].items[i], f)
                \/ i \notin DOMAIN tuples[c].items /\ Return(t, "failed")

WalkAnswer(t) ==
    /\ crashed = "no" /\ Depth(t) > 0 /\ Top(t).op = "walk" /\ Top(t).inside
    /\ \/ Continue(t, [Top(t) EXCEPT !.inside = FALSE])
       \/ Return(t, "false")
       \/ Return(t, "failed")

\* __len__ and length: of the tuple, or of the C++ browser's list.
Length(o) ==
    IF Cache(o) # 0 THEN Len(tuples[Cache(o)].items) ELSE Sizes[objects[o].browser]

-----------------------------------------------------------------------------

\* A call that runs, or a client's function that returns.
InCall(t) ==
    \/ GetConvert(t) \/ GetFinish(t) \/ ItemConvert(t)
    \/ EachConvert(t) \/ EachAnswer(t) \/ EachFinish(t)
    \/ WalkCall(t) \/ WalkAnswer(t)

Client(t) ==
    \/ Construct(t) \/ NewUninitialized(t) \/ Reinit(t)
    \/ Refuse(t) \/ BeginGet(t) \/ GetCached(t) \/ BeginItem(t)
    \/ BeginEach(t) \/ BeginWalk(t)

\* No call runs, or the process has crashed.
Rest ==
    /\ crashed # "no" \/ \A t \in Threads : stack[t] = << >>
    /\ UNCHANGED vars

Next ==
    \/ \E t \in Threads : InCall(t) \/ Client(t)
    \/ Forget
    \/ \E i \in DOMAIN tuples : Drop(i)
    \/ Rest

Spec == Init /\ [][Next]_vars

-----------------------------------------------------------------------------
(* Properties *)

Frames == UNION {{stack[t][d] : d \in DOMAIN stack[t]} : t \in Threads}

\* What a call reads is there while it reads it: no C++ browser is destroyed
\* under an iteration or a conversion, however many browsers the clients make
\* and forget meanwhile, in callbacks and on other threads.  No tuple is missing
\* from under a call that walks it, unless a conversion for the same object
\* failed, which stores NULL over it (TupleOutlastsWalk).
ReadsWhatIsThere ==
    \A f \in Frames :
        /\ f.op \in {"each", "item"} => f.native \notin destroyed
        /\ f.op = "walk" => Cache(f.obj) # 0 \/ objects[f.obj].lost

\* The cached tuple is the whole list of the C++ browser that the object has
\* now, in order, whether it was filled by get_interfaces or by a for_each whose
\* function said stop, failed or called the browser again; and len() says the
\* same with and without it.
CachedIsComplete ==
    \A o \in DOMAIN objects : objects[o].browser # 0 =>
        /\ Cache(o) # 0 => tuples[Cache(o)].items = Listed(objects[o].browser)
        /\ Length(o) = Sizes[objects[o].browser]

\* No tuple is released more often than it was given out: there is a reference
\* for each that the client owns and for each object that caches it.
ReferencesSuffice ==
    \A i \in DOMAIN tuples :
        tuples[i].refs >= tuples[i].owned + Cardinality({o \in DOMAIN objects : Cache(o) = i})

\* The client's function is called with the interfaces of one browser, from the
\* first on, none left out, repeated or out of order.
CalledInOrder ==
    \A f \in Frames : f.seen = SubSeq(Listed(f.native), 1, Len(f.seen))

\* What for_each_interface returns is what happened: True if the function was
\* called with every interface and never said stop, False if it did.  After it
\* said stop it is not called again.
AnswersTruly ==
    [][\A t \in Threads : Depth(t) > 0 =>
          LET f == Top(t)
          IN /\ stack'[t] = SubSeq(stack[t], 1, Depth(t) - 1) =>
                   /\ answer'[t] = "true" => f.said /\ f.seen = Listed(f.native)
                   /\ answer'[t] = "false" => f.seen # << >> /\ (f.op = "each" => ~f.said)
             /\ Len(stack'[t]) = Depth(t) /\ ~f.said => stack'[t][Depth(t)].seen = f.seen]_vars

\* "test_no_segfault": for_each_interface comes back to its caller, and does not
\* walk a tuple that a call on another thread has taken away
\* (forEachPopulatedInterface).
TupleOutlastsWalk == crashed # "walk"
=============================================================================
