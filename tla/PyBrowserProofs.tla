--------------------------- MODULE PyBrowserProofs ---------------------------
(***************************************************************************)
(* Proofs about PyBrowser, for every set of threads, every number and      *)
(* every size of C++ browsers, and every bound.                            *)
(***************************************************************************)
EXTENDS PyBrowser, StackLemmas, FiniteSetTheorems

-----------------------------------------------------------------------------
(* The inductive invariant.  Its parts are predicates of the objects, the   *)
(* tuples and the calls that Settle is about to set, so that a step first   *)
(* proves them of its own values, and Settle keeps them.                    *)

Object == [browser : {0} \union Natives, cache : Nat, lost : BOOLEAN]
Tuple  == [items : Seq(Item), refs : Nat, owned : Nat]

\* The objects that cache the tuple.
Holders(objs, i) == {o \in DOMAIN objs : objs[o].cache = i}

ObjectsOK(x, objs, tups) ==
    /\ objs \in Seq(Object)
    /\ Len(objs) <= MaxObjects
    /\ x \in 0..Len(objs)
    /\ \A o \in DOMAIN objs : objs[o].cache \in 0..Len(tups)

TuplesOK(objs, tups) ==
    /\ tups \in Seq(Tuple)
    /\ \A i \in DOMAIN tups : tups[i].refs >= tups[i].owned + Cardinality(Holders(objs, i))

\* The first interfaces of a C++ browser.
Prefix(s, n) == Len(s) \in 0..Sizes[n] /\ s = SubSeq(Listed(n), 1, Len(s))

\* A call of for_each without the tuple has shown the function every interface
\* that it has put on its list, and is in it with the next; once the function
\* has said stop it is shown nothing more.
EachOK(f) ==
    /\ f.inside => f.keep /\ Len(f.list) < Sizes[f.native]
    /\ f.keep => Len(f.seen) = Len(f.list) + (IF f.inside THEN 1 ELSE 0)
    /\ ~f.keep => f.seen # << >>
    /\ f.keep = f.said
    /\ Prefix(f.seen, f.native)

\* The other calls show it nothing, but for a walk.
CallOK(f) ==
    /\ Prefix(f.list, f.native)
    /\ f.op = "each" => EachOK(f)
    /\ f.op # "each" => f.keep /\ f.said
    /\ f.op = "walk" /\ f.inside => f.seen # << >>
    /\ f.op \notin {"each", "walk"} => f.seen = << >> /\ ~f.inside

FramesOK(st, objs) ==
    /\ st \in [Threads -> Seq(Frame)]
    /\ \A t \in Threads : \A d \in DOMAIN st[t] :
          /\ CallOK(st[t][d])
          /\ st[t][d].obj \in DOMAIN objs
          /\ objs[st[t][d].obj].browser # 0

SettledOK(x, st, objs, tups, gone) ==
    /\ ObjectsOK(x, objs, tups)
    /\ TuplesOK(objs, tups)
    /\ FramesOK(st, objs)
    /\ gone \subseteq {0} \union Natives

CoreInv ==
    /\ SettledOK(extern, stack, objects, tuples, destroyed)
    /\ destroyed \subseteq Natives
    /\ made \in {0} \union Natives
    /\ answer \in [Threads -> Kinds]
    /\ calls \in 0..MaxCalls
    /\ crashed \in Faults \union {"no"}

\* While __init__ is not called in the middle of a call: every object has a C++
\* browser of its own, which is there, and a tuple that lists it.
BrowsersOK(objs, tups, gone, m) ==
    /\ gone \subseteq 0..m
    /\ \A o \in DOMAIN objs :
          /\ objs[o].browser # 0 => objs[o].browser \in 1..m /\ objs[o].browser \notin gone
          /\ objs[o].cache # 0 => objs[o].browser # 0 /\
                                  tups[objs[o].cache].items = Listed(objs[o].browser)
    /\ \A o, p \in DOMAIN objs : objs[o].browser = objs[p].browser => o = p \/ objs[o].browser = 0

\* The object has a tuple, unless a conversion has failed.
Walked(object) == object.cache # 0 \/ object.lost

\* Every call is still in the C++ browser that it began with, and a walk has its
\* tuple, or its object lost one.
BoundOK(f, objs) ==
    /\ f.native = objs[f.obj].browser
    /\ f.op = "walk" => /\ Walked(objs[f.obj])
                        /\ f.size = Sizes[f.native]
                        /\ Prefix(f.seen, f.native)

CallsBound(st, objs) ==
    \A t \in Threads : \A d \in DOMAIN st[t] : BoundOK(st[t][d], objs)

BoundInv ==
    /\ BrowsersOK(objects, tuples, destroyed, made)
    /\ CallsBound(stack, objects)

-----------------------------------------------------------------------------
(* Lists of interfaces. *)

LEMMA ListedType ==
    ASSUME NEW n \in Natives
    PROVE  /\ Sizes[n] \in Nat
           /\ Listed(n) \in Seq(Item)
           /\ Len(Listed(n)) = Sizes[n]
  <1>1. Sizes[n] \in Nat
    BY PyBrowserAssumption, LenProperties, ElementOfSeq DEF Natives
  <1>2. Listed(n) \in [1..Sizes[n] -> Item]
    BY <1>1 DEF Listed, Item
  <1>3. QED
    BY <1>1, <1>2, FunctionIsSeq

LEMMA PrefixNone ==
    ASSUME NEW n \in Natives
    PROVE  Prefix(<< >>, n) /\ Len(<< >>) = 0 /\ << >> \in Seq(Item)
  <1>1. Len(<< >>) = 0 /\ << >> \in Seq(Item)
    BY EmptySeq
  <1>2. SubSeq(Listed(n), 1, 0) = << >> /\ 0 \in 0..Sizes[n]
    BY ListedType, PrefixEnds
  <1>3. QED
    BY <1>1, <1>2 DEF Prefix

LEMMA PrefixGrow ==
    ASSUME NEW n \in Natives, NEW s \in Seq(Item), Prefix(s, n), Len(s) # Sizes[n]
    PROVE  /\ Listed(n)[Len(s) + 1] \in Item
           /\ Append(s, Listed(n)[Len(s) + 1]) \in Seq(Item)
           /\ Len(Append(s, Listed(n)[Len(s) + 1])) = Len(s) + 1
           /\ Append(s, Listed(n)[Len(s) + 1]) # << >>
           /\ Prefix(Append(s, Listed(n)[Len(s) + 1]), n)
  <1>1. PICK m \in Nat : m = Len(s)
    BY LenProperties
  <1>2. /\ Sizes[n] \in Nat /\ Listed(n) \in Seq(Item) /\ Len(Listed(n)) = Sizes[n]
        /\ m < Sizes[n] /\ s = SubSeq(Listed(n), 1, m)
    BY <1>1, ListedType DEF Prefix
  <1>3. /\ Listed(n)[m + 1] \in Item
        /\ Append(s, Listed(n)[m + 1]) = SubSeq(Listed(n), 1, m + 1)
    BY <1>1, <1>2, PrefixExtend
  <1>4. Append(s, Listed(n)[m + 1]) \in Seq(Item) /\ Len(Append(s, Listed(n)[m + 1])) = m + 1
    BY <1>1, <1>3, PushLemma
  <1>5. Append(s, Listed(n)[m + 1]) # << >>
    BY <1>4, EmptySeq
  <1>6. m + 1 \in 0..Sizes[n]
    BY <1>2
  <1>7. QED
    BY <1>1, <1>3, <1>4, <1>5, <1>6 DEF Prefix

LEMMA PrefixAll ==
    ASSUME NEW n \in Natives, NEW s, Prefix(s, n), Len(s) = Sizes[n]
    PROVE  s = Listed(n)
  BY ListedType, PrefixEnds DEF Prefix

-----------------------------------------------------------------------------
(* What a step does to the frames of the calls: those of st2 are frames of  *)
(* st, and f.                                                               *)

Within(st2, st, f) ==
    \A u \in Threads : \A d \in DOMAIN st2[u] :
        st2[u][d] = f \/ \E e \in DOMAIN st[u] : st2[u][d] = st[u][e]

LEMMA PushFrames ==
    ASSUME stack \in [Threads -> Seq(Frame)], NEW t \in Threads, NEW f \in Frame
    PROVE  Push(t, f) \in [Threads -> Seq(Frame)] /\ Within(Push(t, f), stack, f)
  <1>1. stack[t] \in Seq(Frame)
    OBVIOUS
  <1> DEFINE r == Append(stack[t], f)
  <1>2. /\ r \in Seq(Frame)
        /\ DOMAIN r = 1..(Len(stack[t]) + 1)
        /\ \A i \in 1..Len(stack[t]) : r[i] = stack[t][i]
        /\ r[Len(stack[t]) + 1] = f
    BY <1>1, PushLemma
  <1>3. PICK n \in Nat : n = Len(stack[t]) /\ DOMAIN stack[t] = 1..n
    BY <1>1, LenProperties
  <1>4. Push(t, f) \in [Threads -> Seq(Frame)]
    BY <1>2 DEF Push
  <1>5. Push(t, f)[t] = r /\ \A u \in Threads \ {t} : Push(t, f)[u] = stack[u]
    BY DEF Push
  <1> HIDE DEF r
  <1>6. ASSUME NEW d \in DOMAIN r
        PROVE  r[d] = f \/ \E e \in DOMAIN stack[t] : r[d] = stack[t][e]
    <2>1. d = n + 1 \/ d \in 1..n
      BY <1>2, <1>3
    <2>2. QED
      BY <1>2, <1>3, <2>1
  <1>7. QED
    BY <1>4, <1>5, <1>6, ZenonT(60) DEF Within

LEMMA ReplaceFrames ==
    ASSUME stack \in [Threads -> Seq(Frame)], NEW t \in Threads, stack[t] # << >>, NEW f \in Frame
    PROVE  Replace(t, f) \in [Threads -> Seq(Frame)] /\ Within(Replace(t, f), stack, f)
  <1>1. stack[t] \in Seq(Frame)
    OBVIOUS
  <1> DEFINE r == [stack[t] EXCEPT ![Len(stack[t])] = f]
  <1>2. /\ r \in Seq(Frame)
        /\ DOMAIN r = 1..Len(stack[t])
        /\ \A i \in 1..(Len(stack[t]) - 1) : r[i] = stack[t][i]
        /\ r[Len(stack[t])] = f
    BY <1>1, ReplaceLemma
  <1>3. PICK n \in Nat : n = Len(stack[t]) /\ DOMAIN stack[t] = 1..n
    BY <1>1, LenProperties
  <1>4. Replace(t, f) \in [Threads -> Seq(Frame)]
    BY <1>2 DEF Replace
  <1>5. Replace(t, f)[t] = r /\ \A u \in Threads \ {t} : Replace(t, f)[u] = stack[u]
    BY DEF Replace
  <1> HIDE DEF r
  <1>6. ASSUME NEW d \in DOMAIN r
        PROVE  r[d] = f \/ \E e \in DOMAIN stack[t] : r[d] = stack[t][e]
    <2>1. d = n \/ d \in 1..(n - 1)
      BY <1>2, <1>3
    <2>2. d \in DOMAIN stack[t]
      BY <1>2, <1>3
    <2>3. QED
      BY <1>2, <1>3, <2>1, <2>2
  <1>7. QED
    BY <1>4, <1>5, <1>6 DEF Within

LEMMA PopFrames ==
    ASSUME stack \in [Threads -> Seq(Frame)], NEW t \in Threads, stack[t] # << >>
    PROVE  /\ Pop(t) \in [Threads -> Seq(Frame)]
           /\ \A u \in Threads : \A d \in DOMAIN Pop(t)[u] :
                 \E e \in DOMAIN stack[u] : Pop(t)[u][d] = stack[u][e]
  <1>1. stack[t] \in Seq(Frame)
    OBVIOUS
  <1> DEFINE r == SubSeq(stack[t], 1, Len(stack[t]) - 1)
  <1>2. /\ r \in Seq(Frame)
        /\ DOMAIN r = 1..(Len(stack[t]) - 1)
        /\ \A i \in 1..(Len(stack[t]) - 1) : r[i] = stack[t][i]
    BY <1>1, PopLemma
  <1>3. PICK n \in Nat : n = Len(stack[t]) /\ DOMAIN stack[t] = 1..n
    BY <1>1, LenProperties
  <1>4. Pop(t) \in [Threads -> Seq(Frame)]
    BY <1>2 DEF Pop
  <1>5. Pop(t)[t] = r /\ \A u \in Threads \ {t} : Pop(t)[u] = stack[u]
    BY DEF Pop
  <1> HIDE DEF r
  <1>6. ASSUME NEW d \in DOMAIN r
        PROVE  \E e \in DOMAIN stack[t] : r[d] = stack[t][e]
    <2>1. d \in DOMAIN stack[t]
      BY <1>2, <1>3
    <2>2. QED
      BY <1>2, <2>1
  <1>7. QED
    BY <1>4, <1>5, <1>6

\* What is true of every frame stays true.
LEMMA FramesAfter ==
    ASSUME NEW objs, NEW st, NEW st2 \in [Threads -> Seq(Frame)], NEW f,
           FramesOK(st, objs), Within(st2, st, f),
           CallOK(f), f.obj \in DOMAIN objs, objs[f.obj].browser # 0
    PROVE  FramesOK(st2, objs)
  <1>1. ASSUME NEW t \in Threads, NEW d \in DOMAIN st2[t]
        PROVE  /\ CallOK(st2[t][d])
               /\ st2[t][d].obj \in DOMAIN objs
               /\ objs[st2[t][d].obj].browser # 0
    <2>1. CASE st2[t][d] = f
      BY <2>1
    <2>2. CASE \E e \in DOMAIN st[t] : st2[t][d] = st[t][e]
      BY <2>2 DEF FramesOK
    <2>3. QED
      BY <2>1, <2>2 DEF Within
  <1>2. QED
    BY <1>1 DEF FramesOK

\* The browsers of the objects that calls use are kept.
LEMMA FramesKept ==
    ASSUME NEW st, NEW objs, NEW objs2, FramesOK(st, objs),
           \A t \in Threads : \A d \in DOMAIN st[t] :
               LET o == st[t][d].obj
               IN o \in DOMAIN objs /\ objs[o].browser # 0 => o \in DOMAIN objs2 /\ objs2[o].browser # 0
    PROVE  FramesOK(st, objs2)
  BY DEF FramesOK

\* The frame at the top of a thread's stack.
LEMMA TopFrame ==
    ASSUME FramesOK(stack, objects), NEW t \in Threads, Depth(t) > 0
    PROVE  /\ stack[t] \in Seq(Frame) /\ stack[t] # << >>
           /\ Depth(t) \in Nat \ {0} /\ Depth(t) \in DOMAIN stack[t]
           /\ Top(t) \in Frame /\ CallOK(Top(t))
           /\ Top(t).obj \in DOMAIN objects /\ objects[Top(t).obj].browser # 0
  <1>1. stack[t] \in Seq(Frame)
    BY DEF FramesOK
  <1>2. Len(stack[t]) \in Nat /\ DOMAIN stack[t] = 1..Len(stack[t])
    BY <1>1, LenProperties
  <1>3. Len(stack[t]) \in 1..Len(stack[t])
    BY <1>2 DEF Depth
  <1>4. stack[t] # << >>
    BY <1>3, EmptySeq
  <1>5. stack[t][Len(stack[t])] \in Frame
    BY <1>1, <1>3, ElementOfSeq
  <1>6. QED
    BY <1>1, <1>2, <1>3, <1>4, <1>5 DEF FramesOK, Top, Depth

-----------------------------------------------------------------------------
(* The references to tuples. *)

LEMMA HoldersFinite ==
    ASSUME NEW objs \in Seq(Object), NEW i
    PROVE  /\ IsFiniteSet(Holders(objs, i))
           /\ Cardinality(Holders(objs, i)) \in Nat
  <1>1. Len(objs) \in Nat /\ DOMAIN objs = 1..Len(objs)
    BY LenProperties
  <1>2. IsFiniteSet(1..Len(objs))
    BY <1>1, FS_Interval
  <1>3. Holders(objs, i) \in SUBSET (1..Len(objs))
    BY <1>1 DEF Holders
  <1>4. IsFiniteSet(Holders(objs, i))
    BY <1>2, <1>3, FS_Subset
  <1>5. QED
    BY <1>4, FS_CardinalityType

\* The objects and the tuples once some objects are deallocated.
ObjectsWithout(objs, dead) ==
    [o \in DOMAIN objs |-> IF o \in dead THEN Fresh(0) ELSE objs[o]]
TuplesWithout(objs, tups, dead) ==
    [i \in DOMAIN tups |->
        [tups[i] EXCEPT !.refs = @ - Cardinality({o \in dead : objs[o].cache = i})]]

LEMMA SettleTuples ==
    ASSUME NEW objs \in Seq(Object), NEW tups, TuplesOK(objs, tups),
           NEW dead, dead \subseteq DOMAIN objs,
           NEW objs2, objs2 = ObjectsWithout(objs, dead),
           NEW tups2, tups2 = TuplesWithout(objs, tups, dead)
    PROVE  /\ TuplesOK(objs2, tups2)
           /\ Len(tups2) = Len(tups)
           /\ \A i \in DOMAIN tups : tups2[i].items = tups[i].items
  <1>1. tups \in Seq(Tuple) /\ Len(tups) \in Nat /\ DOMAIN tups = 1..Len(tups)
    BY LenProperties DEF TuplesOK
  <1>2. ASSUME NEW i \in DOMAIN tups
        PROVE  /\ tups[i] \in Tuple
               /\ tups2[i] \in Tuple
               /\ tups2[i].items = tups[i].items
               /\ tups2[i].refs >= tups2[i].owned + Cardinality(Holders(objs2, i))
    <2> DEFINE H == Holders(objs, i)
               D == {o \in dead : objs[o].cache = i}
    <2>1. IsFiniteSet(H) /\ Cardinality(H) \in Nat
      BY HoldersFinite
    <2>2. D \subseteq H /\ H \cap D = D
      BY DEF Holders
    <2>3. IsFiniteSet(D) /\ Cardinality(D) \in Nat /\ Cardinality(D) <= Cardinality(H)
      BY <2>1, <2>2, FS_Subset, FS_CardinalityType
    <2>4. Cardinality(H \ D) = Cardinality(H) - Cardinality(D)
      BY <2>1, <2>2, FS_Difference
    <2>5. Holders(objs2, i) = H \ D
      <3>1. DOMAIN objs2 = DOMAIN objs /\ i # 0
        BY <1>1 DEF ObjectsWithout
      <3>2. ASSUME NEW o \in DOMAIN objs
            PROVE  objs2[o].cache = i <=> objs[o].cache = i /\ o \notin dead
        BY <3>1 DEF ObjectsWithout, Fresh
      <3>3. QED
        BY <3>1, <3>2 DEF Holders
    <2>6. tups[i] \in Tuple /\ tups[i].refs >= tups[i].owned + Cardinality(H)
      BY <1>1, ElementOfSeq DEF TuplesOK
    <2>7. PICK r \in Nat, w \in Nat, h \in Nat, c \in Nat :
              /\ r = tups[i].refs /\ w = tups[i].owned /\ h = Cardinality(H) /\ c = Cardinality(D)
      BY <2>1, <2>3, <2>6 DEF Tuple
    <2>8. /\ tups2[i] = [tups[i] EXCEPT !.refs = r - c]
          /\ r >= w + h /\ c <= h
      BY <2>3, <2>6, <2>7 DEF TuplesWithout
    <2>9. r - c \in Nat /\ r - c >= w + (h - c)
      BY <2>8
    <2>10. /\ tups2[i] \in Tuple /\ tups2[i].items = tups[i].items
           /\ tups2[i].refs = r - c /\ tups2[i].owned = w
      BY <2>6, <2>7, <2>8, <2>9 DEF Tuple
    <2>11. Cardinality(Holders(objs2, i)) = h - c
      BY <2>4, <2>5, <2>7
    <2>12. QED
      BY <2>6, <2>9, <2>10, <2>11
  <1>3. tups2 \in [1..Len(tups) -> Tuple]
    BY <1>1, <1>2 DEF TuplesWithout
  <1>4. tups2 \in Seq(Tuple) /\ Len(tups2) = Len(tups) /\ DOMAIN tups2 = 1..Len(tups)
    BY <1>1, <1>3, FunctionIsSeq
  <1>5. QED
    BY <1>1, <1>2, <1>4 DEF TuplesOK

\* Where nothing is deallocated that a call uses, Settle keeps what it is given.
LEMMA SettleKeeps ==
    ASSUME NEW x, NEW st, NEW objs, NEW tups, NEW gone,
           SettledOK(x, st, objs, tups, gone), Settle(x, st, objs, tups, gone)
    PROVE  /\ SettledOK(extern', stack', objects', tuples', destroyed')
           /\ destroyed' \subseteq Natives
           /\ extern' = x /\ stack' = st
  <1> DEFINE dead == {o \in DOMAIN objs : ~Referenced(o, x, st)}
  <1>1. /\ extern' = x
        /\ stack' = st
        /\ objects' = [o \in DOMAIN objs |-> IF o \in dead THEN Fresh(0) ELSE objs[o]]
        /\ tuples' = [i \in DOMAIN tups |->
                  [tups[i] EXCEPT !.refs = @ - Cardinality({o \in dead : objs[o].cache = i})]]
        /\ destroyed' = (gone \union {objs[o].browser : o \in dead}) \ {0}
    BY DEF Settle
  <1>2. /\ objs \in Seq(Object) /\ Len(objs) \in Nat /\ DOMAIN objs = 1..Len(objs)
        /\ \A o \in DOMAIN objs : objs[o] \in Object
    BY LenProperties, ElementOfSeq DEF SettledOK, ObjectsOK
  <1>3. /\ TuplesOK(objects', tuples') /\ Len(tuples') = Len(tups)
    <2> HIDE DEF dead
    <2>1. dead \subseteq DOMAIN objs
      BY DEF dead
    <2>2. TuplesOK(objs, tups) /\ objs \in Seq(Object)
      BY <1>2 DEF SettledOK
    <2>3. objects' = ObjectsWithout(objs, dead) /\ tuples' = TuplesWithout(objs, tups, dead)
      BY <1>1 DEF ObjectsWithout, TuplesWithout
    <2>4. QED
      BY <2>1, <2>2, <2>3, SettleTuples
  <1>4. ObjectsOK(extern', objects', tuples')
    <2>1. Fresh(0) \in Object /\ Fresh(0).cache = 0
      BY DEF Object, Fresh
    <2>2. objects' \in [1..Len(objs) -> Object]
      BY <1>1, <1>2, <2>1
    <2>3. objects' \in Seq(Object) /\ Len(objects') = Len(objs) /\ DOMAIN objects' = DOMAIN objs
      BY <1>2, <2>2, FunctionIsSeq
    <2>4. \A o \in DOMAIN objs : objects'[o].cache \in 0..Len(tups)
      <3>1. Len(tups) \in Nat
        BY LenProperties DEF SettledOK, TuplesOK
      <3>2. \A o \in DOMAIN objs : objs[o].cache \in 0..Len(tups)
        BY DEF SettledOK, ObjectsOK
      <3>3. QED
        BY <1>1, <2>1, <3>1, <3>2
    <2>5. Len(objs) <= MaxObjects /\ x \in 0..Len(objs)
      BY DEF SettledOK, ObjectsOK
    <2>6. QED
      BY <1>1, <1>3, <2>3, <2>4, <2>5 DEF ObjectsOK
  <1>5. FramesOK(stack', objects')
    <2>1. FramesOK(st, objs)
      BY DEF SettledOK
    <2>2. ASSUME NEW t \in Threads, NEW d \in DOMAIN st[t]
          PROVE  st[t][d].obj \notin dead
      BY <2>2 DEF Referenced
    <2>3. \A t \in Threads : \A d \in DOMAIN st[t] :
              LET o == st[t][d].obj
              IN o \in DOMAIN objs /\ objs[o].browser # 0 =>
                     o \in DOMAIN objects' /\ objects'[o].browser # 0
      BY <1>1, <2>2
    <2>4. FramesOK(st, objects')
      <3> HIDE DEF dead
      <3>1. QED
        BY <2>1, <2>3, FramesKept
    <2>5. QED
      BY <1>1, <2>4
  <1>6. destroyed' \subseteq Natives
    BY <1>1, <1>2 DEF SettledOK, Object
  <1>7. QED
    BY <1>1, <1>3, <1>4, <1>5, <1>6 DEF SettledOK

-----------------------------------------------------------------------------
(* What the calls change before they settle. *)

LEMMA TuplesType ==
    ASSUME NEW objs, NEW tups, TuplesOK(objs, tups)
    PROVE  /\ tups \in Seq(Tuple) /\ Len(tups) \in Nat /\ DOMAIN tups = 1..Len(tups)
           /\ \A i \in DOMAIN tups : tups[i] \in Tuple
  BY LenProperties, ElementOfSeq DEF TuplesOK

LEMMA ObjectsType ==
    ASSUME NEW x, NEW objs, NEW tups, ObjectsOK(x, objs, tups)
    PROVE  /\ objs \in Seq(Object) /\ Len(objs) \in Nat /\ DOMAIN objs = 1..Len(objs)
           /\ \A o \in DOMAIN objs : objs[o] \in Object
  BY LenProperties, ElementOfSeq DEF ObjectsOK

LEMMA TupleExcept ==
    ASSUME NEW u \in Tuple, NEW a, NEW b
    PROVE  [u EXCEPT !.owned = a, !.refs = b] = [items |-> u.items, refs |-> b, owned |-> a]
  <1> DEFINE v == [u EXCEPT !.owned = a, !.refs = b]
             w == [items |-> u.items, refs |-> b, owned |-> a]
  <1>1. DOMAIN u = {"items", "refs", "owned"}
    BY DEF Tuple
  <1>2. DOMAIN v = {"items", "refs", "owned"} /\ DOMAIN w = {"items", "refs", "owned"}
    BY <1>1
  <1>3. v.items = w.items /\ v.refs = w.refs /\ v.owned = w.owned
    BY <1>1
  <1>4. v = [k \in {"items", "refs", "owned"} |-> v[k]] /\ w = [k \in {"items", "refs", "owned"} |-> w[k]]
    BY <1>2
  <1> HIDE DEF v, w
  <1>5. v = w
    BY <1>2, <1>3, <1>4
  <1>6. QED
    BY <1>5 DEF v, w

LEMMA ObjectExcept ==
    ASSUME NEW u \in Object, NEW a, NEW b
    PROVE  [u EXCEPT !.cache = a, !.lost = b] = [browser |-> u.browser, cache |-> a, lost |-> b]
  <1> DEFINE v == [u EXCEPT !.cache = a, !.lost = b]
             w == [browser |-> u.browser, cache |-> a, lost |-> b]
  <1>1. DOMAIN u = {"browser", "cache", "lost"}
    BY DEF Object
  <1>2. DOMAIN v = {"browser", "cache", "lost"} /\ DOMAIN w = {"browser", "cache", "lost"}
    BY <1>1
  <1>3. v.browser = w.browser /\ v.cache = w.cache /\ v.lost = w.lost
    BY <1>1
  <1>4. /\ v = [k \in {"browser", "cache", "lost"} |-> v[k]]
        /\ w = [k \in {"browser", "cache", "lost"} |-> w[k]]
    BY <1>2
  <1> HIDE DEF v, w
  <1>5. v = w
    BY <1>2, <1>3, <1>4
  <1>6. QED
    BY <1>5 DEF v, w

\* A tuple that is given out has a reference more for it.
LEMMA GivenKeeps ==
    ASSUME NEW objs \in Seq(Object), NEW tups, TuplesOK(objs, tups), NEW i \in DOMAIN tups, NEW op
    PROVE  /\ TuplesOK(objs, Given(op, tups, i))
           /\ Len(Given(op, tups, i)) = Len(tups)
           /\ \A j \in DOMAIN tups : Given(op, tups, i)[j].items = tups[j].items
  <1> DEFINE more == IF op = "iter" THEN 2 ELSE 1
             new  == [items |-> tups[i].items, refs |-> tups[i].refs + more,
                      owned |-> tups[i].owned + 1]
  <1>1. /\ tups \in Seq(Tuple) /\ Len(tups) \in Nat /\ DOMAIN tups = 1..Len(tups)
        /\ \A j \in DOMAIN tups : tups[j] \in Tuple
    BY TuplesType
  <1>2. Given(op, tups, i) = [tups EXCEPT ![i] = new]
    <2>1. tups[i] \in Tuple
      BY <1>1
    <2>2. [tups[i] EXCEPT !.owned = tups[i].owned + 1, !.refs = tups[i].refs + more] = new
      BY <2>1, TupleExcept
    <2>3. QED
      BY <2>2 DEF Given
  <1>3. more \in Nat /\ more >= 1
    OBVIOUS
  <1> HIDE DEF more
  <1>4. new \in Tuple /\ new.items = tups[i].items /\ new.owned = tups[i].owned + 1
        /\ new.refs = tups[i].refs + more
    <2>1. tups[i].items \in Seq(Item) /\ tups[i].refs \in Nat /\ tups[i].owned \in Nat
      BY <1>1 DEF Tuple
    <2>2. tups[i].refs + more \in Nat /\ tups[i].owned + 1 \in Nat
      BY <1>3, <2>1
    <2>3. QED
      BY <2>1, <2>2 DEF Tuple
  <1> HIDE DEF new
  <1>5. /\ Given(op, tups, i) \in Seq(Tuple) /\ Len(Given(op, tups, i)) = Len(tups)
        /\ \A j \in 1..Len(tups) : Given(op, tups, i)[j] = IF j = i THEN new ELSE tups[j]
    BY <1>1, <1>2, <1>4, ExceptSeq
  <1>6. DOMAIN Given(op, tups, i) = 1..Len(tups)
    BY <1>5, LenProperties
  <1>7. ASSUME NEW j \in DOMAIN tups
        PROVE  Given(op, tups, i)[j].refs >= Given(op, tups, i)[j].owned + Cardinality(Holders(objs, j))
    <2>1. PICK r \in Nat, w \in Nat, h \in Nat :
              /\ r = tups[j].refs /\ w = tups[j].owned /\ h = Cardinality(Holders(objs, j)) /\ r >= w + h
      BY <1>1, HoldersFinite DEF TuplesOK, Tuple
    <2>2. CASE j = i
      <3>1. Given(op, tups, i)[j].refs = r + more /\ Given(op, tups, i)[j].owned = w + 1
        BY <1>1, <1>4, <1>5, <2>1, <2>2
      <3>2. QED
        BY <1>3, <2>1, <3>1
    <2>3. CASE j # i
      BY <1>1, <1>5, <2>1, <2>3
    <2>4. QED
      BY <2>2, <2>3
  <1>8. QED
    BY <1>1, <1>4, <1>5, <1>6, <1>7 DEF TuplesOK

\* The objects once an object caches the tuple that is put on the end.
Stored(objs, o, i) == [objs EXCEPT ![o].cache = i]

LEMMA StoreKeeps ==
    ASSUME NEW x, NEW objs, NEW tups, ObjectsOK(x, objs, tups), TuplesOK(objs, tups),
           NEW o \in DOMAIN objs, NEW items \in Seq(Item)
    PROVE  LET i     == Len(tups) + 1
               objs2 == Stored(objs, o, i)
               tups2 == Append(tups, Cached(items))
           IN /\ ObjectsOK(x, objs2, tups2) /\ TuplesOK(objs2, tups2)
              /\ i \in DOMAIN tups2 /\ tups2[i].items = items /\ i # 0
              /\ Len(tups2) = Len(tups) + 1
              /\ DOMAIN objs2 = DOMAIN objs
              /\ \A p \in DOMAIN objs : objs2[p].browser = objs[p].browser
              /\ \A p \in DOMAIN objs : objs2[p].cache = IF p = o THEN i ELSE objs[p].cache
              /\ \A p \in DOMAIN objs : objs2[p].lost = objs[p].lost
              /\ \A j \in DOMAIN tups : j \in DOMAIN tups2 /\ tups2[j].items = tups[j].items
  <1> DEFINE i     == Len(tups) + 1
             objs2 == Stored(objs, o, i)
             tups2 == Append(tups, Cached(items))
  <1>0. /\ i = Len(tups) + 1
        /\ objs2 = [objs EXCEPT ![o].cache = i]
        /\ tups2 = Append(tups, Cached(items))
    BY DEF Stored
  <1> HIDE DEF i, objs2, tups2
  <1>1. /\ tups \in Seq(Tuple) /\ Len(tups) \in Nat /\ DOMAIN tups = 1..Len(tups)
        /\ \A j \in DOMAIN tups : tups[j] \in Tuple
    BY TuplesType
  <1>2. /\ objs \in Seq(Object) /\ Len(objs) \in Nat /\ DOMAIN objs = 1..Len(objs)
        /\ \A p \in DOMAIN objs : objs[p] \in Object
        /\ \A p \in DOMAIN objs : objs[p].cache \in 0..Len(tups)
        /\ Len(objs) <= MaxObjects /\ x \in 0..Len(objs)
    BY ObjectsType DEF ObjectsOK
  <1>3. /\ Cached(items) \in Tuple /\ Cached(items).items = items
        /\ Cached(items).refs = 1 /\ Cached(items).owned = 0
    BY DEF Cached, Tuple
  <1>4. /\ tups2 \in Seq(Tuple) /\ Len(tups2) = Len(tups) + 1 /\ DOMAIN tups2 = 1..(Len(tups) + 1)
        /\ \A j \in 1..Len(tups) : tups2[j] = tups[j]
        /\ tups2[Len(tups) + 1] = Cached(items)
    BY <1>0, <1>1, <1>3, PushLemma
  <1> DEFINE new == [browser |-> objs[o].browser, cache |-> i, lost |-> objs[o].lost]
  <1>5. /\ new \in Object /\ new.browser = objs[o].browser /\ new.cache = i
        /\ new.lost = objs[o].lost
    <2>1. objs[o].browser \in {0} \union Natives /\ objs[o].lost \in BOOLEAN /\ i \in Nat
      BY <1>0, <1>1, <1>2 DEF Object
    <2>2. QED
      BY <2>1 DEF Object
  <1>6. objs2 = [objs EXCEPT ![o] = new]
    <2>1. [objs[o] EXCEPT !.cache = i] = new
      BY <1>2 DEF Object
    <2>2. QED
      BY <1>0, <2>1
  <1> HIDE DEF new
  <1>7. /\ objs2 \in Seq(Object) /\ Len(objs2) = Len(objs)
        /\ \A p \in 1..Len(objs) : objs2[p] = IF p = o THEN new ELSE objs[p]
    <2>1. o \in 1..Len(objs)
      BY <1>2
    <2>2. objs \in Seq(Object) /\ new \in Object
      BY <1>2, <1>5
    <2>3. /\ [objs EXCEPT ![o] = new] \in Seq(Object)
          /\ Len([objs EXCEPT ![o] = new]) = Len(objs)
          /\ \A p \in 1..Len(objs) : [objs EXCEPT ![o] = new][p] = IF p = o THEN new ELSE objs[p]
      BY <2>1, <2>2, ExceptSeq
    <2>4. QED
      BY <1>6, <2>3
  <1>8. DOMAIN objs2 = DOMAIN objs
    BY <1>2, <1>7, LenProperties
  <1>9. /\ \A p \in DOMAIN objs : objs2[p].browser = objs[p].browser
        /\ \A p \in DOMAIN objs : objs2[p].cache = IF p = o THEN i ELSE objs[p].cache
        /\ \A p \in DOMAIN objs : objs2[p].lost = objs[p].lost
    BY <1>2, <1>5, <1>7
  <1>10. ObjectsOK(x, objs2, tups2)
    <2>1. ASSUME NEW p \in DOMAIN objs
          PROVE  objs2[p].cache \in 0..Len(tups2)
      <3>1. objs[p].cache \in 0..Len(tups) /\ objs2[p].cache = IF p = o THEN i ELSE objs[p].cache
        BY <1>2, <1>9
      <3>2. QED
        BY <1>0, <1>1, <1>4, <3>1
    <2>2. QED
      BY <1>2, <1>7, <1>8, <2>1 DEF ObjectsOK
  <1>11. ASSUME NEW j \in DOMAIN tups2
         PROVE  tups2[j].refs >= tups2[j].owned + Cardinality(Holders(objs2, j))
    <2>1. CASE j = i
      <3>1. Holders(objs2, j) = {o}
        <4>1. \A p \in DOMAIN objs : objs[p].cache # i
          BY <1>0, <1>1, <1>2
        <4>2. QED
          BY <1>8, <1>9, <2>1, <4>1 DEF Holders
      <3>2. Cardinality(Holders(objs2, j)) = 1
        BY <3>1, FS_Singleton
      <3>3. QED
        BY <1>0, <1>3, <1>4, <2>1, <3>2
    <2>2. CASE j # i
      <3>1. j \in DOMAIN tups /\ tups2[j] = tups[j]
        BY <1>0, <1>1, <1>4, <2>2
      <3>2. Holders(objs2, j) \subseteq Holders(objs, j)
        BY <1>8, <1>9, <2>2 DEF Holders
      <3>3. IsFiniteSet(Holders(objs, j)) /\ Cardinality(Holders(objs, j)) \in Nat
        BY <1>2, HoldersFinite
      <3>4. /\ Cardinality(Holders(objs2, j)) <= Cardinality(Holders(objs, j))
            /\ Cardinality(Holders(objs2, j)) \in Nat
        BY <1>7, <3>2, <3>3, FS_Subset, HoldersFinite
      <3>5. PICK r \in Nat, w \in Nat : r = tups[j].refs /\ w = tups[j].owned
        BY <1>1, <3>1 DEF Tuple
      <3>6. r >= w + Cardinality(Holders(objs, j))
        BY <3>1, <3>5 DEF TuplesOK
      <3>7. r >= w + Cardinality(Holders(objs2, j))
        BY <3>3, <3>4, <3>6
      <3>8. QED
        BY <3>1, <3>5, <3>7
    <2>3. QED
      BY <2>1, <2>2
  <1>12. TuplesOK(objs2, tups2)
    BY <1>4, <1>11 DEF TuplesOK
  <1>13. QED
    <2>1. /\ i \in DOMAIN tups2 /\ tups2[i].items = items /\ i # 0
          /\ Len(tups2) = Len(tups) + 1
          /\ \A j \in DOMAIN tups : j \in DOMAIN tups2 /\ tups2[j].items = tups[j].items
      BY <1>0, <1>1, <1>3, <1>4
    <2>2. QED
      BY <1>8, <1>9, <1>10, <1>12, <2>1 DEF i, objs2, tups2

\* A new object caches nothing.
LEMMA NewObjectKeeps ==
    ASSUME NEW x, NEW objs, NEW tups, ObjectsOK(x, objs, tups), TuplesOK(objs, tups),
           Len(objs) < MaxObjects, NEW b \in {0} \union Natives
    PROVE  LET objs2 == Append(objs, Fresh(b))
           IN /\ ObjectsOK(Len(objs) + 1, objs2, tups) /\ TuplesOK(objs2, tups)
              /\ DOMAIN objs2 = 1..(Len(objs) + 1)
              /\ \A o \in DOMAIN objs : o \in DOMAIN objs2 /\ objs2[o] = objs[o]
              /\ objs2[Len(objs) + 1] = Fresh(b)
  <1>1. /\ objs \in Seq(Object) /\ Len(objs) \in Nat /\ DOMAIN objs = 1..Len(objs)
        /\ \A o \in DOMAIN objs : objs[o].cache \in 0..Len(tups)
    BY ObjectsType DEF ObjectsOK
  <1>2. tups \in Seq(Tuple) /\ Len(tups) \in Nat /\ DOMAIN tups = 1..Len(tups)
    BY TuplesType
  <1> DEFINE new   == Fresh(b)
             objs2 == Append(objs, new)
  <1>3. new \in Object /\ new.cache = 0
    BY DEF Object, Fresh
  <1>4. objs2 = Append(objs, new)
    OBVIOUS
  <1> HIDE DEF new, objs2
  <1>5. /\ objs2 \in Seq(Object) /\ Len(objs2) = Len(objs) + 1 /\ DOMAIN objs2 = 1..(Len(objs) + 1)
        /\ \A o \in 1..Len(objs) : objs2[o] = objs[o]
        /\ objs2[Len(objs) + 1] = new
    BY <1>1, <1>3, <1>4, PushLemma
  <1>6. \A o \in DOMAIN objs : o \in DOMAIN objs2 /\ objs2[o] = objs[o]
    BY <1>1, <1>5
  <1>7. ASSUME NEW o \in DOMAIN objs2
        PROVE  objs2[o].cache \in 0..Len(tups)
    <2>1. o \in DOMAIN objs \/ o = Len(objs) + 1
      BY <1>1, <1>5
    <2>2. QED
      BY <1>1, <1>2, <1>3, <1>5, <1>6, <2>1
  <1>8. Len(objs) + 1 \in 0..Len(objs2) /\ Len(objs2) <= MaxObjects
    BY <1>1, <1>5, PyBrowserAssumption
  <1>9. ObjectsOK(Len(objs) + 1, objs2, tups)
    BY <1>5, <1>7, <1>8 DEF ObjectsOK
  <1>10. \A i \in DOMAIN tups : Holders(objs2, i) = Holders(objs, i)
    <2> SUFFICES ASSUME NEW i \in DOMAIN tups
                 PROVE  Holders(objs2, i) = Holders(objs, i)
      OBVIOUS
    <2>1. i # 0
      BY <1>2
    <2>2. \A o \in DOMAIN objs2 : o \in DOMAIN objs \/ o = Len(objs) + 1
      BY <1>1, <1>5
    <2>3. QED
      BY <1>3, <1>5, <1>6, <2>1, <2>2 DEF Holders
  <1>11. TuplesOK(objs2, tups)
    BY <1>10 DEF TuplesOK
  <1>12. QED
    BY <1>5, <1>6, <1>9, <1>11 DEF new, objs2

\* The tuples once an object's reference to one of them is released.
Released(tups, c) ==
    [i \in DOMAIN tups |-> [tups[i] EXCEPT !.refs = IF i = c THEN @ - 1 ELSE @]]

\* __init__ once more releases the object's own reference to its tuple.
LEMMA ReinitKeeps ==
    ASSUME NEW x, NEW objs, NEW tups, ObjectsOK(x, objs, tups), TuplesOK(objs, tups),
           x \in DOMAIN objs, NEW b \in Natives
    PROVE  LET objs2 == [objs EXCEPT ![x] = Fresh(b)]
               tups2 == Released(tups, objs[x].cache)
           IN /\ ObjectsOK(x, objs2, tups2) /\ TuplesOK(objs2, tups2)
              /\ DOMAIN objs2 = DOMAIN objs
              /\ \A o \in DOMAIN objs :
                    objs2[o] = IF o = x THEN Fresh(b) ELSE objs[o]
              /\ \A i \in DOMAIN tups : tups2[i].items = tups[i].items
  <1> DEFINE objs2 == [objs EXCEPT ![x] = Fresh(b)]
             tups2 == Released(tups, objs[x].cache)
  <1>0. /\ objs2 = [objs EXCEPT ![x] = Fresh(b)]
        /\ tups2 = Released(tups, objs[x].cache)
    OBVIOUS
  <1> HIDE DEF objs2, tups2
  <1>1. /\ objs \in Seq(Object) /\ Len(objs) \in Nat /\ DOMAIN objs = 1..Len(objs)
        /\ \A o \in DOMAIN objs : objs[o].cache \in 0..Len(tups)
        /\ Len(objs) <= MaxObjects /\ x \in 0..Len(objs) /\ x \in 1..Len(objs)
    BY ObjectsType DEF ObjectsOK
  <1>2. /\ tups \in Seq(Tuple) /\ Len(tups) \in Nat /\ DOMAIN tups = 1..Len(tups)
        /\ \A i \in DOMAIN tups : tups[i] \in Tuple
    BY TuplesType
  <1> DEFINE new == Fresh(b)
  <1>3. new \in Object /\ new.cache = 0
    BY DEF Object, Fresh
  <1>4. /\ objs2 \in Seq(Object) /\ Len(objs2) = Len(objs)
        /\ \A o \in 1..Len(objs) : objs2[o] = IF o = x THEN new ELSE objs[o]
    <2>1. objs \in Seq(Object) /\ new \in Object /\ x \in 1..Len(objs)
      BY <1>1, <1>3
    <2>2. objs2 = [objs EXCEPT ![x] = new]
      BY <1>0
    <2> HIDE DEF new
    <2>3. /\ [objs EXCEPT ![x] = new] \in Seq(Object)
          /\ Len([objs EXCEPT ![x] = new]) = Len(objs)
          /\ \A o \in 1..Len(objs) : [objs EXCEPT ![x] = new][o] = IF o = x THEN new ELSE objs[o]
      BY <2>1, ExceptSeq
    <2>4. QED
      BY <2>2, <2>3
  <1> HIDE DEF new
  <1>5. DOMAIN objs2 = DOMAIN objs /\ \A o \in DOMAIN objs : objs2[o] = IF o = x THEN new ELSE objs[o]
    BY <1>1, <1>4, LenProperties
  <1>6. ASSUME NEW i \in DOMAIN tups
        PROVE  /\ tups2[i] \in Tuple /\ tups2[i].items = tups[i].items
               /\ tups2[i].refs >= tups2[i].owned + Cardinality(Holders(objs2, i))
    <2>1. i # 0 /\ tups[i] \in Tuple
      BY <1>2
    <2>2. PICK r \in Nat, w \in Nat, h \in Nat :
              r = tups[i].refs /\ w = tups[i].owned /\ h = Cardinality(Holders(objs, i)) /\ r >= w + h
      BY <1>1, <2>1, HoldersFinite DEF TuplesOK, Tuple
    <2>3. CASE i = objs[x].cache
      <3>1. Holders(objs2, i) = Holders(objs, i) \ {x}
        BY <1>3, <1>5, <2>1 DEF Holders
      <3>2. x \in Holders(objs, i) /\ IsFiniteSet(Holders(objs, i))
        BY <1>1, <2>3, HoldersFinite DEF Holders
      <3>3. Cardinality(Holders(objs2, i)) = h - 1 /\ Cardinality(Holders(objs2, i)) \in Nat
        <4>1. Cardinality(Holders(objs, i) \ {x}) = Cardinality(Holders(objs, i)) - 1
          BY <3>2, FS_RemoveElement
        <4>2. Cardinality(Holders(objs2, i)) \in Nat
          BY <1>4, HoldersFinite
        <4>3. QED
          BY <2>2, <3>1, <4>1, <4>2
      <3>4. tups2[i] = [tups[i] EXCEPT !.refs = r - 1] /\ r - 1 \in Nat
        BY <1>0, <2>2, <2>3, <3>3 DEF Released
      <3>5. /\ tups2[i] \in Tuple /\ tups2[i].items = tups[i].items
            /\ tups2[i].refs = r - 1 /\ tups2[i].owned = w
        BY <2>1, <2>2, <3>4 DEF Tuple
      <3>6. QED
        BY <2>2, <3>3, <3>5
    <2>4. CASE i # objs[x].cache
      <3>1. Holders(objs2, i) = Holders(objs, i)
        BY <1>3, <1>5, <2>1, <2>4 DEF Holders
      <3>2. tups2[i] = [tups[i] EXCEPT !.refs = r]
        BY <1>0, <2>2, <2>4 DEF Released
      <3>3. /\ tups2[i] \in Tuple /\ tups2[i].items = tups[i].items
            /\ tups2[i].refs = r /\ tups2[i].owned = w
        BY <2>1, <2>2, <3>2 DEF Tuple
      <3>4. QED
        BY <2>2, <3>1, <3>3
    <2>5. QED
      BY <2>3, <2>4
  <1>7. tups2 \in [1..Len(tups) -> Tuple]
    BY <1>0, <1>2, <1>6 DEF Released
  <1>8. tups2 \in Seq(Tuple) /\ Len(tups2) = Len(tups) /\ DOMAIN tups2 = 1..Len(tups)
    BY <1>2, <1>7, FunctionIsSeq
  <1>9. TuplesOK(objs2, tups2)
    BY <1>2, <1>6, <1>8 DEF TuplesOK
  <1>10. ObjectsOK(x, objs2, tups2)
    <2>1. \A o \in DOMAIN objs2 : objs2[o].cache \in 0..Len(tups2)
      BY <1>1, <1>2, <1>3, <1>5, <1>8
    <2>2. QED
      BY <1>1, <1>4, <2>1 DEF ObjectsOK
  <1>11. QED
    BY <1>0, <1>5, <1>6, <1>9, <1>10 DEF new, objs2, tups2

\* A failing conversion takes an object's tuple away, and no reference to it.
LEMMA OverwriteKeeps ==
    ASSUME NEW x, NEW tups, ObjectsOK(x, objects, tups), TuplesOK(objects, tups),
           NEW o \in DOMAIN objects
    PROVE  /\ ObjectsOK(x, Overwritten(o), tups) /\ TuplesOK(Overwritten(o), tups)
           /\ DOMAIN Overwritten(o) = DOMAIN objects
           /\ \A p \in DOMAIN objects :
                 /\ Overwritten(o)[p].browser = objects[p].browser
                 /\ Overwritten(o)[p].cache = IF p = o THEN 0 ELSE objects[p].cache
                 /\ Walked(objects[p]) => Walked(Overwritten(o)[p])
  <1>1. /\ objects \in Seq(Object) /\ Len(objects) \in Nat /\ DOMAIN objects = 1..Len(objects)
        /\ \A p \in DOMAIN objects : objects[p] \in Object
        /\ \A p \in DOMAIN objects : objects[p].cache \in 0..Len(tups)
        /\ Len(objects) <= MaxObjects /\ x \in 0..Len(objects)
    BY ObjectsType DEF ObjectsOK
  <1>2. tups \in Seq(Tuple) /\ Len(tups) \in Nat /\ DOMAIN tups = 1..Len(tups)
    BY TuplesType
  <1>3. PICK b \in BOOLEAN : b = (objects[o].lost \/ objects[o].cache # 0)
    OBVIOUS
  <1> DEFINE new == [browser |-> objects[o].browser, cache |-> 0, lost |-> b]
  <1>4. new \in Object /\ new.browser = objects[o].browser /\ new.cache = 0
    BY <1>1 DEF Object
  <1>5. Overwritten(o) = [objects EXCEPT ![o] = new]
    <2>1. objects[o] \in Object
      BY <1>1
    <2>2. [objects[o] EXCEPT !.cache = 0, !.lost = b] = new
      BY <2>1, ObjectExcept
    <2>3. Overwritten(o) = [objects EXCEPT ![o] = [objects[o] EXCEPT !.cache = 0, !.lost = b]]
      BY <1>3 DEF Overwritten, Cache
    <2>4. QED
      BY <2>2, <2>3
  <1>6. Walked(objects[o]) => Walked(new)
    BY <1>3 DEF Walked
  <1> HIDE DEF new
  <1>7. /\ Overwritten(o) \in Seq(Object) /\ Len(Overwritten(o)) = Len(objects)
        /\ \A p \in 1..Len(objects) : Overwritten(o)[p] = IF p = o THEN new ELSE objects[p]
    BY <1>1, <1>4, <1>5, ExceptSeq
  <1>8. DOMAIN Overwritten(o) = DOMAIN objects
    BY <1>1, <1>7, LenProperties
  <1>9. \A p \in DOMAIN objects :
            /\ Overwritten(o)[p].browser = objects[p].browser
            /\ Overwritten(o)[p].cache = IF p = o THEN 0 ELSE objects[p].cache
            /\ Walked(objects[p]) => Walked(Overwritten(o)[p])
    BY <1>1, <1>4, <1>6, <1>7
  <1>10. ObjectsOK(x, Overwritten(o), tups)
    <2>1. \A p \in DOMAIN objects : Overwritten(o)[p].cache \in 0..Len(tups)
      BY <1>1, <1>2, <1>9
    <2>2. QED
      BY <1>1, <1>7, <1>8, <2>1 DEF ObjectsOK
  <1>11. ASSUME NEW i \in DOMAIN tups
         PROVE  tups[i].refs >= tups[i].owned + Cardinality(Holders(Overwritten(o), i))
    <2>1. i # 0 /\ tups[i] \in Tuple
      BY <1>2, ElementOfSeq
    <2>2. Holders(Overwritten(o), i) \subseteq Holders(objects, i)
      BY <1>8, <1>9, <2>1 DEF Holders
    <2>3. IsFiniteSet(Holders(objects, i)) /\ Cardinality(Holders(objects, i)) \in Nat
      BY <1>1, HoldersFinite
    <2>4. /\ Cardinality(Holders(Overwritten(o), i)) <= Cardinality(Holders(objects, i))
          /\ Cardinality(Holders(Overwritten(o), i)) \in Nat
      BY <1>7, <2>2, <2>3, FS_Subset, HoldersFinite
    <2>5. PICK n \in Nat, w \in Nat : n = tups[i].refs /\ w = tups[i].owned
      BY <2>1 DEF Tuple
    <2>6. n >= w + Cardinality(Holders(objects, i))
      BY <2>5 DEF TuplesOK
    <2>7. QED
      BY <2>3, <2>4, <2>5, <2>6
  <1>12. TuplesOK(Overwritten(o), tups)
    BY <1>2, <1>11 DEF TuplesOK
  <1>13. QED
    BY <1>8, <1>9, <1>10, <1>12

-----------------------------------------------------------------------------
(* The ways in which a call goes on or ends keep the invariant. *)

\* The objects as a step leaves them still have their C++ browsers.
SameBrowsers(objs) ==
    /\ DOMAIN objs = DOMAIN objects
    /\ \A o \in DOMAIN objects : objs[o].browser = objects[o].browser

LEMMA CrashKeeps ==
    ASSUME CoreInv, NEW fault \in Faults, Crash(fault)
    PROVE  CoreInv'
  BY DEF CoreInv, Crash

LEMMA ContinueKeeps ==
    ASSUME CoreInv, NEW t \in Threads, Depth(t) > 0,
           NEW f \in Frame, CallOK(f), f.obj = Top(t).obj, Continue(t, f)
    PROVE  CoreInv'
  <1>1. /\ FramesOK(stack, objects) /\ stack \in [Threads -> Seq(Frame)] /\ stack[t] # << >>
        /\ Top(t).obj \in DOMAIN objects /\ objects[Top(t).obj].browser # 0
    BY TopFrame DEF CoreInv, SettledOK, FramesOK
  <1>2. Replace(t, f) \in [Threads -> Seq(Frame)] /\ Within(Replace(t, f), stack, f)
    BY <1>1, ReplaceFrames
  <1>3. FramesOK(Replace(t, f), objects)
    BY <1>1, <1>2, FramesAfter
  <1>4. stack' = Replace(t, f) /\ UNCHANGED <<extern, objects, tuples, made, destroyed, answer, calls, crashed>>
    BY DEF Continue
  <1>5. FramesOK(stack', objects')
    BY <1>3, <1>4
  <1>6. QED
    BY <1>4, <1>5 DEF CoreInv, SettledOK

LEMMA ReturnKeeps ==
    ASSUME CoreInv, NEW t \in Threads, Depth(t) > 0, NEW kind \in Kinds, NEW objs, NEW tups,
           ReturnWith(t, kind, objs, tups),
           ObjectsOK(extern, objs, tups), TuplesOK(objs, tups), SameBrowsers(objs)
    PROVE  CoreInv'
  <1>1. /\ FramesOK(stack, objects) /\ stack \in [Threads -> Seq(Frame)] /\ stack[t] # << >>
    BY TopFrame DEF CoreInv, SettledOK, FramesOK
  <1>2. /\ Pop(t) \in [Threads -> Seq(Frame)]
        /\ \A u \in Threads : \A d \in DOMAIN Pop(t)[u] :
              \E e \in DOMAIN stack[u] : Pop(t)[u][d] = stack[u][e]
    BY <1>1, PopFrames
  <1>3. FramesOK(Pop(t), objs)
    <2>1. ASSUME NEW u \in Threads, NEW d \in DOMAIN Pop(t)[u]
          PROVE  /\ CallOK(Pop(t)[u][d])
                 /\ Pop(t)[u][d].obj \in DOMAIN objs
                 /\ objs[Pop(t)[u][d].obj].browser # 0
      <3>1. PICK e \in DOMAIN stack[u] : Pop(t)[u][d] = stack[u][e]
        BY <1>2
      <3>2. QED
        BY <1>1, <3>1 DEF FramesOK, SameBrowsers
    <2>2. QED
      BY <1>2, <2>1 DEF FramesOK
  <1>4. SettledOK(extern, Pop(t), objs, tups, destroyed)
    BY <1>3 DEF CoreInv, SettledOK
  <1>5. /\ Settle(extern, Pop(t), objs, tups, destroyed)
        /\ answer' = [answer EXCEPT ![t] = kind]
        /\ UNCHANGED <<made, calls, crashed>>
    BY DEF ReturnWith
  <1>6. SettledOK(extern', stack', objects', tuples', destroyed') /\ destroyed' \subseteq Natives
    BY <1>4, <1>5, SettleKeeps
  <1>7. QED
    BY <1>5, <1>6 DEF CoreInv

LEMMA PlainReturnKeeps ==
    ASSUME CoreInv, NEW t \in Threads, Depth(t) > 0, NEW kind \in Kinds, Return(t, kind)
    PROVE  CoreInv'
  <1>1. ReturnWith(t, kind, objects, tuples) /\ SameBrowsers(objects)
    BY DEF Return, SameBrowsers
  <1>2. ObjectsOK(extern, objects, tuples) /\ TuplesOK(objects, tuples)
    BY DEF CoreInv, SettledOK
  <1>3. QED
    BY <1>1, <1>2, ReturnKeeps

\* A call that stores its list and returns.
LEMMA StoreReturnKeeps ==
    ASSUME CoreInv, NEW t \in Threads, Depth(t) > 0, NEW kind \in Kinds,
           NEW items \in Seq(Item), NEW o, o = Top(t).obj,
           NEW tups, TuplesOK(Stored(objects, o, Len(tuples) + 1), tups),
           Len(tups) = Len(tuples) + 1,
           ReturnWith(t, kind, Stored(objects, o, Len(tuples) + 1), tups)
    PROVE  CoreInv'
  <1>1. ObjectsOK(extern, objects, tuples) /\ TuplesOK(objects, tuples) /\ o \in DOMAIN objects
    BY TopFrame DEF CoreInv, SettledOK
  <1> DEFINE i    == Len(tuples) + 1
             objs == Stored(objects, o, i)
             more == Append(tuples, Cached(items))
  <1>2. /\ ObjectsOK(extern, objs, more) /\ Len(more) = Len(tuples) + 1
        /\ DOMAIN objs = DOMAIN objects
        /\ \A p \in DOMAIN objects : objs[p].browser = objects[p].browser
    BY <1>1, StoreKeeps
  <1>3. ReturnWith(t, kind, objs, tups) /\ TuplesOK(objs, tups)
    OBVIOUS
  <1> HIDE DEF i, objs, more
  <1>4. ObjectsOK(extern, objs, tups) /\ SameBrowsers(objs)
    BY <1>2 DEF ObjectsOK, SameBrowsers
  <1>5. QED
    BY <1>3, <1>4, ReturnKeeps

\* A call that begins has shown and listed nothing.
LEMMA NewFrame ==
    ASSUME CoreInv, NEW op \in Ops, extern # 0, objects[extern].browser # 0,
           op = "walk" => objects[extern].cache # 0
    PROVE  /\ New(op, extern) \in Frame /\ CallOK(New(op, extern))
           /\ New(op, extern).obj = extern /\ extern \in DOMAIN objects
           /\ New(op, extern).op = op
           /\ New(op, extern).native = objects[extern].browser
           /\ New(op, extern).seen = << >>
           /\ op = "walk" => New(op, extern).size = Len(tuples[objects[extern].cache].items)
  <1>1. /\ DOMAIN objects = 1..Len(objects) /\ Len(objects) \in Nat /\ extern \in 0..Len(objects)
        /\ Len(objects) <= MaxObjects
        /\ \A o \in DOMAIN objects : objects[o] \in Object /\ objects[o].cache \in 0..Len(tuples)
    BY ObjectsType DEF CoreInv, SettledOK, ObjectsOK
  <1>2. extern \in DOMAIN objects /\ extern \in 1..MaxObjects
    BY <1>1, PyBrowserAssumption
  <1>3. PICK n \in Natives : n = objects[extern].browser
    BY <1>1, <1>2 DEF Object
  <1> DEFINE size == IF op = "walk" THEN Len(tuples[objects[extern].cache].items) ELSE 0
  <1>4. size \in Nat
    <2>1. CASE op = "walk"
      <3>1. /\ DOMAIN tuples = 1..Len(tuples) /\ Len(tuples) \in Nat
            /\ \A i \in DOMAIN tuples : tuples[i] \in Tuple
        BY TuplesType DEF CoreInv, SettledOK
      <3>2. objects[extern].cache \in DOMAIN tuples
        BY <1>1, <1>2, <2>1, <3>1
      <3>3. tuples[objects[extern].cache].items \in Seq(Item)
        BY <3>1, <3>2 DEF Tuple
      <3>4. QED
        BY <2>1, <3>3, LenProperties
    <2>2. CASE op # "walk"
      BY <2>2
    <2>3. QED
      BY <2>1, <2>2
  <1>5. New(op, extern) = [op |-> op, obj |-> extern, native |-> n, size |-> size,
                           list |-> << >>, seen |-> << >>, keep |-> TRUE,
                           said |-> TRUE, inside |-> FALSE]
    BY <1>3 DEF New
  <1> HIDE DEF size
  <1>6. << >> \in Seq(Item) /\ Prefix(<< >>, n) /\ Len(<< >>) = 0
    BY <1>3, PrefixNone
  <1>7. New(op, extern) \in Frame
    BY <1>2, <1>3, <1>4, <1>5, <1>6 DEF Frame
  <1>8. CallOK(New(op, extern))
    BY <1>5, <1>6 DEF CallOK, EachOK
  <1>9. QED
    BY <1>2, <1>3, <1>5, <1>7, <1>8 DEF size

LEMMA BeginKeeps ==
    ASSUME CoreInv, NEW t \in Threads, NEW op \in Ops, Begin(t, op),
           extern # 0, objects[extern].browser # 0, op = "walk" => objects[extern].cache # 0,
           calls < MaxCalls
    PROVE  CoreInv'
  <1>1. /\ New(op, extern) \in Frame /\ CallOK(New(op, extern))
        /\ New(op, extern).obj = extern /\ extern \in DOMAIN objects
    BY NewFrame
  <1>2. FramesOK(stack, objects) /\ stack \in [Threads -> Seq(Frame)]
    BY DEF CoreInv, SettledOK, FramesOK
  <1>3. PICK f \in Frame : f = New(op, extern)
    BY <1>1
  <1>4. Push(t, f) \in [Threads -> Seq(Frame)] /\ Within(Push(t, f), stack, f)
    BY <1>2, PushFrames
  <1>5. FramesOK(Push(t, f), objects)
    BY <1>1, <1>2, <1>3, <1>4, FramesAfter
  <1>6. /\ stack' = Push(t, f)
        /\ calls' = calls + 1 /\ answer' = [answer EXCEPT ![t] = "none"]
        /\ UNCHANGED <<extern, objects, tuples, made, destroyed, crashed>>
    BY <1>3 DEF Begin, Started
  <1>7. FramesOK(stack', objects')
    BY <1>5, <1>6
  <1>8. calls' \in 0..MaxCalls /\ answer' \in [Threads -> Kinds]
    BY <1>6, PyBrowserAssumption DEF CoreInv, Kinds
  <1>9. QED
    BY <1>6, <1>7, <1>8 DEF CoreInv, SettledOK

-----------------------------------------------------------------------------
(* Each step keeps the invariant. *)

\* The frame of the call that runs.
LEMMA TopOK ==
    ASSUME CoreInv, NEW t \in Threads, Depth(t) > 0
    PROVE  /\ Top(t) \in Frame /\ CallOK(Top(t))
           /\ Top(t).native \in Natives /\ Top(t).list \in Seq(Item) /\ Top(t).seen \in Seq(Item)
           /\ Prefix(Top(t).list, Top(t).native)
           /\ Top(t).obj \in DOMAIN objects /\ objects[Top(t).obj].browser # 0
  <1>1. /\ Top(t) \in Frame /\ CallOK(Top(t))
        /\ Top(t).obj \in DOMAIN objects /\ objects[Top(t).obj].browser # 0
    BY TopFrame DEF CoreInv, SettledOK
  <1>2. QED
    BY <1>1 DEF CallOK, Frame

LEMMA GetConvertKeeps ==
    ASSUME CoreInv, NEW t \in Threads, GetConvert(t)
    PROVE  CoreInv'
  <1>1. Depth(t) > 0 /\ Top(t).op \in {"get", "iter", "find"} /\ ~AllListed(Top(t))
    BY DEF GetConvert, Runs
  <1>2. PICK f \in Frame : f = Top(t) /\ CallOK(f) /\ Prefix(f.list, f.native)
    BY <1>1, TopOK
  <1>3. CASE Continue(t, [Top(t) EXCEPT !.list = Append(@, NextItem(Top(t)))])
    <2>1. /\ Append(f.list, NextItem(f)) \in Seq(Item)
          /\ Prefix(Append(f.list, NextItem(f)), f.native)
      BY <1>1, <1>2, PrefixGrow DEF NextItem, AllListed, Frame
    <2>2. PICK l \in Seq(Item) : l = Append(f.list, NextItem(f)) /\ Prefix(l, f.native)
      BY <2>1
    <2>3. PICK g : g = [f EXCEPT !.list = l]
      OBVIOUS
    <2>4. g \in Frame /\ g.obj = f.obj
      BY <2>2, <2>3 DEF Frame
    <2>5. CallOK(g)
      BY <1>1, <1>2, <2>2, <2>3 DEF CallOK, Frame
    <2>6. Continue(t, g)
      BY <1>2, <1>3, <2>2, <2>3
    <2>7. QED
      BY <1>1, <1>2, <2>4, <2>5, <2>6, ContinueKeeps
  <1>4. CASE ReturnWith(t, "failed", Overwritten(f.obj), tuples)
    <2>1. /\ ObjectsOK(extern, objects, tuples) /\ TuplesOK(objects, tuples)
          /\ f.obj \in DOMAIN objects
      BY <1>1, <1>2, TopOK DEF CoreInv, SettledOK
    <2>2. /\ ObjectsOK(extern, Overwritten(f.obj), tuples) /\ TuplesOK(Overwritten(f.obj), tuples)
          /\ SameBrowsers(Overwritten(f.obj))
      BY <2>1, OverwriteKeeps DEF SameBrowsers
    <2>3. QED
      BY <1>1, <1>4, <2>2, ReturnKeeps DEF Kinds
  <1>5. CASE Crash("iter")
    BY <1>5, CrashKeeps DEF Faults
  <1>6. QED
    BY <1>2, <1>3, <1>4, <1>5 DEF GetConvert

LEMMA GetFinishKeeps ==
    ASSUME CoreInv, NEW t \in Threads, GetFinish(t)
    PROVE  CoreInv'
  <1>1. Depth(t) > 0 /\ Top(t).op \in {"get", "iter", "find"}
    BY DEF GetFinish, Runs
  <1>2. PICK f \in Frame : f = Top(t)
    BY <1>1, TopOK
  <1>3. /\ CallOK(f) /\ f.native \in Natives /\ f.list \in Seq(Item) /\ f.seen \in Seq(Item)
        /\ f.obj \in DOMAIN objects /\ objects[f.obj].browser # 0
    BY <1>1, <1>2, TopOK
  <1>4. ObjectsOK(extern, objects, tuples) /\ TuplesOK(objects, tuples) /\ FramesOK(stack, objects)
        /\ stack \in [Threads -> Seq(Frame)] /\ stack[t] # << >>
    BY <1>1, TopFrame DEF CoreInv, SettledOK, FramesOK
  <1> DEFINE i    == Len(tuples) + 1
             objs == Stored(objects, f.obj, i)
             tups == Append(tuples, Cached(f.list))
             g    == [f EXCEPT !.op = "item", !.list = << >>, !.native = objects[f.obj].browser]
  <1>5. /\ ObjectsOK(extern, objs, tups) /\ TuplesOK(objs, tups)
        /\ i \in DOMAIN tups /\ Len(tups) = Len(tuples) + 1
        /\ DOMAIN objs = DOMAIN objects
        /\ \A p \in DOMAIN objects : objs[p].browser = objects[p].browser
    BY <1>3, <1>4, StoreKeeps
  <1>6. \/ ReturnWith(t, "done", objs, Given(f.op, tups, i))
        \/ /\ f.op = "find"
           /\ Settle(extern, Replace(t, g), objs, tups, destroyed)
           /\ UNCHANGED <<made, answer, calls, crashed>>
    BY <1>2 DEF GetFinish, Stored
  <1>7. CASE ReturnWith(t, "done", objs, Given(f.op, tups, i))
    <2> HIDE DEF tups
    <2>1. objs \in Seq(Object)
      BY <1>5 DEF ObjectsOK
    <2>2. TuplesOK(objs, Given(f.op, tups, i)) /\ Len(Given(f.op, tups, i)) = Len(tuples) + 1
      BY <1>5, <2>1, GivenKeeps
    <2>3. QED
      BY <1>1, <1>2, <1>3, <1>7, <2>2, StoreReturnKeeps DEF Kinds
  <1>8. CASE /\ f.op = "find"
             /\ Settle(extern, Replace(t, g), objs, tups, destroyed)
             /\ UNCHANGED <<made, answer, calls, crashed>>
    <2>1. PICK n \in Natives : n = objects[f.obj].browser
      BY <1>3, <1>4, ObjectsType DEF Object
    <2>2. << >> \in Seq(Item) /\ Prefix(<< >>, n)
      BY PrefixNone
    <2>3. /\ g \in Frame /\ g.obj = f.obj /\ g.op = "item" /\ g.list = << >> /\ g.native = n
          /\ g.seen = f.seen /\ g.inside = f.inside /\ g.keep = f.keep /\ g.said = f.said
      BY <2>1, <2>2 DEF Frame, Ops
    <2>4. CallOK(g)
      BY <1>3, <1>8, <2>2, <2>3 DEF CallOK
    <2> HIDE DEF g, objs, tups
    <2>5. Replace(t, g) \in [Threads -> Seq(Frame)] /\ Within(Replace(t, g), stack, g)
      BY <1>4, <2>3, ReplaceFrames
    <2>6. FramesOK(Replace(t, g), objects)
      BY <1>3, <1>4, <2>3, <2>4, <2>5, FramesAfter
    <2>7. FramesOK(Replace(t, g), objs)
      BY <1>5, <2>6 DEF FramesOK
    <2>8. SettledOK(extern, Replace(t, g), objs, tups, destroyed)
      BY <1>5, <2>7 DEF CoreInv, SettledOK
    <2>9. SettledOK(extern', stack', objects', tuples', destroyed') /\ destroyed' \subseteq Natives
      BY <1>8, <2>8, SettleKeeps
    <2>10. QED
      BY <1>8, <2>9 DEF CoreInv
  <1>9. QED
    BY <1>6, <1>7, <1>8

LEMMA ItemConvertKeeps ==
    ASSUME CoreInv, NEW t \in Threads, ItemConvert(t)
    PROVE  CoreInv'
  <1>1. Depth(t) > 0
    BY DEF ItemConvert, Runs
  <1>2. CASE Crash("destroyed")
    BY <1>2, CrashKeeps DEF Faults
  <1>3. CASE \E kind \in {"done", "failed"} : Return(t, kind)
    BY <1>1, <1>3, PlainReturnKeeps DEF Kinds
  <1>4. QED
    BY <1>2, <1>3 DEF ItemConvert

LEMMA EachConvertKeeps ==
    ASSUME CoreInv, NEW t \in Threads, EachConvert(t)
    PROVE  CoreInv'
  <1>1. Depth(t) > 0 /\ Top(t).op = "each" /\ ~Top(t).inside
    BY DEF EachConvert, Runs
  <1>2. PICK f \in Frame : f = Top(t)
    BY <1>1, TopOK
  <1>3. /\ CallOK(f) /\ f.native \in Natives /\ f.list \in Seq(Item) /\ f.seen \in Seq(Item)
        /\ Prefix(f.list, f.native) /\ f.op = "each" /\ f.inside = FALSE
    BY <1>1, <1>2, TopOK DEF Frame
  <1>4. EachOK(f) /\ Prefix(f.seen, f.native)
    BY <1>3 DEF CallOK, EachOK
  <1>5. CASE ~AllListed(f) /\ f.keep /\ CallFunction(t, NextItem(f), f)
    <2>1. Len(f.list) < Sizes[f.native] /\ Len(f.seen) = Len(f.list) /\ Len(f.list) \in Nat
      <3>1. Len(f.list) \in 0..Sizes[f.native] /\ Len(f.list) # Sizes[f.native] /\ Sizes[f.native] \in Nat
        BY <1>3, <1>5, ListedType DEF AllListed, Prefix
      <3>2. (IF f.inside THEN 1 ELSE 0) = 0
        BY <1>3, Zenon
      <3>3. Len(f.seen) = Len(f.list) + 0
        BY <1>4, <1>5, <3>2, Zenon DEF EachOK
      <3>4. QED
        BY <3>1, <3>2, <3>3
    <2>2. PICK s \in Seq(Item) : /\ s = Append(f.seen, NextItem(f)) /\ Prefix(s, f.native)
                                  /\ Len(s) = Len(f.list) + 1
      <3>1. Len(f.seen) # Sizes[f.native] /\ NextItem(f) = Listed(f.native)[Len(f.seen) + 1]
        BY <1>3, <2>1, ListedType DEF NextItem
      <3>2. /\ Append(f.seen, NextItem(f)) \in Seq(Item)
            /\ Len(Append(f.seen, NextItem(f))) = Len(f.seen) + 1
            /\ Prefix(Append(f.seen, NextItem(f)), f.native)
        BY <1>3, <1>4, <3>1, PrefixGrow
      <3>3. QED
        BY <2>1, <3>2
    <2>3. PICK g : g = [f EXCEPT !.seen = s, !.inside = TRUE]
      OBVIOUS
    <2>4. /\ g \in Frame /\ g.obj = f.obj /\ g.op = "each" /\ g.native = f.native
          /\ g.list = f.list /\ g.seen = s /\ g.keep = f.keep /\ g.said = f.said /\ g.inside = TRUE
      BY <1>3, <2>2, <2>3 DEF Frame
    <2>5. EachOK(g)
      BY <1>4, <1>5, <2>1, <2>2, <2>4 DEF EachOK
    <2>6. CallOK(g)
      BY <1>3, <2>4, <2>5 DEF CallOK
    <2>7. Continue(t, g)
      BY <1>5, <2>2, <2>3 DEF CallFunction, Shown
    <2>8. QED
      BY <1>1, <1>2, <2>4, <2>6, <2>7, ContinueKeeps
  <1>6. CASE ~AllListed(f) /\ ~f.keep /\ Continue(t, [f EXCEPT !.list = Append(@, NextItem(f))])
    <2>1. PICK l \in Seq(Item) : l = Append(f.list, NextItem(f)) /\ Prefix(l, f.native)
      BY <1>3, <1>6, PrefixGrow DEF NextItem, AllListed
    <2>2. PICK g : g = [f EXCEPT !.list = l]
      OBVIOUS
    <2>3. /\ g \in Frame /\ g.obj = f.obj /\ g.op = "each" /\ g.native = f.native
          /\ g.list = l /\ g.seen = f.seen /\ g.keep = f.keep /\ g.said = f.said /\ g.inside = FALSE
      BY <1>3, <2>1, <2>2 DEF Frame
    <2>4. EachOK(g)
      BY <1>4, <1>6, <2>3 DEF EachOK
    <2>5. CallOK(g)
      BY <2>1, <2>3, <2>4 DEF CallOK
    <2>6. Continue(t, g)
      BY <1>6, <2>1, <2>2
    <2>7. QED
      BY <1>1, <1>2, <2>3, <2>5, <2>6, ContinueKeeps
  <1>7. CASE Return(t, "failed")
    BY <1>1, <1>7, PlainReturnKeeps DEF Kinds
  <1>8. CASE Crash("destroyed")
    BY <1>8, CrashKeeps DEF Faults
  <1>9. QED
    BY <1>2, <1>5, <1>6, <1>7, <1>8 DEF EachConvert

LEMMA EachAnswerKeeps ==
    ASSUME CoreInv, NEW t \in Threads, EachAnswer(t)
    PROVE  CoreInv'
  <1>1. Depth(t) > 0 /\ Top(t).op = "each" /\ Top(t).inside
    BY DEF EachAnswer
  <1>2. PICK f \in Frame : f = Top(t)
    BY <1>1, TopOK
  <1>3. /\ CallOK(f) /\ f.native \in Natives /\ f.list \in Seq(Item) /\ f.seen \in Seq(Item)
        /\ Prefix(f.list, f.native) /\ f.op = "each" /\ f.inside = TRUE
    BY <1>1, <1>2, TopOK DEF Frame
  <1>4. EachOK(f) /\ Prefix(f.seen, f.native) /\ Len(f.list) \in Nat
        /\ Len(f.list) < Sizes[f.native] /\ Len(f.seen) = Len(f.list) + 1
    <2>1. EachOK(f)
      BY <1>3 DEF CallOK
    <2>2. Prefix(f.seen, f.native) /\ Len(f.list) < Sizes[f.native] /\ f.keep
      BY <1>3, <2>1 DEF EachOK
    <2>3. Len(f.seen) = Len(f.list) + 1
      BY <1>3, <2>1, <2>2 DEF EachOK
    <2>4. QED
      BY <1>3, <2>1, <2>2, <2>3, LenProperties
  <1>5. ASSUME NEW said \in BOOLEAN,
               Continue(t, [f EXCEPT !.inside = FALSE, !.said = said, !.keep = said,
                                     !.list = Append(@, NextItem(f))])
        PROVE  CoreInv'
    <2>1. PICK l \in Seq(Item) : /\ l = Append(f.list, NextItem(f)) /\ Prefix(l, f.native)
                                  /\ Len(l) = Len(f.list) + 1
      <3>1. Len(f.list) # Sizes[f.native]
        BY <1>3, <1>4, ListedType
      <3>2. /\ Append(f.list, NextItem(f)) \in Seq(Item)
            /\ Len(Append(f.list, NextItem(f))) = Len(f.list) + 1
            /\ Prefix(Append(f.list, NextItem(f)), f.native)
        BY <1>3, <3>1, PrefixGrow DEF NextItem
      <3>3. QED
        BY <3>2
    <2>2. PICK g : g = [f EXCEPT !.inside = FALSE, !.said = said, !.keep = said, !.list = l]
      OBVIOUS
    <2>3. /\ g \in Frame /\ g.obj = f.obj /\ g.op = "each" /\ g.native = f.native
          /\ g.list = l /\ g.seen = f.seen /\ g.keep = said /\ g.said = said /\ g.inside = FALSE
      BY <1>3, <2>1, <2>2 DEF Frame
    <2>4. f.seen # << >>
      <3>1. Len(<< >>) = 0
        BY EmptySeq
      <3>2. QED
        BY <1>4, <3>1
    <2>5. EachOK(g)
      <3>1. g.keep => Len(g.seen) = Len(g.list) + (IF g.inside THEN 1 ELSE 0)
        <4>1. (IF g.inside THEN 1 ELSE 0) = 0
          BY <2>3, Zenon
        <4>2. Len(g.seen) = Len(g.list)
          BY <1>4, <2>1, <2>3
        <4>3. Len(g.list) + 0 = Len(g.list)
          BY <1>4, <2>1, <2>3
        <4>4. QED
          BY <4>1, <4>2, <4>3
      <3>2. QED
        BY <1>4, <2>3, <2>4, <3>1 DEF EachOK
    <2>6. CallOK(g)
      BY <2>1, <2>3, <2>5 DEF CallOK
    <2>7. Continue(t, g)
      BY <1>5, <2>1, <2>2
    <2>8. QED
      BY <1>1, <1>2, <2>3, <2>6, <2>7, ContinueKeeps
  <1>6. CASE Return(t, "failed")
    BY <1>1, <1>6, PlainReturnKeeps DEF Kinds
  <1>7. CASE Crash("raise")
    BY <1>7, CrashKeeps DEF Faults
  <1>8. QED
    BY <1>2, <1>5, <1>6, <1>7 DEF EachAnswer

LEMMA EachFinishKeeps ==
    ASSUME CoreInv, NEW t \in Threads, EachFinish(t)
    PROVE  CoreInv'
  <1>1. Depth(t) > 0 /\ Top(t).op = "each"
    BY DEF EachFinish, Runs
  <1>2. PICK f \in Frame : f = Top(t)
    BY <1>1, TopOK
  <1>3. f.list \in Seq(Item) /\ f.obj \in DOMAIN objects
    BY <1>1, <1>2, TopOK
  <1>4. Verdict(f.keep) \in Kinds
    BY DEF Verdict, Kinds
  <1>5. CASE Return(t, Verdict(f.keep))
    BY <1>1, <1>4, <1>5, PlainReturnKeeps
  <1>6. CASE ReturnWith(t, Verdict(f.keep), Stored(objects, f.obj, Len(tuples) + 1),
                        Append(tuples, Cached(f.list)))
    <2>1. ObjectsOK(extern, objects, tuples) /\ TuplesOK(objects, tuples)
      BY DEF CoreInv, SettledOK
    <2>2. /\ TuplesOK(Stored(objects, f.obj, Len(tuples) + 1), Append(tuples, Cached(f.list)))
          /\ Len(Append(tuples, Cached(f.list))) = Len(tuples) + 1
      BY <1>3, <2>1, StoreKeeps
    <2>3. QED
      BY <1>1, <1>2, <1>3, <1>4, <1>6, <2>2, StoreReturnKeeps
  <1>7. QED
    BY <1>2, <1>5, <1>6 DEF EachFinish, Stored

LEMMA WalkCallKeeps ==
    ASSUME CoreInv, NEW t \in Threads, WalkCall(t)
    PROVE  CoreInv'
  <1>1. Depth(t) > 0 /\ Top(t).op = "walk" /\ ~Top(t).inside
    BY DEF WalkCall, Runs
  <1>2. PICK f \in Frame : f = Top(t)
    BY <1>1, TopOK
  <1>3. /\ CallOK(f) /\ f.native \in Natives /\ f.seen \in Seq(Item) /\ f.op = "walk"
        /\ f.obj \in DOMAIN objects
    BY <1>1, <1>2, TopOK
  <1>4. ASSUME Cache(f.obj) # 0, Len(f.seen) + 1 \in DOMAIN tuples[Cache(f.obj)].items,
               CallFunction(t, tuples[Cache(f.obj)].items[Len(f.seen) + 1], f)
        PROVE  CoreInv'
    <2>1. /\ DOMAIN tuples = 1..Len(tuples) /\ Len(tuples) \in Nat
          /\ \A i \in DOMAIN tuples : tuples[i] \in Tuple
          /\ Cache(f.obj) \in 0..Len(tuples)
      BY <1>3, TuplesType DEF CoreInv, SettledOK, ObjectsOK, Cache
    <2>2. PICK c \in DOMAIN tuples : c = Cache(f.obj)
      BY <1>4, <2>1
    <2>3. PICK items \in Seq(Item) : items = tuples[c].items
      BY <2>1 DEF Tuple
    <2>4. PICK item \in Item : item = items[Len(f.seen) + 1]
      BY <1>4, <2>2, <2>3, LenProperties, ElementOfSeq
    <2>5. PICK s \in Seq(Item) : s = Append(f.seen, item) /\ s # << >>
      <3>1. Append(f.seen, item) \in Seq(Item) /\ Len(Append(f.seen, item)) = Len(f.seen) + 1
        BY <1>3, PushLemma
      <3>2. Len(f.seen) \in Nat
        BY <1>3, LenProperties
      <3>3. Len(<< >>) = 0
        BY EmptySeq
      <3>4. Append(f.seen, item) # << >>
        BY <3>1, <3>2, <3>3
      <3>5. QED
        BY <3>1, <3>4
    <2>6. PICK g : g = [f EXCEPT !.seen = s, !.inside = TRUE]
      OBVIOUS
    <2>7. /\ g \in Frame /\ g.obj = f.obj /\ g.op = "walk" /\ g.native = f.native
          /\ g.list = f.list /\ g.seen = s /\ g.keep = f.keep /\ g.said = f.said /\ g.inside = TRUE
      BY <1>3, <2>5, <2>6 DEF Frame
    <2>8. CallOK(g)
      BY <1>3, <2>5, <2>7 DEF CallOK
    <2>9. Continue(t, g)
      BY <1>4, <2>2, <2>3, <2>4, <2>5, <2>6 DEF CallFunction, Shown
    <2>10. QED
      BY <1>1, <1>2, <2>7, <2>8, <2>9, ContinueKeeps
  <1>5. CASE Return(t, "true") \/ Return(t, "failed")
    BY <1>1, <1>5, PlainReturnKeeps DEF Kinds
  <1>6. CASE Crash("walk")
    BY <1>6, CrashKeeps DEF Faults
  <1>7. QED
    BY <1>2, <1>4, <1>5, <1>6 DEF WalkCall

LEMMA WalkAnswerKeeps ==
    ASSUME CoreInv, NEW t \in Threads, WalkAnswer(t)
    PROVE  CoreInv'
  <1>1. Depth(t) > 0 /\ Top(t).op = "walk"
    BY DEF WalkAnswer
  <1>2. PICK f \in Frame : f = Top(t)
    BY <1>1, TopOK
  <1>3. CallOK(f) /\ f.op = "walk"
    BY <1>1, <1>2, TopOK
  <1>4. CASE Continue(t, [f EXCEPT !.inside = FALSE])
    <2>1. PICK g : g = [f EXCEPT !.inside = FALSE]
      OBVIOUS
    <2>2. /\ g \in Frame /\ g.obj = f.obj /\ g.op = "walk" /\ g.native = f.native
          /\ g.list = f.list /\ g.seen = f.seen /\ g.keep = f.keep /\ g.said = f.said /\ g.inside = FALSE
      BY <1>3, <2>1 DEF Frame
    <2>3. CallOK(g)
      BY <1>3, <2>2 DEF CallOK
    <2>4. QED
      BY <1>1, <1>2, <1>4, <2>1, <2>2, <2>3, ContinueKeeps
  <1>5. CASE Return(t, "false") \/ Return(t, "failed")
    BY <1>1, <1>5, PlainReturnKeeps DEF Kinds
  <1>6. QED
    BY <1>2, <1>4, <1>5 DEF WalkAnswer

LEMMA StartedType ==
    ASSUME CoreInv, NEW t \in Threads, MayCall(t), NEW kind \in Kinds, Started(t, kind)
    PROVE  calls' \in 0..MaxCalls /\ answer' \in [Threads -> Kinds] /\ crashed' \in Faults \union {"no"}
  BY PyBrowserAssumption DEF CoreInv, MayCall, Started

\* A call that is over at once, and leaves the browsers alone.
LEMMA RefusalKeeps ==
    ASSUME CoreInv, NEW t \in Threads, MayCall(t), NEW kind \in Kinds, Started(t, kind),
           UNCHANGED <<extern, objects, tuples, made, destroyed, stack>>
    PROVE  CoreInv'
  BY StartedType DEF CoreInv

LEMMA RefuseKeeps ==
    ASSUME CoreInv, NEW t \in Threads, Refuse(t)
    PROVE  CoreInv'
  <1>1. CASE Started(t, "refused") /\ UNCHANGED <<extern, objects, tuples, made, destroyed, stack>>
    BY <1>1, RefusalKeeps DEF Refuse, Kinds
  <1>2. CASE Crash("iter")
    BY <1>2, CrashKeeps DEF Faults
  <1>3. QED
    BY <1>1, <1>2 DEF Refuse

\* A call that only makes or replaces an object.
LEMMA SettlingKeeps ==
    ASSUME CoreInv, NEW t \in Threads, MayCall(t), Started(t, "done"),
           NEW x, NEW objs, NEW tups, NEW gone,
           SettledOK(x, stack, objs, tups, gone), Settle(x, stack, objs, tups, gone),
           made' \in {0} \union Natives
    PROVE  CoreInv'
  BY StartedType, SettleKeeps DEF CoreInv, Kinds

LEMMA NextNative ==
    ASSUME CoreInv, made < Len(Sizes)
    PROVE  made \in Nat /\ made + 1 \in Natives
  BY PyBrowserAssumption, LenProperties DEF CoreInv, Natives

\* A new object on the end.
LEMMA NewObjectSettled ==
    ASSUME CoreInv, Len(objects) < MaxObjects, NEW b \in {0} \union Natives
    PROVE  SettledOK(Len(objects) + 1, stack, Append(objects, Fresh(b)),
                     tuples, destroyed)
  <1> DEFINE objs == Append(objects, Fresh(b))
  <1>1. /\ ObjectsOK(extern, objects, tuples) /\ TuplesOK(objects, tuples)
        /\ FramesOK(stack, objects) /\ destroyed \subseteq {0} \union Natives
    BY DEF CoreInv, SettledOK
  <1>2. /\ ObjectsOK(Len(objects) + 1, objs, tuples) /\ TuplesOK(objs, tuples)
        /\ \A o \in DOMAIN objects : o \in DOMAIN objs /\ objs[o] = objects[o]
    BY <1>1, NewObjectKeeps
  <1> HIDE DEF objs
  <1>3. FramesOK(stack, objs)
    BY <1>1, <1>2, FramesKept
  <1>4. SettledOK(Len(objects) + 1, stack, objs, tuples, destroyed)
    BY <1>1, <1>2, <1>3 DEF SettledOK
  <1>5. QED
    BY <1>4 DEF objs

LEMMA ConstructKeeps ==
    ASSUME CoreInv, NEW t \in Threads, Construct(t)
    PROVE  CoreInv'
  <1>1. MayCall(t)
    BY DEF Construct
  <1>2. CASE Started(t, "failed") /\ UNCHANGED <<extern, objects, tuples, made, destroyed, stack>>
    BY <1>1, <1>2, RefusalKeeps DEF Kinds
  <1>3. CASE /\ made < Len(Sizes)
             /\ Len(objects) < MaxObjects
             /\ made' = made + 1
             /\ Settle(Len(objects) + 1, stack,
                       Append(objects, Fresh(made')), tuples, destroyed)
             /\ Started(t, "done")
    <2>1. made' \in Natives
      BY <1>3, NextNative
    <2>2. SettledOK(Len(objects) + 1, stack, Append(objects, Fresh(made')),
                    tuples, destroyed)
      BY <1>3, <2>1, NewObjectSettled
    <2>3. QED
      BY <1>1, <1>3, <2>1, <2>2, SettlingKeeps
  <1>4. QED
    BY <1>2, <1>3 DEF Construct

LEMMA NewUninitializedKeeps ==
    ASSUME CoreInv, NEW t \in Threads, NewUninitialized(t)
    PROVE  CoreInv'
  <1>1. SettledOK(Len(objects) + 1, stack, Append(objects, Fresh(0)),
                  tuples, destroyed)
    BY NewObjectSettled DEF NewUninitialized
  <1>2. made' \in {0} \union Natives
    BY DEF NewUninitialized, CoreInv
  <1>3. QED
    BY <1>1, <1>2, SettlingKeeps DEF NewUninitialized

\* What __init__ of the wrapper's extension object does once more.
LEMMA ReinitSettled ==
    ASSUME CoreInv, extern # 0, NEW b \in Natives
    PROVE  SettledOK(extern, stack, [objects EXCEPT ![extern] = Fresh(b)],
                     Released(tuples, objects[extern].cache),
                     destroyed \union {objects[extern].browser})
  <1> DEFINE objs == [objects EXCEPT ![extern] = Fresh(b)]
             tups == Released(tuples, objects[extern].cache)
  <1>1. /\ ObjectsOK(extern, objects, tuples) /\ TuplesOK(objects, tuples)
        /\ FramesOK(stack, objects) /\ destroyed \subseteq {0} \union Natives
    BY DEF CoreInv, SettledOK
  <1>2. extern \in DOMAIN objects /\ objects[extern].browser \in {0} \union Natives
    <2>1. /\ Len(objects) \in Nat /\ DOMAIN objects = 1..Len(objects) /\ extern \in 0..Len(objects)
          /\ \A o \in DOMAIN objects : objects[o] \in Object
      BY <1>1, ObjectsType DEF ObjectsOK
    <2>2. extern \in DOMAIN objects
      BY <2>1
    <2>3. QED
      BY <2>1, <2>2 DEF Object
  <1>3. /\ ObjectsOK(extern, objs, tups) /\ TuplesOK(objs, tups)
        /\ DOMAIN objs = DOMAIN objects
        /\ \A o \in DOMAIN objects :
              objs[o] = IF o = extern THEN Fresh(b) ELSE objects[o]
    BY <1>1, <1>2, ReinitKeeps
  <1> HIDE DEF objs, tups
  <1>4. \A o \in DOMAIN objects : objects[o].browser # 0 => o \in DOMAIN objs /\ objs[o].browser # 0
    <2>1. b # 0
      BY PyBrowserAssumption, LenProperties DEF Natives
    <2>2. QED
      BY <1>3, <2>1 DEF Fresh
  <1>5. FramesOK(stack, objs)
    BY <1>1, <1>4, FramesKept
  <1>6. SettledOK(extern, stack, objs, tups, destroyed \union {objects[extern].browser})
    BY <1>1, <1>2, <1>3, <1>5 DEF SettledOK
  <1>7. QED
    BY <1>6 DEF objs, tups

LEMMA ReinitStepKeeps ==
    ASSUME CoreInv, NEW t \in Threads, Reinit(t)
    PROVE  CoreInv'
  <1>1. MayCall(t) /\ extern # 0
    BY DEF Reinit
  <1>2. CASE Started(t, "failed") /\ UNCHANGED <<extern, objects, tuples, made, destroyed, stack>>
    BY <1>1, <1>2, RefusalKeeps DEF Kinds
  <1>3. CASE /\ made < Len(Sizes)
             /\ made' = made + 1
             /\ Settle(extern, stack,
                       [objects EXCEPT ![extern] = Fresh(made')],
                       Released(tuples, objects[extern].cache),
                       destroyed \union {objects[extern].browser})
             /\ Started(t, "done")
    <2>1. made' \in Natives
      BY <1>3, NextNative
    <2>2. SettledOK(extern, stack, [objects EXCEPT ![extern] = Fresh(made')],
                    Released(tuples, objects[extern].cache),
                    destroyed \union {objects[extern].browser})
      BY <1>1, <2>1, ReinitSettled
    <2>3. QED
      BY <1>1, <1>3, <2>1, <2>2, SettlingKeeps
  <1>4. QED
    BY <1>2, <1>3 DEF Reinit, Released

LEMMA BeginsKeep ==
    ASSUME CoreInv, NEW t \in Threads, BeginGet(t) \/ BeginItem(t) \/ BeginEach(t)
    PROVE  CoreInv'
  <1>1. Ready(t) /\ extern # 0 /\ objects[extern].browser # 0 /\ calls < MaxCalls
    BY DEF BeginGet, BeginItem, BeginEach, Ready, MayCall
  <1>2. PICK op \in Ops : Begin(t, op) /\ (op = "walk" => objects[extern].cache # 0)
    BY DEF BeginGet, BeginItem, BeginEach, Ops, Cache
  <1>3. QED
    BY <1>1, <1>2, BeginKeeps

\* A walk's first frame: the function is called with the tuple's first item.
LEMMA WalkFrame ==
    ASSUME CoreInv, extern # 0, objects[extern].browser # 0, objects[extern].cache # 0,
           tuples[objects[extern].cache].items # << >>
    PROVE  LET items == tuples[objects[extern].cache].items
               f     == New("walk", extern)
               g     == Shown(f, items[1])
           IN /\ items \in Seq(Item) /\ items[1] \in Item
              /\ g \in Frame /\ CallOK(g) /\ g.obj = extern /\ extern \in DOMAIN objects
              /\ g.op = "walk" /\ g.native = objects[extern].browser /\ g.size = Len(items)
              /\ g.seen = Append(<< >>, items[1])
  <1>1. /\ DOMAIN tuples = 1..Len(tuples) /\ Len(tuples) \in Nat
        /\ \A i \in DOMAIN tuples : tuples[i] \in Tuple
    BY TuplesType DEF CoreInv, SettledOK
  <1>2. PICK f \in Frame : /\ f = New("walk", extern) /\ CallOK(f) /\ f.obj = extern
                           /\ f.op = "walk" /\ f.native = objects[extern].browser
                           /\ f.seen = << >> /\ extern \in DOMAIN objects
                           /\ f.size = Len(tuples[objects[extern].cache].items)
    BY NewFrame DEF Ops
  <1>3. objects[extern].cache \in DOMAIN tuples
    BY <1>1, <1>2 DEF CoreInv, SettledOK, ObjectsOK
  <1>4. PICK items \in Seq(Item) : items = tuples[objects[extern].cache].items
    BY <1>1, <1>3 DEF Tuple
  <1>5. 1 \in DOMAIN items
    <2>1. DOMAIN items = 1..Len(items) /\ Len(items) \in Nat /\ (Len(items) = 0 => items = << >>)
      BY LenProperties, EmptySeq
    <2>2. QED
      BY <1>4, <2>1
  <1>6. PICK item \in Item : item = items[1]
    BY <1>5, ElementOfSeq
  <1>7. PICK s \in Seq(Item) : s = Append(<< >>, item) /\ s # << >>
    <2>1. << >> \in Seq(Item) /\ Len(<< >>) = 0
      BY EmptySeq
    <2>2. Append(<< >>, item) \in Seq(Item) /\ Len(Append(<< >>, item)) = Len(<< >>) + 1
      BY <2>1, PushLemma
    <2>3. Append(<< >>, item) # << >>
      BY <2>1, <2>2
    <2>4. QED
      BY <2>2, <2>3
  <1>8. PICK g : g = [f EXCEPT !.seen = s, !.inside = TRUE]
    OBVIOUS
  <1>9. /\ g \in Frame /\ g.obj = f.obj /\ g.op = f.op /\ g.native = f.native /\ g.size = f.size
        /\ g.list = f.list /\ g.seen = s /\ g.keep = f.keep /\ g.said = f.said /\ g.inside = TRUE
    BY <1>7, <1>8 DEF Frame
  <1>10. CallOK(g)
    BY <1>2, <1>7, <1>9 DEF CallOK
  <1>11. Shown(f, item) = g
    BY <1>2, <1>7, <1>8 DEF Shown
  <1>12. QED
    BY <1>2, <1>4, <1>6, <1>7, <1>9, <1>10, <1>11

LEMMA BeginWalkKeeps ==
    ASSUME CoreInv, NEW t \in Threads, BeginWalk(t)
    PROVE  CoreInv'
  <1>1. MayCall(t) /\ extern # 0 /\ objects[extern].browser # 0 /\ objects[extern].cache # 0
    BY DEF BeginWalk, Ready, Cache
  <1> DEFINE items == tuples[objects[extern].cache].items
             g     == Shown(New("walk", extern), items[1])
  <1>2. CASE Started(t, "true") /\ UNCHANGED <<extern, objects, tuples, made, destroyed, stack>>
    BY <1>1, <1>2, RefusalKeeps DEF Kinds
  <1>3. CASE /\ items # << >> /\ Started(t, "none") /\ stack' = Push(t, g)
             /\ UNCHANGED <<extern, objects, tuples, made, destroyed>>
    <2>1. g \in Frame /\ CallOK(g) /\ g.obj = extern /\ extern \in DOMAIN objects
      BY <1>1, <1>3, WalkFrame
    <2>2. FramesOK(stack, objects) /\ stack \in [Threads -> Seq(Frame)]
      BY DEF CoreInv, SettledOK, FramesOK
    <2> HIDE DEF g
    <2>3. Push(t, g) \in [Threads -> Seq(Frame)] /\ Within(Push(t, g), stack, g)
      BY <2>1, <2>2, PushFrames
    <2>4. FramesOK(Push(t, g), objects)
      BY <1>1, <2>1, <2>2, <2>3, FramesAfter
    <2>5. FramesOK(stack', objects')
      BY <1>3, <2>4
    <2>6. /\ calls' \in 0..MaxCalls /\ answer' \in [Threads -> Kinds]
          /\ crashed' \in Faults \union {"no"}
      BY <1>1, <1>3, StartedType DEF Kinds
    <2>7. QED
      BY <1>3, <2>5, <2>6 DEF CoreInv, SettledOK
  <1>4. QED
    BY <1>2, <1>3 DEF BeginWalk, Cache

LEMMA GetCachedKeeps ==
    ASSUME CoreInv, NEW t \in Threads, GetCached(t)
    PROVE  CoreInv'
  <1>1. MayCall(t) /\ extern # 0 /\ objects[extern].cache # 0
    BY DEF GetCached, Ready, Cache
  <1>2. /\ ObjectsOK(extern, objects, tuples) /\ TuplesOK(objects, tuples) /\ FramesOK(stack, objects)
        /\ objects \in Seq(Object) /\ destroyed \subseteq {0} \union Natives
    BY DEF CoreInv, SettledOK, ObjectsOK
  <1>3. objects[extern].cache \in DOMAIN tuples
    <2>1. /\ Len(objects) \in Nat /\ DOMAIN objects = 1..Len(objects) /\ extern \in 0..Len(objects)
          /\ \A o \in DOMAIN objects : objects[o].cache \in 0..Len(tuples)
          /\ DOMAIN tuples = 1..Len(tuples) /\ Len(tuples) \in Nat
      BY <1>2, ObjectsType, TuplesType DEF ObjectsOK
    <2>2. extern \in DOMAIN objects
      BY <1>1, <2>1
    <2>3. QED
      BY <1>1, <2>1, <2>2
  <1>4. PICK op : tuples' = Given(op, tuples, objects[extern].cache)
    BY DEF GetCached, Cache
  <1>5. TuplesOK(objects, tuples') /\ Len(tuples') = Len(tuples)
    BY <1>2, <1>3, <1>4, GivenKeeps
  <1>6. ObjectsOK(extern, objects, tuples')
    BY <1>2, <1>5 DEF ObjectsOK
  <1>7. UNCHANGED <<extern, objects, made, destroyed, stack>> /\ Started(t, "done")
    BY DEF GetCached
  <1>8. SettledOK(extern', stack', objects', tuples', destroyed')
    BY <1>2, <1>5, <1>6, <1>7 DEF SettledOK
  <1>9. QED
    BY <1>1, <1>7, <1>8, StartedType DEF CoreInv, Kinds

LEMMA ForgetKeeps ==
    ASSUME CoreInv, Forget
    PROVE  CoreInv'
  <1>1. SettledOK(0, stack, objects, tuples, destroyed)
    BY ObjectsType DEF CoreInv, SettledOK, ObjectsOK
  <1>2. Settle(0, stack, objects, tuples, destroyed) /\ UNCHANGED <<made, answer, calls, crashed>>
    BY DEF Forget
  <1>3. SettledOK(extern', stack', objects', tuples', destroyed') /\ destroyed' \subseteq Natives
    BY <1>1, <1>2, SettleKeeps
  <1>4. QED
    BY <1>2, <1>3 DEF CoreInv

LEMMA DropKeeps ==
    ASSUME CoreInv, NEW i \in DOMAIN tuples, Drop(i)
    PROVE  CoreInv'
  <1>1. /\ ObjectsOK(extern, objects, tuples) /\ TuplesOK(objects, tuples)
        /\ tuples \in Seq(Tuple) /\ Len(tuples) \in Nat /\ DOMAIN tuples = 1..Len(tuples)
        /\ \A j \in DOMAIN tuples : tuples[j] \in Tuple
        /\ objects \in Seq(Object)
    BY TuplesType, ObjectsType DEF CoreInv, SettledOK
  <1>2. PICK r \in Nat, w \in Nat, h \in Nat :
            /\ r = tuples[i].refs /\ w = tuples[i].owned /\ h = Cardinality(Holders(objects, i))
            /\ r >= w + h /\ w > 0
    BY <1>1, HoldersFinite DEF Drop, TuplesOK, Tuple
  <1> DEFINE new == [items |-> tuples[i].items, refs |-> r - 1, owned |-> w - 1]
  <1>3. new \in Tuple /\ new.refs >= new.owned + h /\ new.items = tuples[i].items
    <2>1. r - 1 \in Nat /\ w - 1 \in Nat /\ r - 1 >= (w - 1) + h
      BY <1>2
    <2>2. QED
      BY <1>1, <2>1 DEF Tuple
  <1>4. tuples' = [tuples EXCEPT ![i] = new]
    <2>1. [tuples[i] EXCEPT !.owned = w - 1, !.refs = r - 1] = new
      BY <1>1, TupleExcept
    <2>2. QED
      BY <1>2, <2>1 DEF Drop
  <1> HIDE DEF new
  <1>5. /\ tuples' \in Seq(Tuple) /\ Len(tuples') = Len(tuples)
        /\ \A j \in 1..Len(tuples) : tuples'[j] = IF j = i THEN new ELSE tuples[j]
    BY <1>1, <1>3, <1>4, ExceptSeq
  <1>6. DOMAIN tuples' = DOMAIN tuples
    BY <1>1, <1>5, LenProperties
  <1>7. TuplesOK(objects, tuples')
    BY <1>1, <1>2, <1>3, <1>5, <1>6 DEF TuplesOK
  <1>8. ObjectsOK(extern, objects, tuples')
    BY <1>1, <1>5 DEF ObjectsOK
  <1>9. UNCHANGED <<extern, objects, made, destroyed, stack, answer, calls, crashed>>
    BY DEF Drop
  <1>10. QED
    BY <1>7, <1>8, <1>9 DEF CoreInv, SettledOK

-----------------------------------------------------------------------------
(* The invariant, and what it says of every state. *)

LEMMA CoreInit == Init => CoreInv
  <1> SUFFICES ASSUME Init
               PROVE  CoreInv
    OBVIOUS
  <1>1. /\ objects = << >> /\ tuples = << >> /\ << >> \in Seq(Object) /\ << >> \in Seq(Tuple)
        /\ << >> \in Seq(Frame) /\ Len(<< >>) = 0 /\ DOMAIN << >> = {}
    BY EmptySeq, LenProperties DEF Init
  <1>2. ObjectsOK(extern, objects, tuples)
    BY <1>1, PyBrowserAssumption DEF Init, ObjectsOK
  <1>3. TuplesOK(objects, tuples)
    BY <1>1 DEF TuplesOK
  <1>4. FramesOK(stack, objects)
    BY <1>1 DEF Init, FramesOK
  <1>5. /\ destroyed \subseteq Natives /\ destroyed \subseteq {0} \union Natives
        /\ made \in {0} \union Natives
        /\ answer \in [Threads -> Kinds] /\ calls \in 0..MaxCalls
    BY PyBrowserAssumption DEF Init, Kinds
  <1>6. crashed \in Faults \union {"no"}
    BY DEF Init
  <1>7. QED
    BY <1>2, <1>3, <1>4, <1>5, <1>6 DEF CoreInv, SettledOK

LEMMA CoreStep == CoreInv /\ [Next]_vars => CoreInv'
  <1> SUFFICES ASSUME CoreInv, [Next]_vars
               PROVE  CoreInv'
    OBVIOUS
  <1>1. CASE UNCHANGED vars
    BY <1>1 DEF CoreInv, vars
  <1>2. ASSUME NEW t \in Threads, InCall(t)
        PROVE  CoreInv'
    BY <1>2, GetConvertKeeps, GetFinishKeeps, ItemConvertKeeps, EachConvertKeeps, EachAnswerKeeps,
       EachFinishKeeps, WalkCallKeeps, WalkAnswerKeeps DEF InCall
  <1>3. ASSUME NEW t \in Threads, Client(t)
        PROVE  CoreInv'
    <2>1. CASE Construct(t) \/ NewUninitialized(t) \/ Reinit(t)
      BY <2>1, ConstructKeeps, NewUninitializedKeeps, ReinitStepKeeps
    <2>2. CASE BeginGet(t) \/ BeginItem(t) \/ BeginEach(t) \/ BeginWalk(t)
      BY <2>2, BeginsKeep, BeginWalkKeeps
    <2>3. CASE GetCached(t)
      BY <2>3, GetCachedKeeps
    <2>4. CASE Refuse(t)
      BY <2>4, RefuseKeeps
    <2>5. QED
      BY <1>3, <2>1, <2>2, <2>3, <2>4 DEF Client
  <1>4. CASE Rest
    BY <1>4 DEF CoreInv, Rest, vars
  <1>5. QED
    BY <1>1, <1>2, <1>3, <1>4, ForgetKeeps, DropKeeps DEF Next

LEMMA CoreInvariant == Spec => []CoreInv
  BY CoreInit, CoreStep, PTL DEF Spec

\* Every state has the declared types; in particular no tuple's count of
\* references falls below zero.
THEOREM TypeCorrect == Spec => []TypeOK
  <1>1. CoreInv => TypeOK
    <2> SUFFICES ASSUME CoreInv
                 PROVE  TypeOK
      OBVIOUS
    <2>1. extern \in 0..MaxObjects /\ objects \in Seq(Object)
      <3>1. /\ objects \in Seq(Object) /\ Len(objects) \in Nat /\ Len(objects) <= MaxObjects
            /\ extern \in 0..Len(objects)
        BY ObjectsType DEF CoreInv, SettledOK, ObjectsOK
      <3>2. QED
        BY <3>1, PyBrowserAssumption
    <2>2. tuples \in Seq(Tuple) /\ stack \in [Threads -> Seq(Frame)]
      BY DEF CoreInv, SettledOK, TuplesOK, FramesOK
    <2>3. QED
      BY <2>1, <2>2 DEF CoreInv, TypeOK, Object, Tuple
  <1>2. QED
    BY <1>1, CoreInvariant, PTL

\* Whatever clients and threads do, and also where __init__ is called in the
\* middle of a call: a tuple has a reference for each that was given out and for
\* each object that caches it, so that none is freed while somebody has it.
THEOREM NoTupleFreedEarly == Spec => []ReferencesSuffice
  <1>1. CoreInv => ReferencesSuffice
    BY DEF CoreInv, SettledOK, TuplesOK, ReferencesSuffice, Holders, Cache
  <1>2. QED
    BY <1>1, CoreInvariant, PTL

-----------------------------------------------------------------------------
(* The second part of the invariant holds while __init__ is not called in    *)
(* the middle of a call: every object keeps its C++ browser for as long as a *)
(* call is in it, no other has the same, and none that is gone is in use.    *)

\* Only the items of the tuples matter.
LEMMA ItemsKept ==
    ASSUME NEW x, NEW objs, NEW tups, NEW tups2, NEW gone, NEW m,
           ObjectsOK(x, objs, tups), TuplesOK(objs, tups), BrowsersOK(objs, tups, gone, m),
           \A i \in DOMAIN tups : tups2[i].items = tups[i].items
    PROVE  BrowsersOK(objs, tups2, gone, m)
  <1>1. /\ DOMAIN tups = 1..Len(tups) /\ Len(tups) \in Nat
        /\ \A o \in DOMAIN objs : objs[o].cache \in 0..Len(tups)
    BY TuplesType DEF ObjectsOK
  <1>2. ASSUME NEW o \in DOMAIN objs, objs[o].cache # 0
        PROVE  tups2[objs[o].cache].items = tups[objs[o].cache].items
    <2>1. objs[o].cache \in DOMAIN tups
      BY <1>1, <1>2
    <2>2. QED
      BY <2>1
  <1>3. QED
    BY <1>2 DEF BrowsersOK

LEMMA BoundsAfter ==
    ASSUME NEW objs, NEW st, NEW st2 \in [Threads -> Seq(Frame)], NEW f,
           CallsBound(st, objs), Within(st2, st, f), BoundOK(f, objs)
    PROVE  CallsBound(st2, objs)
  <1>1. ASSUME NEW t \in Threads, NEW d \in DOMAIN st2[t]
        PROVE  BoundOK(st2[t][d], objs)
    <2>1. CASE st2[t][d] = f
      BY <2>1
    <2>2. CASE \E e \in DOMAIN st[t] : st2[t][d] = st[t][e]
      BY <2>2 DEF CallsBound
    <2>3. QED
      BY <2>1, <2>2 DEF Within
  <1>2. QED
    BY <1>1 DEF CallsBound

\* The objects that calls use keep their browser, and their tuple if they had one,
\* or it is known to be lost.
LEMMA BoundsKept ==
    ASSUME NEW st, NEW objs, NEW objs2, CallsBound(st, objs),
           \A t \in Threads : \A d \in DOMAIN st[t] :
               LET o == st[t][d].obj
               IN objs2[o].browser = objs[o].browser /\ (Walked(objs[o]) => Walked(objs2[o]))
    PROVE  CallsBound(st, objs2)
  <1>1. ASSUME NEW t \in Threads, NEW d \in DOMAIN st[t]
        PROVE  BoundOK(st[t][d], objs2)
    <2>1. BoundOK(st[t][d], objs)
      BY DEF CallsBound
    <2>2. /\ objs2[st[t][d].obj].browser = objs[st[t][d].obj].browser
          /\ Walked(objs[st[t][d].obj]) => Walked(objs2[st[t][d].obj])
      OBVIOUS
    <2>3. QED
      BY <2>1, <2>2 DEF BoundOK
  <1>2. QED
    BY <1>1 DEF CallsBound

LEMMA SettleKeepsBounds ==
    ASSUME NEW x, NEW st, NEW objs, NEW tups, NEW gone, NEW m \in Nat,
           SettledOK(x, st, objs, tups, gone), Settle(x, st, objs, tups, gone),
           BrowsersOK(objs, tups, gone, m), CallsBound(st, objs)
    PROVE  BrowsersOK(objects', tuples', destroyed', m) /\ CallsBound(stack', objects')
  <1> DEFINE dead == {o \in DOMAIN objs : ~Referenced(o, x, st)}
  <1>1. /\ stack' = st
        /\ objects' = [o \in DOMAIN objs |->
                          IF o \in dead THEN Fresh(0) ELSE objs[o]]
        /\ objects' = ObjectsWithout(objs, dead)
        /\ tuples' = TuplesWithout(objs, tups, dead)
        /\ destroyed' = (gone \union {objs[o].browser : o \in dead}) \ {0}
    BY DEF Settle, ObjectsWithout, TuplesWithout
  <1>2. \A t \in Threads : \A d \in DOMAIN st[t] : st[t][d].obj \notin dead
    BY DEF Referenced
  <1>3. \A t \in Threads : \A d \in DOMAIN st[t] : st[t][d].obj \in DOMAIN objs
    BY DEF SettledOK, FramesOK
  <1>4. dead \subseteq DOMAIN objs
    OBVIOUS
  <1> HIDE DEF dead
  <1>5. /\ DOMAIN objects' = DOMAIN objs
        /\ \A o \in DOMAIN objs : o \in dead => objects'[o].browser = 0 /\ objects'[o].cache = 0
        /\ \A o \in DOMAIN objs : o \notin dead => objects'[o] = objs[o]
    BY <1>1 DEF Fresh
  <1>6. CallsBound(stack', objects')
    <2>1. \A t \in Threads : \A d \in DOMAIN st[t] : objects'[st[t][d].obj] = objs[st[t][d].obj]
      BY <1>2, <1>3, <1>5
    <2>2. CallsBound(st, objects')
      BY <2>1, BoundsKept
    <2>3. QED
      BY <1>1, <2>2
  <1>7. /\ \A i \in DOMAIN tups : tuples'[i].items = tups[i].items
        /\ ObjectsOK(x, objs, tups) /\ TuplesOK(objs, tups)
    <2>1. objs \in Seq(Object) /\ TuplesOK(objs, tups) /\ ObjectsOK(x, objs, tups)
      BY ObjectsType DEF SettledOK
    <2>2. QED
      BY <1>1, <1>4, <2>1, SettleTuples
  <1>8. BrowsersOK(objs, tuples', gone, m)
    BY <1>7, ItemsKept
  <1>9. destroyed' \subseteq 0..m
    <2>1. gone \subseteq 0..m /\ \A o \in dead : objs[o].browser = 0 \/ objs[o].browser \in 1..m
      BY <1>4, <1>8 DEF BrowsersOK
    <2>2. \A o \in dead : objs[o].browser \in 0..m
      BY <2>1
    <2>3. QED
      BY <1>1, <2>1, <2>2
  <1>10. ASSUME NEW o \in DOMAIN objs, o \notin dead, objs[o].browser # 0
         PROVE  objs[o].browser \notin destroyed'
    BY <1>1, <1>4, <1>8, <1>10 DEF BrowsersOK
  <1>11. BrowsersOK(objects', tuples', destroyed', m)
    <2>1. ASSUME NEW o \in DOMAIN objs
          PROVE  /\ objects'[o].browser # 0 =>
                      objects'[o].browser \in 1..m /\ objects'[o].browser \notin destroyed'
                 /\ objects'[o].cache # 0 =>
                      objects'[o].browser # 0 /\ tuples'[objects'[o].cache].items = Listed(objects'[o].browser)
      <3>1. CASE o \in dead
        BY <1>5, <3>1
      <3>2. CASE o \notin dead
        BY <1>5, <1>8, <1>10, <3>2 DEF BrowsersOK
      <3>3. QED
        BY <3>1, <3>2
    <2>2. ASSUME NEW o \in DOMAIN objs, NEW p \in DOMAIN objs,
                 objects'[o].browser = objects'[p].browser
          PROVE  o = p \/ objects'[o].browser = 0
      BY <1>5, <1>8, <2>2 DEF BrowsersOK
    <2>3. QED
      BY <1>5, <1>9, <2>1, <2>2 DEF BrowsersOK
  <1>12. QED
    BY <1>6, <1>11

LEMMA ContinueKeepsBounds ==
    ASSUME CoreInv, BoundInv, NEW t \in Threads, Depth(t) > 0,
           NEW f \in Frame, BoundOK(f, objects), Continue(t, f)
    PROVE  BoundInv'
  <1>1. stack \in [Threads -> Seq(Frame)] /\ stack[t] # << >>
    BY TopFrame DEF CoreInv, SettledOK, FramesOK
  <1>2. Replace(t, f) \in [Threads -> Seq(Frame)] /\ Within(Replace(t, f), stack, f)
    BY <1>1, ReplaceFrames
  <1>3. CallsBound(Replace(t, f), objects)
    BY <1>2, BoundsAfter DEF BoundInv
  <1>4. stack' = Replace(t, f) /\ UNCHANGED <<objects, tuples, made, destroyed>>
    BY DEF Continue
  <1>5. CallsBound(stack', objects')
    BY <1>3, <1>4
  <1>6. QED
    BY <1>4, <1>5 DEF BoundInv

LEMMA ReturnKeepsBounds ==
    ASSUME CoreInv, BoundInv, NEW t \in Threads, Depth(t) > 0, NEW kind, NEW objs, NEW tups,
           ReturnWith(t, kind, objs, tups),
           ObjectsOK(extern, objs, tups), TuplesOK(objs, tups), SameBrowsers(objs),
           BrowsersOK(objs, tups, destroyed, made),
           \A o \in DOMAIN objects : Walked(objects[o]) => Walked(objs[o])
    PROVE  BoundInv'
  <1>1. /\ FramesOK(stack, objects) /\ stack \in [Threads -> Seq(Frame)] /\ stack[t] # << >>
    BY TopFrame DEF CoreInv, SettledOK, FramesOK
  <1>2. /\ Pop(t) \in [Threads -> Seq(Frame)]
        /\ \A u \in Threads : \A d \in DOMAIN Pop(t)[u] :
              \E e \in DOMAIN stack[u] : Pop(t)[u][d] = stack[u][e]
    BY <1>1, PopFrames
  <1>3. CallsBound(stack, objs)
    <2>1. \A u \in Threads : \A d \in DOMAIN stack[u] : stack[u][d].obj \in DOMAIN objects
      BY <1>1 DEF FramesOK
    <2>2. QED
      BY <2>1, BoundsKept DEF BoundInv, SameBrowsers
  <1>4. FramesOK(stack, objs)
    BY <1>1 DEF FramesOK, SameBrowsers
  <1>5. FramesOK(Pop(t), objs) /\ CallsBound(Pop(t), objs)
    <2>1. ASSUME NEW u \in Threads, NEW d \in DOMAIN Pop(t)[u]
          PROVE  /\ CallOK(Pop(t)[u][d])
                 /\ Pop(t)[u][d].obj \in DOMAIN objs
                 /\ objs[Pop(t)[u][d].obj].browser # 0
                 /\ BoundOK(Pop(t)[u][d], objs)
      <3>1. PICK e \in DOMAIN stack[u] : Pop(t)[u][d] = stack[u][e]
        BY <1>2
      <3>2. QED
        BY <1>3, <1>4, <3>1 DEF FramesOK, CallsBound
    <2>2. QED
      BY <1>2, <2>1 DEF FramesOK, CallsBound
  <1>6. SettledOK(extern, Pop(t), objs, tups, destroyed) /\ made \in Nat
    BY <1>5, PyBrowserAssumption, LenProperties DEF CoreInv, SettledOK, Natives
  <1>7. Settle(extern, Pop(t), objs, tups, destroyed) /\ UNCHANGED made
    BY DEF ReturnWith
  <1>8. BrowsersOK(objects', tuples', destroyed', made) /\ CallsBound(stack', objects')
    BY <1>5, <1>6, <1>7, SettleKeepsBounds
  <1>9. QED
    BY <1>7, <1>8 DEF BoundInv

LEMMA PlainReturnKeepsBounds ==
    ASSUME CoreInv, BoundInv, NEW t \in Threads, Depth(t) > 0, NEW kind, Return(t, kind)
    PROVE  BoundInv'
  <1>1. ReturnWith(t, kind, objects, tuples) /\ SameBrowsers(objects)
    BY DEF Return, SameBrowsers
  <1>2. /\ ObjectsOK(extern, objects, tuples) /\ TuplesOK(objects, tuples)
        /\ BrowsersOK(objects, tuples, destroyed, made)
    BY DEF CoreInv, SettledOK, BoundInv
  <1>3. QED
    BY <1>1, <1>2, ReturnKeepsBounds

\* An object that caches the whole list of its own C++ browser.
LEMMA StoreKeepsBounds ==
    ASSUME CoreInv, BoundInv, NEW o \in DOMAIN objects, objects[o].browser # 0,
           NEW items \in Seq(Item), items = Listed(objects[o].browser)
    PROVE  LET i    == Len(tuples) + 1
               objs == Stored(objects, o, i)
               tups == Append(tuples, Cached(items))
           IN /\ ObjectsOK(extern, objs, tups) /\ TuplesOK(objs, tups)
              /\ SameBrowsers(objs) /\ i \in DOMAIN tups
              /\ BrowsersOK(objs, tups, destroyed, made)
              /\ \A p \in DOMAIN objects : Walked(objects[p]) => Walked(objs[p])
  <1> DEFINE i    == Len(tuples) + 1
             objs == Stored(objects, o, i)
             tups == Append(tuples, Cached(items))
  <1>1. ObjectsOK(extern, objects, tuples) /\ TuplesOK(objects, tuples)
    BY DEF CoreInv, SettledOK
  <1>2. /\ ObjectsOK(extern, objs, tups) /\ TuplesOK(objs, tups)
        /\ i \in DOMAIN tups /\ tups[i].items = items /\ i # 0
        /\ DOMAIN objs = DOMAIN objects
        /\ \A p \in DOMAIN objects : objs[p].browser = objects[p].browser
        /\ \A p \in DOMAIN objects : objs[p].cache = IF p = o THEN i ELSE objects[p].cache
        /\ \A p \in DOMAIN objects : objs[p].lost = objects[p].lost
        /\ \A j \in DOMAIN tuples : tups[j].items = tuples[j].items
    BY <1>1, StoreKeeps
  <1> HIDE DEF i, objs, tups
  <1>3. SameBrowsers(objs) /\ \A p \in DOMAIN objects : Walked(objects[p]) => Walked(objs[p])
    BY <1>2 DEF SameBrowsers, Walked
  <1>4. BrowsersOK(objects, tups, destroyed, made)
    BY <1>1, <1>2, ItemsKept DEF BoundInv
  <1>5. BrowsersOK(objs, tups, destroyed, made)
    <2>1. ASSUME NEW p \in DOMAIN objs, objs[p].cache # 0
          PROVE  objs[p].browser # 0 /\ tups[objs[p].cache].items = Listed(objs[p].browser)
      <3>1. CASE p = o
        BY <1>2, <2>1, <3>1
      <3>2. CASE p # o
        BY <1>2, <1>4, <2>1, <3>2 DEF BrowsersOK
      <3>3. QED
        BY <3>1, <3>2
    <2>2. QED
      BY <1>2, <1>4, <2>1 DEF BrowsersOK
  <1>6. QED
    BY <1>2, <1>3, <1>5 DEF i, objs, tups

\* The call that runs is in the C++ browser of its object.
LEMMA TopBound ==
    ASSUME CoreInv, BoundInv, NEW t \in Threads, Depth(t) > 0
    PROVE  /\ BoundOK(Top(t), objects)
           /\ Top(t).native = objects[Top(t).obj].browser
           /\ Top(t).native \notin destroyed
  <1>1. Depth(t) \in DOMAIN stack[t] /\ Top(t).obj \in DOMAIN objects /\ objects[Top(t).obj].browser # 0
    BY TopFrame DEF CoreInv, SettledOK
  <1>2. BoundOK(Top(t), objects)
    BY <1>1 DEF BoundInv, CallsBound, Top
  <1>3. Top(t).native = objects[Top(t).obj].browser
    BY <1>2 DEF BoundOK
  <1>4. QED
    BY <1>1, <1>2, <1>3 DEF BoundInv, BrowsersOK

\* A call that changes neither its operation, its object nor its C++ browser, and
\* does not walk a tuple, stays in it.
LEMMA StaysBound ==
    ASSUME NEW f, NEW g, NEW objs, BoundOK(f, objs),
           g.native = f.native, g.obj = f.obj, g.op # "walk"
    PROVE  BoundOK(g, objs)
  BY DEF BoundOK

LEMMA GetConvertKeepsBounds ==
    ASSUME CoreInv, BoundInv, NEW t \in Threads, GetConvert(t)
    PROVE  BoundInv'
  <1>1. Depth(t) > 0 /\ Top(t).op \in {"get", "iter", "find"} /\ ~AllListed(Top(t))
    BY DEF GetConvert, Runs
  <1>2. PICK f \in Frame : f = Top(t) /\ Prefix(f.list, f.native) /\ BoundOK(f, objects)
    BY <1>1, TopOK, TopBound
  <1>3. CASE Continue(t, [Top(t) EXCEPT !.list = Append(@, NextItem(Top(t)))])
    <2>1. Append(f.list, NextItem(f)) \in Seq(Item)
      BY <1>1, <1>2, PrefixGrow DEF NextItem, AllListed, Frame
    <2>2. PICK l \in Seq(Item) : l = Append(f.list, NextItem(f))
      BY <2>1
    <2>3. PICK g : g = [f EXCEPT !.list = l]
      OBVIOUS
    <2>4. g \in Frame /\ g.obj = f.obj /\ g.native = f.native /\ g.op = f.op
      BY <2>2, <2>3 DEF Frame
    <2>5. BoundOK(g, objects)
      BY <1>1, <1>2, <2>4, StaysBound
    <2>6. Continue(t, g)
      BY <1>2, <1>3, <2>2, <2>3
    <2>7. QED
      BY <1>1, <2>4, <2>5, <2>6, ContinueKeepsBounds
  <1>4. CASE ReturnWith(t, "failed", Overwritten(f.obj), tuples)
    <2> DEFINE objs == Overwritten(f.obj)
    <2>1. /\ ObjectsOK(extern, objects, tuples) /\ TuplesOK(objects, tuples)
          /\ f.obj \in DOMAIN objects
      BY <1>1, <1>2, TopOK DEF CoreInv, SettledOK
    <2>2. /\ ObjectsOK(extern, objs, tuples) /\ TuplesOK(objs, tuples)
          /\ DOMAIN objs = DOMAIN objects
          /\ \A p \in DOMAIN objects :
                /\ objs[p].browser = objects[p].browser
                /\ objs[p].cache = IF p = f.obj THEN 0 ELSE objects[p].cache
                /\ Walked(objects[p]) => Walked(objs[p])
      BY <2>1, OverwriteKeeps
    <2>3. ReturnWith(t, "failed", objs, tuples)
      BY <1>4
    <2> HIDE DEF objs
    <2>4. SameBrowsers(objs)
      BY <2>2 DEF SameBrowsers
    <2>5. BrowsersOK(objs, tuples, destroyed, made)
      BY <2>2 DEF BrowsersOK, BoundInv
    <2>6. QED
      BY <1>1, <2>2, <2>3, <2>4, <2>5, ReturnKeepsBounds
  <1>5. CASE Crash("iter")
    BY <1>5 DEF Crash, BoundInv
  <1>6. QED
    BY <1>2, <1>3, <1>4, <1>5 DEF GetConvert

LEMMA GetFinishKeepsBounds ==
    ASSUME CoreInv, BoundInv, NEW t \in Threads, GetFinish(t)
    PROVE  BoundInv'
  <1>1. Depth(t) > 0 /\ Top(t).op \in {"get", "iter", "find"} /\ AllListed(Top(t))
    BY DEF GetFinish, Runs
  <1>2. PICK f \in Frame : f = Top(t)
    BY <1>1, TopOK
  <1>3. /\ f.native \in Natives /\ f.list \in Seq(Item) /\ Prefix(f.list, f.native)
        /\ f.obj \in DOMAIN objects /\ objects[f.obj].browser # 0
        /\ f.native = objects[f.obj].browser /\ BoundOK(f, objects)
    BY <1>1, <1>2, TopOK, TopBound
  <1>4. f.list = Listed(objects[f.obj].browser)
    BY <1>1, <1>2, <1>3, PrefixAll DEF AllListed
  <1> DEFINE i    == Len(tuples) + 1
             objs == Stored(objects, f.obj, i)
             tups == Append(tuples, Cached(f.list))
             g    == [f EXCEPT !.op = "item", !.list = << >>, !.native = objects[f.obj].browser]
  <1>5. /\ ObjectsOK(extern, objs, tups) /\ TuplesOK(objs, tups)
        /\ SameBrowsers(objs) /\ i \in DOMAIN tups
        /\ BrowsersOK(objs, tups, destroyed, made)
        /\ \A p \in DOMAIN objects : Walked(objects[p]) => Walked(objs[p])
    BY <1>3, <1>4, StoreKeepsBounds
  <1>6. \/ ReturnWith(t, "done", objs, Given(f.op, tups, i))
        \/ /\ f.op = "find"
           /\ Settle(extern, Replace(t, g), objs, tups, destroyed)
           /\ UNCHANGED <<made, answer, calls, crashed>>
    BY <1>2 DEF GetFinish, Stored
  <1>7. CASE ReturnWith(t, "done", objs, Given(f.op, tups, i))
    <2> HIDE DEF tups, objs, i
    <2>1. objs \in Seq(Object)
      BY <1>5 DEF ObjectsOK
    <2> DEFINE given == Given(f.op, tups, i)
    <2>2. TuplesOK(objs, given) /\ Len(given) = Len(tups) /\ \A j \in DOMAIN tups : given[j].items = tups[j].items
      BY <1>5, <2>1, GivenKeeps
    <2> HIDE DEF given
    <2>3. ObjectsOK(extern, objs, given)
      BY <1>5, <2>2 DEF ObjectsOK
    <2>4. BrowsersOK(objs, given, destroyed, made)
      BY <1>5, <2>2, ItemsKept
    <2>5. ReturnWith(t, "done", objs, given)
      BY <1>7 DEF given
    <2>6. QED
      BY <1>1, <1>5, <2>2, <2>3, <2>4, <2>5, ReturnKeepsBounds
  <1>8. CASE /\ f.op = "find"
             /\ Settle(extern, Replace(t, g), objs, tups, destroyed)
             /\ UNCHANGED <<made, answer, calls, crashed>>
    <2>1. /\ FramesOK(stack, objects) /\ CallOK(f) /\ CallsBound(stack, objects)
          /\ stack \in [Threads -> Seq(Frame)] /\ stack[t] # << >>
      BY <1>1, <1>2, TopFrame DEF CoreInv, SettledOK, FramesOK, BoundInv
    <2>2. PICK n \in Natives : n = objects[f.obj].browser
      BY <1>3
    <2>3. << >> \in Seq(Item) /\ Prefix(<< >>, n)
      BY PrefixNone
    <2>4. /\ g \in Frame /\ g.obj = f.obj /\ g.op = "item" /\ g.list = << >> /\ g.native = n
          /\ g.seen = f.seen /\ g.inside = f.inside /\ g.keep = f.keep /\ g.said = f.said
      BY <2>2, <2>3 DEF Frame, Ops
    <2>5. CallOK(g)
      BY <1>8, <2>1, <2>3, <2>4 DEF CallOK
    <2>6. BoundOK(g, objects)
      BY <1>3, <2>2, <2>4, StaysBound
    <2> HIDE DEF g, objs, tups, i
    <2>7. Replace(t, g) \in [Threads -> Seq(Frame)] /\ Within(Replace(t, g), stack, g)
      BY <2>1, <2>4, ReplaceFrames
    <2>8. FramesOK(Replace(t, g), objects) /\ CallsBound(Replace(t, g), objects)
      BY <1>3, <2>1, <2>4, <2>5, <2>6, <2>7, FramesAfter, BoundsAfter
    <2>9. FramesOK(Replace(t, g), objs)
      BY <1>5, <2>8 DEF FramesOK, SameBrowsers
    <2>10. CallsBound(Replace(t, g), objs)
      <3>1. \A u \in Threads : \A d \in DOMAIN Replace(t, g)[u] : Replace(t, g)[u][d].obj \in DOMAIN objects
        BY <2>8 DEF FramesOK
      <3>2. QED
        BY <1>5, <2>8, <3>1, BoundsKept DEF SameBrowsers
    <2>11. SettledOK(extern, Replace(t, g), objs, tups, destroyed) /\ made \in Nat
      BY <1>5, <2>9, PyBrowserAssumption, LenProperties DEF CoreInv, SettledOK, Natives
    <2>12. BrowsersOK(objects', tuples', destroyed', made) /\ CallsBound(stack', objects')
      BY <1>5, <1>8, <2>10, <2>11, SettleKeepsBounds
    <2>13. QED
      BY <1>8, <2>12 DEF BoundInv
  <1>9. QED
    BY <1>6, <1>7, <1>8

LEMMA ItemConvertKeepsBounds ==
    ASSUME CoreInv, BoundInv, NEW t \in Threads, ItemConvert(t)
    PROVE  BoundInv'
  <1>1. Depth(t) > 0 /\ Top(t).native \notin destroyed
    BY TopBound DEF ItemConvert, Runs
  <1>2. PICK kind : Return(t, kind)
    BY <1>1 DEF ItemConvert
  <1>3. QED
    BY <1>1, <1>2, PlainReturnKeepsBounds

LEMMA EachConvertKeepsBounds ==
    ASSUME CoreInv, BoundInv, NEW t \in Threads, EachConvert(t)
    PROVE  BoundInv'
  <1>1. Depth(t) > 0 /\ Top(t).op = "each" /\ Top(t).native \notin destroyed
    BY TopBound DEF EachConvert, Runs
  <1>2. PICK f \in Frame : f = Top(t) /\ BoundOK(f, objects) /\ f.native \in Natives
                           /\ f.list \in Seq(Item) /\ f.seen \in Seq(Item) /\ f.op = "each"
                           /\ Prefix(f.list, f.native)
    BY <1>1, TopOK, TopBound
  <1>3. /\ ~AllListed(f)
        /\ \/ CallFunction(t, NextItem(f), f)
           \/ Continue(t, [f EXCEPT !.list = Append(@, NextItem(f))])
           \/ Return(t, "failed")
    BY <1>1, <1>2 DEF EachConvert
  <1>4. PICK item \in Item : item = NextItem(f)
    BY <1>2, <1>3, PrefixGrow DEF NextItem, AllListed
  <1>5. CASE CallFunction(t, item, f)
    <2>1. PICK s \in Seq(Item) : s = Append(f.seen, item)
      BY <1>2, PushLemma
    <2>2. PICK g : g = [f EXCEPT !.seen = s, !.inside = TRUE]
      OBVIOUS
    <2>3. g \in Frame /\ g.obj = f.obj /\ g.op = "each" /\ g.native = f.native
      BY <1>2, <2>1, <2>2 DEF Frame
    <2>4. BoundOK(g, objects)
      BY <1>2, <2>3, StaysBound
    <2>5. Continue(t, g)
      BY <1>5, <2>1, <2>2 DEF CallFunction, Shown
    <2>6. QED
      BY <1>1, <2>3, <2>4, <2>5, ContinueKeepsBounds
  <1>6. CASE Continue(t, [f EXCEPT !.list = Append(@, item)])
    <2>1. PICK l \in Seq(Item) : l = Append(f.list, item)
      BY <1>2, PushLemma
    <2>2. PICK g : g = [f EXCEPT !.list = l]
      OBVIOUS
    <2>3. g \in Frame /\ g.obj = f.obj /\ g.op = "each" /\ g.native = f.native
      BY <1>2, <2>1, <2>2 DEF Frame
    <2>4. BoundOK(g, objects)
      BY <1>2, <2>3, StaysBound
    <2>5. Continue(t, g)
      BY <1>6, <2>1, <2>2
    <2>6. QED
      BY <1>1, <2>3, <2>4, <2>5, ContinueKeepsBounds
  <1>7. CASE Return(t, "failed")
    BY <1>1, <1>7, PlainReturnKeepsBounds
  <1>8. QED
    BY <1>3, <1>4, <1>5, <1>6, <1>7

LEMMA EachAnswerKeepsBounds ==
    ASSUME CoreInv, BoundInv, NEW t \in Threads, EachAnswer(t)
    PROVE  BoundInv'
  <1>1. Depth(t) > 0 /\ Top(t).op = "each" /\ Top(t).inside
    BY DEF EachAnswer
  <1>2. PICK f \in Frame : f = Top(t) /\ BoundOK(f, objects) /\ f.native \in Natives
                           /\ f.list \in Seq(Item) /\ f.op = "each" /\ f.inside
                           /\ Prefix(f.list, f.native) /\ CallOK(f)
    BY <1>1, TopOK, TopBound
  <1>3. PICK item \in Item : item = NextItem(f)
    <2>1. Len(f.list) # Sizes[f.native]
      BY <1>2, ListedType, LenProperties DEF CallOK, EachOK
    <2>2. QED
      BY <1>2, <2>1, PrefixGrow DEF NextItem
  <1>4. ASSUME NEW said \in BOOLEAN,
               Continue(t, [f EXCEPT !.inside = FALSE, !.said = said, !.keep = said,
                                     !.list = Append(@, item)])
        PROVE  BoundInv'
    <2>1. PICK l \in Seq(Item) : l = Append(f.list, item)
      BY <1>2, PushLemma
    <2>2. PICK g : g = [f EXCEPT !.inside = FALSE, !.said = said, !.keep = said, !.list = l]
      OBVIOUS
    <2>3. g \in Frame /\ g.obj = f.obj /\ g.op = "each" /\ g.native = f.native
      BY <1>2, <2>1, <2>2 DEF Frame
    <2>4. BoundOK(g, objects)
      BY <1>2, <2>3, StaysBound
    <2>5. Continue(t, g)
      BY <1>4, <2>1, <2>2
    <2>6. QED
      BY <1>1, <2>3, <2>4, <2>5, ContinueKeepsBounds
  <1>5. CASE Return(t, "failed")
    BY <1>1, <1>5, PlainReturnKeepsBounds
  <1>6. CASE Crash("raise")
    BY <1>6 DEF Crash, BoundInv
  <1>7. QED
    BY <1>2, <1>3, <1>4, <1>5, <1>6 DEF EachAnswer

LEMMA EachFinishKeepsBounds ==
    ASSUME CoreInv, BoundInv, NEW t \in Threads, EachFinish(t)
    PROVE  BoundInv'
  <1>1. Depth(t) > 0 /\ AllListed(Top(t))
    BY DEF EachFinish, Runs
  <1>2. PICK f \in Frame : f = Top(t)
    BY <1>1, TopOK
  <1>3. /\ f.native \in Natives /\ f.list \in Seq(Item) /\ Prefix(f.list, f.native)
        /\ f.obj \in DOMAIN objects /\ objects[f.obj].browser # 0
        /\ f.native = objects[f.obj].browser
    BY <1>1, <1>2, TopOK, TopBound
  <1>4. f.list = Listed(objects[f.obj].browser)
    BY <1>1, <1>2, <1>3, PrefixAll DEF AllListed
  <1>5. CASE Return(t, Verdict(f.keep))
    BY <1>1, <1>5, PlainReturnKeepsBounds
  <1>6. CASE ReturnWith(t, Verdict(f.keep), Stored(objects, f.obj, Len(tuples) + 1),
                        Append(tuples, Cached(f.list)))
    <2> DEFINE objs == Stored(objects, f.obj, Len(tuples) + 1)
               tups == Append(tuples, Cached(f.list))
    <2>1. /\ ObjectsOK(extern, objs, tups) /\ TuplesOK(objs, tups) /\ SameBrowsers(objs)
          /\ BrowsersOK(objs, tups, destroyed, made)
          /\ \A p \in DOMAIN objects : Walked(objects[p]) => Walked(objs[p])
      BY <1>3, <1>4, StoreKeepsBounds
    <2>2. ReturnWith(t, Verdict(f.keep), objs, tups)
      BY <1>6
    <2> HIDE DEF objs, tups
    <2>3. QED
      BY <1>1, <2>1, <2>2, ReturnKeepsBounds
  <1>7. QED
    BY <1>2, <1>5, <1>6 DEF EachFinish, Stored

LEMMA WalkCallKeepsBounds ==
    ASSUME CoreInv, BoundInv, NEW t \in Threads, WalkCall(t)
    PROVE  BoundInv'
  <1>1. Depth(t) > 0 /\ Top(t).op = "walk"
    BY DEF WalkCall, Runs
  <1>2. PICK f \in Frame : f = Top(t)
    BY <1>1, TopOK
  <1>3. /\ BoundOK(f, objects) /\ f.native \in Natives /\ f.seen \in Seq(Item) /\ f.op = "walk"
        /\ f.native = objects[f.obj].browser
        /\ f.obj \in DOMAIN objects /\ objects[f.obj].browser # 0
    BY <1>1, <1>2, TopOK, TopBound
  <1>4. f.size = Sizes[f.native] /\ Prefix(f.seen, f.native)
    BY <1>3 DEF BoundOK
  <1>5. Cache(f.obj) # 0 => tuples[Cache(f.obj)].items = Listed(f.native)
    BY <1>3 DEF BoundInv, BrowsersOK, Cache
  <1>6. CASE /\ Len(f.seen) + 1 <= f.size /\ Cache(f.obj) # 0
             /\ CallFunction(t, tuples[Cache(f.obj)].items[Len(f.seen) + 1], f)
    <2>1. Len(f.seen) # Sizes[f.native]
      BY <1>3, <1>4, <1>6, ListedType, LenProperties
    <2>2. PICK s \in Seq(Item) : s = Append(f.seen, Listed(f.native)[Len(f.seen) + 1]) /\ Prefix(s, f.native)
      <3>1. /\ Append(f.seen, Listed(f.native)[Len(f.seen) + 1]) \in Seq(Item)
            /\ Prefix(Append(f.seen, Listed(f.native)[Len(f.seen) + 1]), f.native)
        BY <1>3, <1>4, <2>1, PrefixGrow
      <3>2. QED
        BY <3>1
    <2>3. PICK g : g = [f EXCEPT !.seen = s, !.inside = TRUE]
      OBVIOUS
    <2>4. /\ g \in Frame /\ g.obj = f.obj /\ g.op = "walk" /\ g.native = f.native
          /\ g.seen = s /\ g.size = f.size
      BY <1>3, <2>2, <2>3 DEF Frame
    <2>5. BoundOK(g, objects)
      BY <1>3, <2>2, <2>4 DEF BoundOK
    <2>6. Continue(t, g)
      BY <1>5, <1>6, <2>2, <2>3 DEF CallFunction, Shown
    <2>7. QED
      BY <1>1, <2>4, <2>5, <2>6, ContinueKeepsBounds
  <1>7. CASE Return(t, "true") \/ Return(t, "failed")
    BY <1>1, <1>7, PlainReturnKeepsBounds
  <1>8. CASE Crash("walk")
    BY <1>8 DEF Crash, BoundInv
  <1>9. QED
    BY <1>2, <1>6, <1>7, <1>8 DEF WalkCall

LEMMA WalkAnswerKeepsBounds ==
    ASSUME CoreInv, BoundInv, NEW t \in Threads, WalkAnswer(t)
    PROVE  BoundInv'
  <1>1. Depth(t) > 0
    BY DEF WalkAnswer
  <1>2. PICK f \in Frame : f = Top(t) /\ BoundOK(f, objects)
    BY <1>1, TopOK, TopBound
  <1>3. CASE Continue(t, [f EXCEPT !.inside = FALSE])
    <2>1. PICK g : g = [f EXCEPT !.inside = FALSE]
      OBVIOUS
    <2>2. /\ g \in Frame /\ g.obj = f.obj /\ g.op = f.op /\ g.native = f.native
          /\ g.seen = f.seen /\ g.size = f.size
      BY <2>1 DEF Frame
    <2>3. BoundOK(g, objects)
      BY <1>2, <2>2 DEF BoundOK
    <2>4. QED
      BY <1>1, <1>3, <2>1, <2>2, <2>3, ContinueKeepsBounds
  <1>4. CASE Return(t, "false") \/ Return(t, "failed")
    BY <1>1, <1>4, PlainReturnKeepsBounds
  <1>5. QED
    BY <1>2, <1>3, <1>4 DEF WalkAnswer

LEMMA BeginKeepsBounds ==
    ASSUME CoreInv, BoundInv, NEW t \in Threads, NEW op \in Ops, Begin(t, op),
           extern # 0, objects[extern].browser # 0, op = "walk" => objects[extern].cache # 0
    PROVE  BoundInv'
  <1>1. PICK f \in Frame : /\ f = New(op, extern) /\ f.obj = extern /\ f.op = op
                           /\ f.native = objects[extern].browser /\ f.seen = << >>
                           /\ op = "walk" => f.size = Len(tuples[objects[extern].cache].items)
    BY NewFrame
  <1>2. extern \in DOMAIN objects /\ stack \in [Threads -> Seq(Frame)]
    BY NewFrame DEF CoreInv, SettledOK, FramesOK
  <1>3. BoundOK(f, objects)
    <2>1. CASE op # "walk"
      BY <1>1, <2>1 DEF BoundOK
    <2>2. CASE op = "walk"
      <3>1. f.native \in Natives
        BY DEF Frame
      <3>2. tuples[objects[extern].cache].items = Listed(f.native)
        BY <1>1, <1>2, <2>2 DEF BoundInv, BrowsersOK
      <3>3. f.size = Sizes[f.native] /\ Prefix(f.seen, f.native)
        BY <1>1, <2>2, <3>1, <3>2, ListedType, PrefixNone
      <3>4. QED
        BY <1>1, <2>2, <3>3 DEF BoundOK, Walked
    <2>3. QED
      BY <2>1, <2>2
  <1>4. Push(t, f) \in [Threads -> Seq(Frame)] /\ Within(Push(t, f), stack, f)
    BY <1>2, PushFrames
  <1>5. CallsBound(Push(t, f), objects)
    BY <1>3, <1>4, BoundsAfter DEF BoundInv
  <1>6. stack' = Push(t, f) /\ UNCHANGED <<objects, tuples, made, destroyed>>
    BY <1>1 DEF Begin
  <1>7. CallsBound(stack', objects')
    BY <1>5, <1>6
  <1>8. QED
    BY <1>6, <1>7 DEF BoundInv

LEMMA BeginsKeepBounds ==
    ASSUME CoreInv, BoundInv, NEW t \in Threads, BeginGet(t) \/ BeginItem(t) \/ BeginEach(t)
    PROVE  BoundInv'
  <1>1. extern # 0 /\ objects[extern].browser # 0
    BY DEF BeginGet, BeginItem, BeginEach, Ready
  <1>2. PICK op \in Ops : Begin(t, op) /\ (op = "walk" => objects[extern].cache # 0)
    BY DEF BeginGet, BeginItem, BeginEach, Ops, Cache
  <1>3. QED
    BY <1>1, <1>2, BeginKeepsBounds

LEMMA BeginWalkKeepsBounds ==
    ASSUME CoreInv, BoundInv, NEW t \in Threads, BeginWalk(t)
    PROVE  BoundInv'
  <1>1. extern # 0 /\ objects[extern].browser # 0 /\ objects[extern].cache # 0
    BY DEF BeginWalk, Ready, Cache
  <1> DEFINE items == tuples[objects[extern].cache].items
             g     == Shown(New("walk", extern), items[1])
  <1>2. CASE UNCHANGED <<objects, tuples, made, destroyed, stack>>
    BY <1>2 DEF BoundInv
  <1>3. CASE /\ items # << >> /\ stack' = Push(t, g)
             /\ UNCHANGED <<objects, tuples, made, destroyed>>
    <2>1. /\ items \in Seq(Item) /\ g \in Frame /\ g.obj = extern /\ extern \in DOMAIN objects
          /\ g.op = "walk" /\ g.native = objects[extern].browser /\ g.size = Len(items)
          /\ g.seen = Append(<< >>, items[1])
      BY <1>1, <1>3, WalkFrame
    <2>2. PICK n \in Natives : n = objects[extern].browser
      BY <1>1, <2>1, ObjectsType DEF CoreInv, SettledOK, ObjectsOK, Object
    <2>3. items = Listed(n)
      BY <1>1, <2>1, <2>2 DEF BoundInv, BrowsersOK
    <2>4. Len(items) = Sizes[n] /\ Sizes[n] \in Nat
      BY <2>2, <2>3, ListedType
    <2>5. Len(<< >>) = 0 /\ (Len(items) = 0 => items = << >>) /\ << >> \in Seq(Item)
      BY <2>1, EmptySeq
    <2>6. Prefix(Append(<< >>, Listed(n)[1]), n)
      <3>1. Len(<< >>) # Sizes[n] /\ Prefix(<< >>, n) /\ Len(<< >>) + 1 = 1
        BY <1>3, <2>2, <2>4, <2>5, PrefixNone
      <3>2. Prefix(Append(<< >>, Listed(n)[Len(<< >>) + 1]), n)
        BY <2>2, <2>5, <3>1, PrefixGrow
      <3>3. QED
        BY <3>1, <3>2
    <2>7. BoundOK(g, objects)
      <3> HIDE DEF g, items
      <3>1. QED
        BY <1>1, <2>1, <2>2, <2>3, <2>4, <2>6 DEF BoundOK, Walked
    <2>8. stack \in [Threads -> Seq(Frame)]
      BY DEF CoreInv, SettledOK, FramesOK
    <2> HIDE DEF g
    <2>9. Push(t, g) \in [Threads -> Seq(Frame)] /\ Within(Push(t, g), stack, g)
      BY <2>1, <2>8, PushFrames
    <2>10. CallsBound(Push(t, g), objects)
      BY <2>7, <2>9, BoundsAfter DEF BoundInv
    <2>11. CallsBound(stack', objects')
      BY <1>3, <2>10
    <2>12. QED
      BY <1>3, <2>11 DEF BoundInv
  <1>4. QED
    BY <1>2, <1>3 DEF BeginWalk, Cache

\* A new object has the next C++ browser, or none.
WithNew(b) == Append(objects, Fresh(b))

\* The C++ browser of a new object, and how many there are then.
NextMade(b, m) ==
    \/ b = 0 /\ m = made
    \/ b = made + 1 /\ m = b

LEMMA NewObjectKeepsBounds ==
    ASSUME CoreInv, BoundInv, Len(objects) < MaxObjects,
           NEW b \in {0} \union Natives, NEW m, NextMade(b, m),
           Settle(Len(objects) + 1, stack, WithNew(b), tuples, destroyed)
    PROVE  BrowsersOK(objects', tuples', destroyed', m) /\ CallsBound(stack', objects')
  <1> DEFINE objs == Append(objects, Fresh(b))
  <1>1. /\ ObjectsOK(extern, objects, tuples) /\ TuplesOK(objects, tuples)
        /\ FramesOK(stack, objects)
    BY DEF CoreInv, SettledOK
  <1>2. /\ DOMAIN objs = 1..(Len(objects) + 1)
        /\ \A o \in DOMAIN objects : objs[o] = objects[o]
        /\ objs[Len(objects) + 1] = Fresh(b)
    BY <1>1, NewObjectKeeps
  <1>3. SettledOK(Len(objects) + 1, stack, objs, tuples, destroyed)
    BY NewObjectSettled
  <1>4. Settle(Len(objects) + 1, stack, objs, tuples, destroyed)
    BY DEF WithNew
  <1>5. Len(objects) \in Nat /\ DOMAIN objects = 1..Len(objects)
    BY <1>1, ObjectsType
  <1>6. made \in Nat /\ m \in Nat /\ made <= m
    BY PyBrowserAssumption, LenProperties DEF CoreInv, Natives, NextMade
  <1> HIDE DEF objs
  <1>7. CallsBound(stack, objs)
    <2>1. \A t \in Threads : \A d \in DOMAIN stack[t] : objs[stack[t][d].obj] = objects[stack[t][d].obj]
      BY <1>1, <1>2 DEF FramesOK
    <2>2. QED
      BY <2>1, BoundsKept DEF BoundInv
  <1>8. BrowsersOK(objs, tuples, destroyed, m)
    <2>1. destroyed \subseteq 0..made /\ destroyed \subseteq 0..m
      BY <1>6 DEF BoundInv, BrowsersOK
    <2>2. PICK n \in DOMAIN objs : /\ n = Len(objects) + 1 /\ n \notin DOMAIN objects
                                   /\ objs[n].browser = b /\ objs[n].cache = 0
      BY <1>2, <1>5 DEF Fresh
    <2>3. \A o \in DOMAIN objs : o \in DOMAIN objects \/ o = n
      BY <1>2, <1>5, <2>2
    <2>4. \A o \in DOMAIN objects :
              objects[o].browser # 0 => /\ objects[o].browser \in 1..m
                                        /\ objects[o].browser \notin destroyed
                                        /\ objects[o].browser # made + 1
      BY <1>6 DEF BoundInv, BrowsersOK
    <2>5. b # 0 => b \in 1..m /\ b \notin destroyed /\ b = made + 1
      BY <1>6, <2>1 DEF NextMade
    <2>6. \A o \in DOMAIN objs :
              /\ objs[o].browser # 0 => objs[o].browser \in 1..m /\ objs[o].browser \notin destroyed
              /\ objs[o].cache # 0 => objs[o].browser # 0 /\
                                      tuples[objs[o].cache].items = Listed(objs[o].browser)
      BY <1>2, <2>2, <2>3, <2>4, <2>5 DEF BoundInv, BrowsersOK
    <2>7. \A o, p \in DOMAIN objs : objs[o].browser = objs[p].browser => o = p \/ objs[o].browser = 0
      BY <1>2, <2>2, <2>3, <2>4, <2>5 DEF BoundInv, BrowsersOK
    <2>8. QED
      BY <2>1, <2>6, <2>7 DEF BrowsersOK
  <1>9. QED
    BY <1>3, <1>4, <1>6, <1>7, <1>8, SettleKeepsBounds

LEMMA ConstructKeepsBounds ==
    ASSUME CoreInv, BoundInv, NEW t \in Threads, Construct(t)
    PROVE  BoundInv'
  <1>1. CASE UNCHANGED <<extern, objects, tuples, made, destroyed, stack>>
    BY <1>1 DEF BoundInv
  <1>2. CASE /\ made < Len(Sizes)
             /\ Len(objects) < MaxObjects
             /\ made' = made + 1
             /\ Settle(Len(objects) + 1, stack,
                       Append(objects, Fresh(made')), tuples, destroyed)
    <2>1. made' \in Natives /\ made' = made + 1
      BY <1>2, NextNative
    <2>2. BrowsersOK(objects', tuples', destroyed', made') /\ CallsBound(stack', objects')
      BY <1>2, <2>1, NewObjectKeepsBounds DEF WithNew, NextMade
    <2>3. QED
      BY <2>2 DEF BoundInv
  <1>3. QED
    BY <1>1, <1>2 DEF Construct

LEMMA NewUninitializedKeepsBounds ==
    ASSUME CoreInv, BoundInv, NEW t \in Threads, NewUninitialized(t)
    PROVE  BoundInv'
  <1>1. /\ Len(objects) < MaxObjects
        /\ Settle(Len(objects) + 1, stack, WithNew(0), tuples, destroyed)
        /\ made' = made
    BY DEF NewUninitialized, WithNew
  <1>2. BrowsersOK(objects', tuples', destroyed', made') /\ CallsBound(stack', objects')
    <2>1. 0 \in {0} \union Natives /\ NextMade(0, made')
      BY <1>1 DEF NextMade
    <2>2. QED
      BY <1>1, <2>1, NewObjectKeepsBounds
  <1>3. QED
    BY <1>2 DEF BoundInv

\* The C++ browser that __init__ replaces is nobody else's, and no call is in it.
LEMMA ReinitKeepsBounds ==
    ASSUME CoreInv, BoundInv, Disciplined, NEW t \in Threads, Reinit(t)
    PROVE  BoundInv'
  <1>1. extern # 0 /\ ~InUse(extern)
    BY DEF Reinit
  <1>2. CASE UNCHANGED <<extern, objects, tuples, made, destroyed, stack>>
    BY <1>2 DEF BoundInv
  <1>3. CASE /\ made < Len(Sizes)
             /\ made' = made + 1
             /\ Settle(extern, stack,
                       [objects EXCEPT ![extern] = Fresh(made')],
                       Released(tuples, objects[extern].cache),
                       destroyed \union {objects[extern].browser})
    <2>1. PICK b \in Natives : b = made' /\ b = made + 1 /\ made \in Nat
      BY <1>3, NextNative
    <2> DEFINE objs == [objects EXCEPT ![extern] = Fresh(b)]
               tups == Released(tuples, objects[extern].cache)
               old  == objects[extern].browser
    <2>2. /\ ObjectsOK(extern, objects, tuples) /\ TuplesOK(objects, tuples)
          /\ FramesOK(stack, objects)
      BY DEF CoreInv, SettledOK
    <2>3. extern \in DOMAIN objects
      BY <1>1, <2>2, ObjectsType DEF ObjectsOK
    <2>4. /\ DOMAIN objs = DOMAIN objects
          /\ \A o \in DOMAIN objects :
                objs[o] = IF o = extern THEN Fresh(b) ELSE objects[o]
          /\ \A i \in DOMAIN tuples : tups[i].items = tuples[i].items
      <3>1. \A i \in DOMAIN tuples : tuples[i] \in Tuple
        BY <2>2, TuplesType
      <3>2. \A i \in DOMAIN tuples : tups[i].items = tuples[i].items
        BY <3>1 DEF Released, Tuple
      <3>3. QED
        BY <2>3, <3>2
    <2>5. SettledOK(extern, stack, objs, tups, destroyed \union {old})
      BY <1>1, <2>1, ReinitSettled
    <2>6. Settle(extern, stack, objs, tups, destroyed \union {old})
      BY <1>3, <2>1
    <2> HIDE DEF objs, tups
    <2>7. CallsBound(stack, objs)
      <3>1. \A u \in Threads : \A d \in DOMAIN stack[u] :
                stack[u][d].obj \in DOMAIN objects /\ stack[u][d].obj # extern
        BY <1>1, <2>2 DEF FramesOK, InUse
      <3>2. \A u \in Threads : \A d \in DOMAIN stack[u] :
                objs[stack[u][d].obj] = objects[stack[u][d].obj]
        BY <2>4, <3>1
      <3>3. QED
        BY <3>2, BoundsKept DEF BoundInv
    <2>8. BrowsersOK(objects, tups, destroyed, made)
      BY <2>2, <2>4, ItemsKept DEF BoundInv
    <2>9. BrowsersOK(objs, tups, destroyed \union {old}, b)
      <3>1. old \in 0..made /\ destroyed \subseteq 0..made
        <4>1. old # 0 => old \in 1..made
          BY <2>3, <2>8 DEF BrowsersOK
        <4>2. old = 0 \/ old \in 1..made => old \in 0..made
          BY <2>1
        <4>3. destroyed \subseteq 0..made
          BY <2>8 DEF BrowsersOK
        <4>4. QED
          BY <4>1, <4>2, <4>3
      <3>2. destroyed \union {old} \subseteq 0..b /\ b \notin destroyed \union {old} /\ b \in 1..b
        <4>1. \A n \in 0..made : n \in 0..b /\ n # b
          BY <2>1
        <4>2. b \in 1..b
          BY <2>1
        <4> HIDE DEF old
        <4>3. QED
          BY <3>1, <4>1, <4>2
      <3>3. \A o \in DOMAIN objects \ {extern} :
                objects[o].browser # 0 => /\ objects[o].browser \in 1..b /\ objects[o].browser # b
                                          /\ objects[o].browser \notin destroyed \union {old}
        BY <2>1, <2>3, <2>8 DEF BrowsersOK
      <3>4. \A o \in DOMAIN objs :
                /\ objs[o].browser # 0 =>
                      objs[o].browser \in 1..b /\ objs[o].browser \notin destroyed \union {old}
                /\ objs[o].cache # 0 => objs[o].browser # 0 /\
                                        tups[objs[o].cache].items = Listed(objs[o].browser)
        BY <2>4, <2>8, <3>2, <3>3 DEF BrowsersOK, Fresh
      <3>5. \A o, p \in DOMAIN objs : objs[o].browser = objs[p].browser => o = p \/ objs[o].browser = 0
        BY <2>4, <2>8, <3>3 DEF BrowsersOK, Fresh
      <3>6. QED
        BY <3>2, <3>4, <3>5 DEF BrowsersOK
    <2>10. b \in Nat
      BY <2>1
    <2>11. BrowsersOK(objects', tuples', destroyed', b) /\ CallsBound(stack', objects')
      BY <2>5, <2>6, <2>7, <2>9, <2>10, SettleKeepsBounds
    <2>12. QED
      BY <2>1, <2>11 DEF BoundInv
  <1>4. QED
    BY <1>2, <1>3 DEF Reinit, Released

LEMMA GetCachedKeepsBounds ==
    ASSUME CoreInv, BoundInv, NEW t \in Threads, GetCached(t)
    PROVE  BoundInv'
  <1>1. /\ ObjectsOK(extern, objects, tuples) /\ TuplesOK(objects, tuples)
        /\ objects \in Seq(Object)
    BY DEF CoreInv, SettledOK, ObjectsOK
  <1>2. objects[extern].cache \in DOMAIN tuples
    <2>1. /\ Len(objects) \in Nat /\ DOMAIN objects = 1..Len(objects) /\ extern \in 0..Len(objects)
          /\ \A o \in DOMAIN objects : objects[o].cache \in 0..Len(tuples)
          /\ DOMAIN tuples = 1..Len(tuples) /\ Len(tuples) \in Nat
      BY <1>1, ObjectsType, TuplesType DEF ObjectsOK
    <2>2. extern # 0 /\ objects[extern].cache # 0
      BY DEF GetCached, Ready, Cache
    <2>3. extern \in DOMAIN objects
      BY <2>1, <2>2
    <2>4. QED
      BY <2>1, <2>2, <2>3
  <1>3. PICK op : tuples' = Given(op, tuples, objects[extern].cache)
    BY DEF GetCached, Cache
  <1>4. \A i \in DOMAIN tuples : tuples'[i].items = tuples[i].items
    BY <1>1, <1>2, <1>3, GivenKeeps
  <1>5. BrowsersOK(objects, tuples', destroyed, made)
    BY <1>1, <1>4, ItemsKept DEF BoundInv
  <1>6. UNCHANGED <<objects, made, destroyed, stack>>
    BY DEF GetCached
  <1>7. QED
    BY <1>5, <1>6 DEF BoundInv

LEMMA ForgetKeepsBounds ==
    ASSUME CoreInv, BoundInv, Forget
    PROVE  BoundInv'
  <1>1. SettledOK(0, stack, objects, tuples, destroyed)
    BY ObjectsType DEF CoreInv, SettledOK, ObjectsOK
  <1>2. Settle(0, stack, objects, tuples, destroyed) /\ UNCHANGED made
    BY DEF Forget
  <1>3. made \in Nat
    BY PyBrowserAssumption, LenProperties DEF CoreInv, Natives
  <1>4. BrowsersOK(objects', tuples', destroyed', made) /\ CallsBound(stack', objects')
    BY <1>1, <1>2, <1>3, SettleKeepsBounds DEF BoundInv
  <1>5. QED
    BY <1>2, <1>4 DEF BoundInv

LEMMA DropKeepsBounds ==
    ASSUME CoreInv, BoundInv, NEW i \in DOMAIN tuples, Drop(i)
    PROVE  BoundInv'
  <1>1. /\ ObjectsOK(extern, objects, tuples) /\ TuplesOK(objects, tuples)
        /\ \A j \in DOMAIN tuples : tuples[j] \in Tuple
    BY TuplesType DEF CoreInv, SettledOK
  <1>2. \A j \in DOMAIN tuples : tuples'[j].items = tuples[j].items
    <2>1. \A j \in DOMAIN tuples :
              tuples'[j] = IF j = i THEN [tuples[i] EXCEPT !.owned = tuples[i].owned - 1,
                                                          !.refs = tuples[i].refs - 1]
                           ELSE tuples[j]
      BY DEF Drop
    <2>2. [tuples[i] EXCEPT !.owned = tuples[i].owned - 1, !.refs = tuples[i].refs - 1] =
              [items |-> tuples[i].items, refs |-> tuples[i].refs - 1, owned |-> tuples[i].owned - 1]
      BY <1>1, TupleExcept
    <2>3. QED
      BY <2>1, <2>2
  <1>3. BrowsersOK(objects, tuples', destroyed, made)
    BY <1>1, <1>2, ItemsKept DEF BoundInv
  <1>4. UNCHANGED <<objects, made, destroyed, stack>>
    BY DEF Drop
  <1>5. QED
    BY <1>3, <1>4 DEF BoundInv

LEMMA BoundInit == Init => BoundInv
  <1> SUFFICES ASSUME Init
               PROVE  BoundInv
    OBVIOUS
  <1>1. DOMAIN << >> = {}
    BY EmptySeq, LenProperties
  <1>2. QED
    BY <1>1 DEF Init, BoundInv, BrowsersOK, CallsBound

LEMMA BoundStep ==
    ASSUME Disciplined
    PROVE  CoreInv /\ BoundInv /\ [Next]_vars => BoundInv'
  <1> SUFFICES ASSUME CoreInv, BoundInv, [Next]_vars
               PROVE  BoundInv'
    OBVIOUS
  <1>1. CASE UNCHANGED vars
    BY <1>1 DEF BoundInv, vars
  <1>2. ASSUME NEW t \in Threads, InCall(t)
        PROVE  BoundInv'
    BY <1>2, GetConvertKeepsBounds, GetFinishKeepsBounds, ItemConvertKeepsBounds,
       EachConvertKeepsBounds, EachAnswerKeepsBounds, EachFinishKeepsBounds,
       WalkCallKeepsBounds, WalkAnswerKeepsBounds DEF InCall
  <1>3. ASSUME NEW t \in Threads, Client(t)
        PROVE  BoundInv'
    <2>1. CASE Construct(t) \/ NewUninitialized(t) \/ Reinit(t)
      BY <2>1, ConstructKeepsBounds, NewUninitializedKeepsBounds, ReinitKeepsBounds
    <2>2. CASE BeginGet(t) \/ BeginItem(t) \/ BeginEach(t) \/ BeginWalk(t)
      BY <2>2, BeginsKeepBounds, BeginWalkKeepsBounds
    <2>3. CASE GetCached(t)
      BY <2>3, GetCachedKeepsBounds
    <2>4. CASE Refuse(t)
      BY <2>4 DEF Refuse, Crash, BoundInv
    <2>5. QED
      BY <1>3, <2>1, <2>2, <2>3, <2>4 DEF Client
  <1>4. CASE Rest
    BY <1>4 DEF BoundInv, Rest, vars
  <1>5. QED
    BY <1>1, <1>2, <1>3, <1>4, ForgetKeepsBounds, DropKeepsBounds DEF Next

LEMMA BoundInvariant ==
    ASSUME Disciplined
    PROVE  Spec => [](CoreInv /\ BoundInv)
  <1>1. CoreInv /\ BoundInv /\ [Next]_vars => BoundInv'
    BY BoundStep
  <1>2. QED
    BY <1>1, BoundInit, CoreInit, CoreStep, PTL DEF Spec
-----------------------------------------------------------------------------
(* What the second part of the invariant says to the client. *)

\* While no method of an extension object runs when its __init__ is called again,
\* the cached tuple of an object is the whole list of the C++ browser that it has
\* now, whichever way it was filled, and len() says the same with and without it.
THEOREM CacheAlwaysComplete ==
    ASSUME Disciplined
    PROVE  Spec => []CachedIsComplete
  <1>1. CoreInv /\ BoundInv => CachedIsComplete
    <2> SUFFICES ASSUME CoreInv, BoundInv, NEW o \in DOMAIN objects, objects[o].browser # 0
                 PROVE  /\ Cache(o) # 0 => tuples[Cache(o)].items = Listed(objects[o].browser)
                        /\ Length(o) = Sizes[objects[o].browser]
      BY DEF CachedIsComplete
    <2>1. objects[o].browser \in Natives
      BY ObjectsType DEF CoreInv, SettledOK, ObjectsOK, Object
    <2>2. Cache(o) # 0 => tuples[Cache(o)].items = Listed(objects[o].browser)
      BY DEF BoundInv, BrowsersOK, Cache
    <2>3. Len(Listed(objects[o].browser)) = Sizes[objects[o].browser]
      BY <2>1, ListedType
    <2>4. QED
      BY <2>2, <2>3 DEF Length
  <1>2. QED
    BY <1>1, BoundInvariant, PTL

\* A frame is somewhere on the stack of a thread.
LEMMA FrameInUse ==
    ASSUME CoreInv, NEW f \in Frames
    PROVE  /\ f \in Frame /\ CallOK(f)
           /\ f.obj \in DOMAIN objects /\ objects[f.obj].browser # 0
           /\ BoundInv => BoundOK(f, objects)
  <1>1. PICK t \in Threads : f \in {stack[t][d] : d \in DOMAIN stack[t]}
    BY DEF Frames
  <1>2. PICK d \in DOMAIN stack[t] : f = stack[t][d]
    BY <1>1
  <1>3. stack[t] \in Seq(Frame) /\ FramesOK(stack, objects)
    BY DEF CoreInv, SettledOK, FramesOK
  <1>4. f \in Frame
    BY <1>2, <1>3, LenProperties, ElementOfSeq
  <1>5. QED
    BY <1>2, <1>3, <1>4 DEF FramesOK, BoundInv, CallsBound

\* While no method of an extension object runs when its __init__ is called again,
\* no C++ browser is destroyed under an iteration or a conversion, and no tuple
\* is missing from under a call that walks it, unless a conversion for the same
\* object failed.
THEOREM AlwaysReadsWhatIsThere ==
    ASSUME Disciplined
    PROVE  Spec => []ReadsWhatIsThere
  <1>1. CoreInv /\ BoundInv => ReadsWhatIsThere
    <2> SUFFICES ASSUME CoreInv, BoundInv, NEW f \in Frames
                 PROVE  /\ f.native \notin destroyed
                        /\ f.op = "walk" => Cache(f.obj) # 0 \/ objects[f.obj].lost
      BY DEF ReadsWhatIsThere
    <2>1. f.obj \in DOMAIN objects /\ objects[f.obj].browser # 0 /\ BoundOK(f, objects)
      BY FrameInUse
    <2>2. QED
      BY <2>1 DEF BoundOK, BoundInv, BrowsersOK, Cache, Walked
  <1>2. QED
    BY <1>1, BoundInvariant, PTL

\* While no method of an extension object runs when its __init__ is called again,
\* the client's function is called with the first interfaces of one browser, none
\* left out, repeated or out of order.
THEOREM AlwaysCalledInOrder ==
    ASSUME Disciplined
    PROVE  Spec => []CalledInOrder
  <1>1. CoreInv /\ BoundInv => CalledInOrder
    <2> SUFFICES ASSUME CoreInv, BoundInv, NEW f \in Frames
                 PROVE  Prefix(f.seen, f.native)
      BY DEF CalledInOrder, Prefix
    <2>1. f \in Frame /\ CallOK(f) /\ BoundOK(f, objects)
      BY FrameInUse
    <2>2. f.native \in Natives
      BY <2>1 DEF Frame
    <2>3. CASE f.op = "walk"
      BY <2>1, <2>3 DEF BoundOK
    <2>4. CASE f.op = "each"
      BY <2>1, <2>4 DEF CallOK, EachOK
    <2>5. CASE f.op \notin {"each", "walk"}
      BY <2>1, <2>2, <2>5, PrefixNone DEF CallOK
    <2>6. QED
      BY <2>3, <2>4, <2>5
  <1>2. QED
    BY <1>1, BoundInvariant, PTL

-----------------------------------------------------------------------------
(* What a step shows the client's function, and what it answers. *)

\* AnswersTruly, for one thread.
AnswerTrue(t) ==
    Depth(t) > 0 =>
       LET f == Top(t)
       IN /\ stack'[t] = SubSeq(stack[t], 1, Depth(t) - 1) =>
                /\ answer'[t] = "true" => f.said /\ f.seen = Listed(f.native)
                /\ answer'[t] = "false" => f.seen # << >> /\ (f.op = "each" => ~f.said)
          /\ Len(stack'[t]) = Depth(t) /\ ~f.said => stack'[t][Depth(t)].seen = f.seen

LEMMA StillTrue ==
    ASSUME CoreInv, NEW t \in Threads, stack'[t] = stack[t]
    PROVE  AnswerTrue(t)
  <1> SUFFICES ASSUME Depth(t) > 0
               PROVE  AnswerTrue(t)
    BY DEF AnswerTrue
  <1>1. stack[t] \in Seq(Frame) /\ stack[t] # << >> /\ Depth(t) \in Nat
    BY TopFrame DEF CoreInv, SettledOK
  <1>2. Len(SubSeq(stack[t], 1, Len(stack[t]) - 1)) = Len(stack[t]) - 1
    BY <1>1, PopLemma
  <1>3. stack'[t] # SubSeq(stack[t], 1, Depth(t) - 1)
    BY <1>1, <1>2 DEF Depth
  <1>4. QED
    BY <1>3 DEF AnswerTrue, Top

LEMMA PushTrue ==
    ASSUME CoreInv, NEW u \in Threads, NEW g \in Frame, stack' = Push(u, g)
    PROVE  \A t \in Threads : AnswerTrue(t)
  <1> SUFFICES ASSUME NEW t \in Threads
               PROVE  AnswerTrue(t)
    OBVIOUS
  <1>1. stack \in [Threads -> Seq(Frame)]
    BY DEF CoreInv, SettledOK, FramesOK
  <1>2. CASE t # u
    BY <1>1, <1>2, StillTrue DEF Push
  <1>3. CASE t = u
    <2> SUFFICES ASSUME Depth(t) > 0
                 PROVE  AnswerTrue(t)
      BY DEF AnswerTrue
    <2>1. stack[t] \in Seq(Frame) /\ stack[t] # << >> /\ Depth(t) \in Nat
      BY TopFrame DEF CoreInv, SettledOK
    <2>2. stack'[t] = Append(stack[t], g)
      BY <1>1, <1>3 DEF Push
    <2>3. Len(stack'[t]) = Depth(t) + 1
      BY <2>1, <2>2, PushLemma DEF Depth
    <2>4. Len(SubSeq(stack[t], 1, Depth(t) - 1)) = Depth(t) - 1
      BY <2>1, PopLemma DEF Depth
    <2>5. stack'[t] # SubSeq(stack[t], 1, Depth(t) - 1) /\ Len(stack'[t]) # Depth(t)
      BY <2>1, <2>3, <2>4
    <2>6. QED
      BY <2>5 DEF AnswerTrue
  <1>4. QED
    BY <1>2, <1>3

LEMMA ReplaceTrue ==
    ASSUME CoreInv, NEW u \in Threads, Depth(u) > 0, NEW g \in Frame, stack' = Replace(u, g),
           ~Top(u).said => g.seen = Top(u).seen
    PROVE  \A t \in Threads : AnswerTrue(t)
  <1> SUFFICES ASSUME NEW t \in Threads
               PROVE  AnswerTrue(t)
    OBVIOUS
  <1>1. stack \in [Threads -> Seq(Frame)]
    BY DEF CoreInv, SettledOK, FramesOK
  <1>2. CASE t # u
    BY <1>1, <1>2, StillTrue DEF Replace
  <1>3. CASE t = u
    <2>1. stack[t] \in Seq(Frame) /\ stack[t] # << >> /\ Depth(t) \in Nat
      BY <1>3, TopFrame DEF CoreInv, SettledOK
    <2>2. stack'[t] = [stack[t] EXCEPT ![Len(stack[t])] = g]
      BY <1>1, <1>3 DEF Replace
    <2>3. Len(stack'[t]) = Depth(t) /\ stack'[t][Depth(t)] = g
      BY <2>1, <2>2, ReplaceLemma DEF Depth
    <2>4. Len(SubSeq(stack[t], 1, Depth(t) - 1)) = Depth(t) - 1
      BY <2>1, PopLemma DEF Depth
    <2>5. stack'[t] # SubSeq(stack[t], 1, Depth(t) - 1)
      BY <2>1, <2>3, <2>4
    <2>6. QED
      BY <1>3, <2>3, <2>5 DEF AnswerTrue
  <1>4. QED
    BY <1>2, <1>3

LEMMA PopTrue ==
    ASSUME CoreInv, NEW u \in Threads, Depth(u) > 0, NEW kind, stack' = Pop(u),
           answer' = [answer EXCEPT ![u] = kind],
           kind = "true" => Top(u).said /\ Top(u).seen = Listed(Top(u).native),
           kind = "false" => Top(u).seen # << >> /\ (Top(u).op = "each" => ~Top(u).said)
    PROVE  \A t \in Threads : AnswerTrue(t)
  <1> SUFFICES ASSUME NEW t \in Threads
               PROVE  AnswerTrue(t)
    OBVIOUS
  <1>1. stack \in [Threads -> Seq(Frame)] /\ answer \in [Threads -> Kinds]
    BY DEF CoreInv, SettledOK, FramesOK
  <1>2. CASE t # u
    BY <1>1, <1>2, StillTrue DEF Pop
  <1>3. CASE t = u
    <2>1. stack[t] \in Seq(Frame) /\ stack[t] # << >> /\ Depth(t) \in Nat
      BY <1>3, TopFrame DEF CoreInv, SettledOK
    <2>2. stack'[t] = SubSeq(stack[t], 1, Len(stack[t]) - 1) /\ answer'[t] = kind
      BY <1>1, <1>3 DEF Pop
    <2>3. Len(stack'[t]) = Depth(t) - 1
      BY <2>1, <2>2, PopLemma DEF Depth
    <2>4. Len(stack'[t]) # Depth(t)
      BY <2>1, <2>3
    <2>5. QED
      BY <1>3, <2>2, <2>4 DEF AnswerTrue
  <1>4. QED
    BY <1>2, <1>3

\* A step that only changes the frame of its call, and what it is shown only
\* while its function has not said stop.
LEMMA ContinueTrue ==
    ASSUME CoreInv, CoreInv', NEW u \in Threads, Depth(u) > 0, NEW g, Continue(u, g),
           ~Top(u).said => g.seen = Top(u).seen
    PROVE  \A t \in Threads : AnswerTrue(t)
  <1>1. /\ stack \in [Threads -> Seq(Frame)] /\ stack' \in [Threads -> Seq(Frame)]
        /\ stack' = Replace(u, g)
    BY DEF CoreInv, SettledOK, FramesOK, Continue
  <1>2. stack[u] # << >> /\ Depth(u) \in DOMAIN stack[u]
    BY TopFrame DEF CoreInv, SettledOK
  <1>3. stack'[u] = [stack[u] EXCEPT ![Len(stack[u])] = g]
    BY <1>1 DEF Replace
  <1>4. Depth(u) \in DOMAIN stack'[u] /\ stack'[u][Depth(u)] = g
    BY <1>2, <1>3 DEF Depth
  <1>5. stack'[u] \in Seq(Frame)
    BY <1>1
  <1>6. g \in Frame
    BY <1>4, <1>5, LenProperties, ElementOfSeq
  <1>7. QED
    BY <1>1, <1>6, ReplaceTrue

\* A call that ends without answering for the function.
LEMMA ReturnTrue ==
    ASSUME CoreInv, NEW u \in Threads, Depth(u) > 0, NEW kind, NEW objs, NEW tups,
           ReturnWith(u, kind, objs, tups),
           kind = "true" => Top(u).said /\ Top(u).seen = Listed(Top(u).native),
           kind = "false" => Top(u).seen # << >> /\ (Top(u).op = "each" => ~Top(u).said)
    PROVE  \A t \in Threads : AnswerTrue(t)
  <1>1. stack' = Pop(u) /\ answer' = [answer EXCEPT ![u] = kind]
    BY DEF ReturnWith, Settle
  <1>2. QED
    BY <1>1, PopTrue

LEMMA PlainReturnTrue ==
    ASSUME CoreInv, NEW u \in Threads, Depth(u) > 0, NEW kind, Return(u, kind),
           kind \notin {"true", "false"}
    PROVE  \A t \in Threads : AnswerTrue(t)
  <1>1. ReturnWith(u, kind, objects, tuples)
    BY DEF Return
  <1>2. QED
    BY <1>1, ReturnTrue

LEMMA GetTrue ==
    ASSUME CoreInv, CoreInv', NEW u \in Threads, GetConvert(u) \/ GetFinish(u) \/ ItemConvert(u)
    PROVE  \A t \in Threads : AnswerTrue(t)
  <1>1. Depth(u) > 0
    BY DEF GetConvert, GetFinish, ItemConvert, Runs
  <1>2. PICK f \in Frame : f = Top(u)
    BY <1>1, TopOK
  <1>3. CASE GetConvert(u)
    <2>1. CASE Continue(u, [f EXCEPT !.list = Append(@, NextItem(f))])
      <3>1. PICK g : g = [f EXCEPT !.list = Append(@, NextItem(f))]
        OBVIOUS
      <3>2. g.seen = f.seen
        BY <3>1 DEF Frame
      <3>3. QED
        BY <1>1, <1>2, <2>1, <3>1, <3>2, ContinueTrue
    <2>2. CASE ReturnWith(u, "failed", Overwritten(f.obj), tuples)
      BY <1>1, <2>2, ReturnTrue
    <2>3. CASE Crash("iter")
      BY <2>3, StillTrue DEF Crash
    <2>4. QED
      BY <1>2, <1>3, <2>1, <2>2, <2>3 DEF GetConvert
  <1>4. CASE GetFinish(u)
    <2>1. ASSUME NEW objs, NEW tups, ReturnWith(u, "done", objs, tups)
          PROVE  \A t \in Threads : AnswerTrue(t)
      BY <1>1, <2>1, ReturnTrue
    <2>2. PICK g : g = [f EXCEPT !.op = "item", !.list = << >>, !.native = objects[f.obj].browser]
      OBVIOUS
    <2>3. ASSUME NEW objs, NEW tups, Settle(extern, Replace(u, g), objs, tups, destroyed)
          PROVE  \A t \in Threads : AnswerTrue(t)
      <3>1. f.obj \in DOMAIN objects /\ objects[f.obj].browser \in {0} \union Natives
            /\ objects[f.obj].browser # 0
        BY <1>1, <1>2, TopOK, ObjectsType DEF CoreInv, SettledOK, ObjectsOK, Object
      <3>2. << >> \in Seq(Item)
        BY EmptySeq
      <3>3. g \in Frame /\ g.seen = f.seen
        BY <2>2, <3>1, <3>2 DEF Frame, Ops
      <3>4. stack' = Replace(u, g)
        BY <2>3 DEF Settle
      <3>5. QED
        BY <1>1, <1>2, <3>3, <3>4, ReplaceTrue
    <2>4. QED
      BY <1>2, <1>4, <2>1, <2>2, <2>3 DEF GetFinish
  <1>5. CASE ItemConvert(u)
    <2>1. CASE Crash("destroyed")
      BY <2>1, StillTrue DEF Crash
    <2>2. CASE Return(u, "done") \/ Return(u, "failed")
      BY <1>1, <2>2, PlainReturnTrue
    <2>3. QED
      BY <1>5, <2>1, <2>2 DEF ItemConvert
  <1>6. QED
    BY <1>3, <1>4, <1>5

\* Without the tuple the function is shown an interface only while it says go on,
\* and the verdict is given when it has been shown all of them or said stop.
LEMMA EachTrue ==
    ASSUME CoreInv, CoreInv', NEW u \in Threads, EachConvert(u) \/ EachAnswer(u) \/ EachFinish(u)
    PROVE  \A t \in Threads : AnswerTrue(t)
  <1>1. Depth(u) > 0 /\ Top(u).op = "each"
    BY DEF EachConvert, EachAnswer, EachFinish, Runs
  <1>2. PICK f \in Frame : f = Top(u)
    BY <1>1, TopOK
  <1>3. /\ f.keep = f.said /\ f.seen \in Seq(Item) /\ f.list \in Seq(Item) /\ f.native \in Natives
        /\ f.keep \in BOOLEAN /\ f.op = "each" /\ Prefix(f.seen, f.native) /\ EachOK(f)
    BY <1>1, <1>2, TopOK DEF CallOK, EachOK, Frame
  <1>4. CASE EachConvert(u)
    <2>1. CASE f.keep /\ CallFunction(u, NextItem(f), f)
      <3>1. PICK g : g = [f EXCEPT !.seen = Append(@, NextItem(f)), !.inside = TRUE]
        OBVIOUS
      <3>2. Continue(u, g) /\ f.said
        BY <1>3, <2>1, <3>1 DEF CallFunction, Shown
      <3>3. QED
        BY <1>1, <1>2, <3>2, ContinueTrue
    <2>2. CASE Continue(u, [f EXCEPT !.list = Append(@, NextItem(f))])
      <3>1. PICK g : g = [f EXCEPT !.list = Append(@, NextItem(f))]
        OBVIOUS
      <3>2. g.seen = f.seen
        BY <3>1 DEF Frame
      <3>3. QED
        BY <1>1, <1>2, <2>2, <3>1, <3>2, ContinueTrue
    <2>3. CASE Return(u, "failed")
      BY <1>1, <2>3, PlainReturnTrue
    <2>4. CASE Crash("destroyed")
      BY <2>4, StillTrue DEF Crash
    <2>5. QED
      BY <1>2, <1>4, <2>1, <2>2, <2>3, <2>4 DEF EachConvert
  <1>5. CASE EachAnswer(u)
    <2>1. ASSUME NEW said \in BOOLEAN,
                 Continue(u, [f EXCEPT !.inside = FALSE, !.said = said, !.keep = said,
                                       !.list = Append(@, NextItem(f))])
          PROVE  \A t \in Threads : AnswerTrue(t)
      <3>1. PICK g : g = [f EXCEPT !.inside = FALSE, !.said = said, !.keep = said,
                                   !.list = Append(@, NextItem(f))]
        OBVIOUS
      <3>2. g.seen = f.seen
        BY <3>1 DEF Frame
      <3>3. QED
        BY <1>1, <1>2, <2>1, <3>1, <3>2, ContinueTrue
    <2>2. CASE Return(u, "failed")
      BY <1>1, <2>2, PlainReturnTrue
    <2>3. CASE Crash("raise")
      BY <2>3, StillTrue DEF Crash
    <2>4. QED
      BY <1>2, <1>5, <2>1, <2>2, <2>3 DEF EachAnswer
  <1>6. CASE EachFinish(u)
    <2>1. PICK objs, tups : ReturnWith(u, Verdict(f.keep), objs, tups)
      BY <1>2, <1>6 DEF EachFinish, Return
    <2>2. ~f.inside /\ Len(f.list) = Sizes[f.native]
      BY <1>2, <1>6 DEF EachFinish, Runs, AllListed
    <2>3. CASE f.keep
      <3>1. (IF f.inside THEN 1 ELSE 0) = 0
        BY <2>2, Zenon
      <3>2. Len(f.seen) = Len(f.list) + (IF f.inside THEN 1 ELSE 0)
        BY <1>3, <2>3, Zenon DEF EachOK
      <3>3. Len(f.list) \in Nat
        BY <1>3, LenProperties
      <3>4. Len(f.seen) = Sizes[f.native]
        BY <2>2, <3>1, <3>2, <3>3
      <3>5. f.seen = Listed(f.native)
        BY <1>3, <3>4, PrefixAll
      <3>6. Verdict(f.keep) = "true" /\ f.said
        BY <1>3, <2>3 DEF Verdict
      <3>7. QED
        BY <1>1, <1>2, <2>1, <3>5, <3>6, ReturnTrue
    <2>4. CASE ~f.keep
      <3>1. f.seen # << >> /\ ~f.said
        BY <1>3, <2>4 DEF EachOK
      <3>2. Verdict(f.keep) = "false"
        BY <2>4 DEF Verdict
      <3>3. QED
        BY <1>1, <1>2, <2>1, <3>1, <3>2, ReturnTrue
    <2>5. QED
      BY <2>3, <2>4
  <1>7. QED
    BY <1>4, <1>5, <1>6

\* A walk of the tuple has shown all of it when it passes the size that it read.
LEMMA WalkTrue ==
    ASSUME CoreInv, CoreInv', BoundInv, NEW u \in Threads, WalkCall(u) \/ WalkAnswer(u)
    PROVE  \A t \in Threads : AnswerTrue(t)
  <1>1. Depth(u) > 0 /\ Top(u).op = "walk"
    BY DEF WalkCall, WalkAnswer, Runs
  <1>2. PICK f \in Frame : f = Top(u)
    BY <1>1, TopOK
  <1>3. f.native \in Natives /\ f.said /\ CallOK(f)
    BY <1>1, <1>2, TopOK DEF CallOK
  <1>4. f.size = Sizes[f.native] /\ Prefix(f.seen, f.native)
    BY <1>1, <1>2, TopBound DEF BoundOK
  <1>5. CASE Crash("walk")
    BY <1>5, StillTrue DEF Crash
  <1>6. CASE Return(u, "failed")
    BY <1>1, <1>6, PlainReturnTrue
  <1>7. CASE WalkCall(u)
    <2>1. CASE Len(f.seen) + 1 > f.size /\ Return(u, "true")
      <3>1. Sizes[f.native] \in Nat
        BY <1>3, ListedType
      <3>2. Len(f.seen) = Sizes[f.native]
        BY <1>4, <2>1, <3>1 DEF Prefix
      <3>3. f.seen = Listed(f.native)
        BY <1>3, <1>4, <3>2, PrefixAll
      <3>4. ReturnWith(u, "true", objects, tuples)
        BY <2>1 DEF Return
      <3>5. QED
        BY <1>1, <1>2, <1>3, <3>3, <3>4, ReturnTrue
    <2>2. ASSUME NEW item, CallFunction(u, item, f)
          PROVE  \A t \in Threads : AnswerTrue(t)
      BY <1>1, <1>2, <1>3, <2>2, ContinueTrue DEF CallFunction
    <2>3. QED
      BY <1>2, <1>5, <1>6, <1>7, <2>1, <2>2 DEF WalkCall
  <1>8. CASE WalkAnswer(u)
    <2>1. CASE Continue(u, [f EXCEPT !.inside = FALSE])
      BY <1>1, <1>2, <1>3, <2>1, ContinueTrue
    <2>2. CASE Return(u, "false")
      <3>1. f.seen # << >>
        BY <1>1, <1>2, <1>3, <1>8 DEF WalkAnswer, CallOK
      <3>2. ReturnWith(u, "false", objects, tuples)
        BY <2>2 DEF Return
      <3>3. QED
        BY <1>1, <1>2, <3>1, <3>2, ReturnTrue
    <2>3. QED
      BY <1>2, <1>6, <1>8, <2>1, <2>2 DEF WalkAnswer
  <1>9. QED
    BY <1>7, <1>8

\* The client's other steps leave every call as it is, or start one.
LEMMA ClientTrue ==
    ASSUME CoreInv, NEW u \in Threads, Client(u)
    PROVE  \A t \in Threads : AnswerTrue(t)
  <1>1. CASE stack' = stack
    BY <1>1, StillTrue
  <1>2. CASE BeginGet(u) \/ BeginItem(u) \/ BeginEach(u)
    <2>1. extern # 0 /\ objects[extern].browser # 0
      BY <1>2 DEF BeginGet, BeginItem, BeginEach, Ready
    <2>2. PICK op \in Ops : Begin(u, op) /\ (op = "walk" => objects[extern].cache # 0)
      BY <1>2 DEF BeginGet, BeginItem, BeginEach, Ops, Cache
    <2>3. New(op, extern) \in Frame
      BY <2>1, <2>2, NewFrame
    <2>4. stack' = Push(u, New(op, extern))
      BY <2>2 DEF Begin
    <2>5. QED
      BY <2>3, <2>4, PushTrue
  <1>3. CASE Construct(u) \/ NewUninitialized(u) \/ Reinit(u) \/ Refuse(u) \/ GetCached(u)
    BY <1>1, <1>3 DEF Construct, NewUninitialized, Reinit, Refuse, GetCached, Settle, Crash
  <1>4. CASE BeginWalk(u)
    <2>1. CASE stack' # stack
      <3>1. /\ extern # 0 /\ objects[extern].browser # 0 /\ objects[extern].cache # 0
            /\ tuples[objects[extern].cache].items # << >>
        BY <1>4, <2>1 DEF BeginWalk, Ready, Cache
      <3>2. stack' = Push(u, Shown(New("walk", extern), tuples[objects[extern].cache].items[1]))
        BY <1>4, <2>1 DEF BeginWalk, Cache
      <3>3. Shown(New("walk", extern), tuples[objects[extern].cache].items[1]) \in Frame
        BY <3>1, WalkFrame
      <3>4. QED
        BY <3>2, <3>3, PushTrue
    <2>2. QED
      BY <1>1, <2>1
  <1>5. QED
    BY <1>2, <1>3, <1>4 DEF Client

\* While no method of an extension object runs when its __init__ is called again,
\* for_each_interface returns True only if the function was called with every
\* interface and never said stop, False only if it did, and does not call it again
\* after that.
THEOREM AlwaysAnswersTruly ==
    ASSUME Disciplined
    PROVE  Spec => AnswersTruly
  <1>1. CoreInv /\ CoreInv' /\ BoundInv /\ [Next]_vars => [\A t \in Threads : AnswerTrue(t)]_vars
    <2> SUFFICES ASSUME CoreInv, CoreInv', BoundInv, Next
                 PROVE  \A t \in Threads : AnswerTrue(t)
      OBVIOUS
    <2>1. ASSUME NEW u \in Threads, InCall(u)
          PROVE  \A t \in Threads : AnswerTrue(t)
      BY <2>1, GetTrue, EachTrue, WalkTrue DEF InCall
    <2>2. CASE stack' = stack
      BY <2>2, StillTrue
    <2>3. CASE Forget \/ Rest \/ \E i \in DOMAIN tuples : Drop(i)
      BY <2>2, <2>3 DEF Forget, Rest, Drop, Settle, vars
    <2>4. QED
      BY <2>1, <2>3, ClientTrue DEF Next
  <1>2. Spec => [][\A t \in Threads : AnswerTrue(t)]_vars
    BY <1>1, BoundInvariant, PTL DEF Spec
  <1>3. QED
    BY <1>2 DEF AnswersTruly, AnswerTrue
=============================================================================
