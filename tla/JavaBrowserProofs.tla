-------------------------- MODULE JavaBrowserProofs --------------------------
(***************************************************************************)
(* Proofs about JavaBrowser, for every set of threads, every list of       *)
(* interfaces and every bound.                                             *)
(***************************************************************************)
EXTENDS JavaBrowser, StackLemmas

-----------------------------------------------------------------------------
(* The same for the variable stack. *)

\* Where a thread's stack is not empty, its top is a frame.
LEMMA TopFrame ==
    ASSUME TypeOK, NEW t \in AllThreads, InCall(t)
    PROVE  /\ stack[t] \in Seq(Frame)
           /\ Len(stack[t]) \in Nat \ {0}
           /\ Len(stack[t]) \in DOMAIN stack[t]
           /\ DOMAIN stack[t] = 1..Len(stack[t])
           /\ Top(t) \in Frame
  <1>1. stack[t] \in Seq(Frame)
    BY DEF TypeOK
  <1>2. Len(stack[t]) \in Nat \ {0} /\ DOMAIN stack[t] = 1..Len(stack[t])
    BY <1>1, EmptySeq, LenProperties DEF InCall
  <1>3. Len(stack[t]) \in 1..Len(stack[t])
    BY <1>2
  <1>4. QED
    BY <1>1, <1>2, <1>3, ElementOfSeq DEF Top

LEMMA PushEffect ==
    ASSUME TypeOK, NEW t \in AllThreads, NEW f \in Frame, Push(t, f)
    PROVE  /\ stack' \in [AllThreads -> Seq(Frame)]
           /\ \A u \in AllThreads \ {t} : stack'[u] = stack[u]
           /\ Len(stack'[t]) = Len(stack[t]) + 1
           /\ DOMAIN stack[t] = 1..Len(stack[t])
           /\ DOMAIN stack'[t] = 1..(Len(stack[t]) + 1)
           /\ \A i \in 1..Len(stack[t]) : stack'[t][i] = stack[t][i]
           /\ stack'[t][Len(stack[t]) + 1] = f
  <1>1. stack \in [AllThreads -> Seq(Frame)] /\ stack[t] \in Seq(Frame)
    BY DEF TypeOK
  <1>2. stack' = [stack EXCEPT ![t] = Append(stack[t], f)]
    BY DEF Push
  <1>3. Append(stack[t], f) \in Seq(Frame)
    BY <1>1, PushLemma
  <1>4. stack'[t] = Append(stack[t], f)
    BY <1>1, <1>2
  <1>5. stack' \in [AllThreads -> Seq(Frame)] /\ \A u \in AllThreads \ {t} : stack'[u] = stack[u]
    BY <1>1, <1>2, <1>3
  <1>6. QED
    BY <1>1, <1>4, <1>5, PushLemma, LenProperties

LEMMA ReplaceEffect ==
    ASSUME TypeOK, NEW t \in AllThreads, InCall(t), NEW f \in Frame, Replace(t, f)
    PROVE  /\ stack' \in [AllThreads -> Seq(Frame)]
           /\ \A u \in AllThreads \ {t} : stack'[u] = stack[u]
           /\ Len(stack'[t]) = Len(stack[t])
           /\ DOMAIN stack[t] = 1..Len(stack[t])
           /\ DOMAIN stack'[t] = 1..Len(stack[t])
           /\ \A i \in 1..(Len(stack[t]) - 1) : stack'[t][i] = stack[t][i]
           /\ stack'[t][Len(stack[t])] = f
  <1>1. stack \in [AllThreads -> Seq(Frame)] /\ stack[t] \in Seq(Frame) /\ stack[t] # << >>
    BY DEF TypeOK, InCall
  <1>2. stack' = [stack EXCEPT ![t] = [stack[t] EXCEPT ![Len(stack[t])] = f]]
    BY DEF Replace
  <1>3. [stack[t] EXCEPT ![Len(stack[t])] = f] \in Seq(Frame)
    BY <1>1, ReplaceLemma
  <1>4. stack'[t] = [stack[t] EXCEPT ![Len(stack[t])] = f]
    BY <1>1, <1>2
  <1>5. stack' \in [AllThreads -> Seq(Frame)] /\ \A u \in AllThreads \ {t} : stack'[u] = stack[u]
    BY <1>1, <1>2, <1>3
  <1>6. QED
    BY <1>1, <1>4, <1>5, ReplaceLemma, LenProperties

LEMMA ReturnEffect ==
    ASSUME TypeOK, NEW t \in AllThreads, InCall(t), NEW kind, NEW seen, Return(t, kind, seen)
    PROVE  /\ stack' \in [AllThreads -> Seq(Frame)]
           /\ \A u \in AllThreads \ {t} : stack'[u] = stack[u]
           /\ Len(stack'[t]) = Len(stack[t]) - 1
           /\ DOMAIN stack[t] = 1..Len(stack[t])
           /\ DOMAIN stack'[t] = 1..(Len(stack[t]) - 1)
           /\ \A i \in 1..(Len(stack[t]) - 1) : stack'[t][i] = stack[t][i]
  <1>1. stack \in [AllThreads -> Seq(Frame)] /\ stack[t] \in Seq(Frame) /\ stack[t] # << >>
    BY DEF TypeOK, InCall
  <1>2. stack' = [stack EXCEPT ![t] = SubSeq(stack[t], 1, Len(stack[t]) - 1)]
    BY DEF Return
  <1>3. SubSeq(stack[t], 1, Len(stack[t]) - 1) \in Seq(Frame)
    BY <1>1, PopLemma
  <1>4. stack'[t] = SubSeq(stack[t], 1, Len(stack[t]) - 1)
    BY <1>1, <1>2
  <1>5. stack' \in [AllThreads -> Seq(Frame)] /\ \A u \in AllThreads \ {t} : stack'[u] = stack[u]
    BY <1>1, <1>2, <1>3
  <1>6. QED
    BY <1>1, <1>4, <1>5, PopLemma, LenProperties

-----------------------------------------------------------------------------
(* Prefixes of the list of interfaces. *)

LEMMA NativePrefix ==
    ASSUME NEW n \in 0..Len(Native)
    PROVE  /\ SubSeq(Native, 1, n) \in Seq(Interfaces)
           /\ Len(SubSeq(Native, 1, n)) = n
           /\ \A i \in 1..n : SubSeq(Native, 1, n)[i] = Native[i]
  BY ConstantsAssumption, PrefixElements

LEMMA NativeWhole ==
    /\ Len(Native) \in 0..Len(Native)
    /\ SubSeq(Native, 1, Len(Native)) = Native
    /\ SubSeq(Native, 1, 0) = << >>
  BY ConstantsAssumption, PrefixEnds

\* One more interface makes the next prefix.
LEMMA NativeExtend ==
    ASSUME NEW n \in Nat, n < Len(Native)
    PROVE  /\ n + 1 \in 0..Len(Native)
           /\ Native[n + 1] \in Interfaces
           /\ Append(SubSeq(Native, 1, n), Native[n + 1]) = SubSeq(Native, 1, n + 1)
  BY ConstantsAssumption, PrefixExtend, LenProperties

-----------------------------------------------------------------------------
(* The first part of the inductive invariant relates each call's frame to   *)
(* the list of interfaces.  The cached list is complete because the list    *)
(* that forEachInterfaceAndPopulate fills is, at every element, the prefix  *)
(* visited so far.                                                          *)

\* A frame, given whether the list is cached.
FrameOK(f, cached) ==
    /\ f.src # "none" <=> f.at \in {"visit", "callback"}
    /\ f.src # "none" => f.op = "forEachInterface"
    /\ f.op = "close" <=> f.at \in {"clean", "shut"}
    /\ f.src = "list" => cached
    /\ f.src # "native" => f.going
    /\ f.pos \in 0..Len(Native)
    /\ f.src # "list" => f.built = SubSeq(Native, 1, f.pos)
    /\ f.going => f.applied = SubSeq(Native, 1, f.pos)
    /\ Prefix(f.applied)

FramesOK == \A t \in AllThreads : \A i \in DOMAIN stack[t] :
                FrameOK(stack[t][i], interfaces # NoList)

AnswerOK(kind, seen) ==
    /\ kind \in {"list", "completed"} => seen = Native
    /\ kind \in {"stopped", "failed"} => Prefix(seen)

AnswersOK == \A t \in AllThreads : AnswerOK(answer[t].kind, answer[t].seen)

CoreInv == TypeOK /\ FramesOK /\ CacheComplete /\ AnswersOK

FlagsOK ==
    /\ native \in {"none", "live", "deleted"}
    /\ closed \in BOOLEAN
    /\ registered \in BOOLEAN
    /\ reachable \in BOOLEAN
    /\ undefined \in BOOLEAN

LEMMA NewFrameOK ==
    ASSUME NEW op \in Ops, NEW cached
    PROVE  /\ op = "close" => \A p \in {"clean", "shut"} :
                 NewFrame(op, p) \in Frame /\ FrameOK(NewFrame(op, p), cached)
           /\ op # "close" => NewFrame(op, "ready") \in Frame /\ FrameOK(NewFrame(op, "ready"), cached)
  <1>1. << >> \in Seq(Interfaces) /\ SubSeq(Native, 1, 0) = << >> /\ 0 \in 0..Len(Native) /\ 0 \in Nat
    BY EmptySeq, NativeWhole, LenProperties, ConstantsAssumption
  <1>2. Prefix(<< >>)
    BY <1>1 DEF Prefix
  <1>3. QED
    BY <1>1, <1>2 DEF NewFrame, Frame, Points, Sources, Ops, FrameOK

\* A new call disturbs nothing.
LEMMA PushKeepsCore ==
    ASSUME CoreInv, NEW t \in AllThreads, NEW f \in Frame, Push(t, f),
           FrameOK(f, interfaces # NoList), FlagsOK',
           UNCHANGED <<interfaces, answer>>, calls' \in [AllThreads -> 0..MaxCalls]
    PROVE  CoreInv'
  <1>1. TypeOK'
    BY PushEffect DEF CoreInv, TypeOK, FlagsOK
  <1>2. FramesOK'
    <2> SUFFICES ASSUME NEW u \in AllThreads, NEW i \in DOMAIN stack'[u]
                 PROVE  FrameOK(stack'[u][i], interfaces # NoList)
      BY DEF FramesOK
    <2>1. CASE u # t
      BY <2>1, PushEffect DEF CoreInv, FramesOK
    <2>2. CASE u = t /\ i = Len(stack[t]) + 1
      BY <2>2, PushEffect DEF CoreInv
    <2>3. CASE u = t /\ i # Len(stack[t]) + 1
      <3>1. i \in 1..Len(stack[t])
        BY <2>3, PushEffect, LenProperties DEF CoreInv, TypeOK
      <3>2. QED
        BY <2>3, <3>1, PushEffect DEF CoreInv, FramesOK
    <2>4. QED
      BY <2>1, <2>2, <2>3
  <1>3. CacheComplete' /\ AnswersOK'
    BY DEF CoreInv, CacheComplete, AnswersOK
  <1>4. QED
    BY <1>1, <1>2, <1>3 DEF CoreInv

\* A call that goes on disturbs nothing, if its new frame is right.
LEMMA ReplaceKeepsCore ==
    ASSUME CoreInv, NEW t \in AllThreads, InCall(t), NEW f \in Frame, Replace(t, f),
           FrameOK(f, interfaces # NoList), FlagsOK',
           UNCHANGED <<interfaces, answer, calls>>
    PROVE  CoreInv'
  <1>1. TypeOK'
    BY ReplaceEffect DEF CoreInv, TypeOK, FlagsOK
  <1>2. FramesOK'
    <2> SUFFICES ASSUME NEW u \in AllThreads, NEW i \in DOMAIN stack'[u]
                 PROVE  FrameOK(stack'[u][i], interfaces # NoList)
      BY DEF FramesOK
    <2>1. CASE u # t
      BY <2>1, ReplaceEffect DEF CoreInv, FramesOK
    <2>2. CASE u = t /\ i = Len(stack[t])
      BY <2>2, ReplaceEffect DEF CoreInv
    <2>3. CASE u = t /\ i # Len(stack[t])
      <3>1. i \in 1..(Len(stack[t]) - 1) /\ i \in DOMAIN stack[t]
        BY <2>3, ReplaceEffect, LenProperties DEF CoreInv, TypeOK
      <3>2. QED
        BY <2>3, <3>1, ReplaceEffect DEF CoreInv, FramesOK
    <2>4. QED
      BY <2>1, <2>2, <2>3
  <1>3. CacheComplete' /\ AnswersOK'
    BY DEF CoreInv, CacheComplete, AnswersOK
  <1>4. QED
    BY <1>1, <1>2, <1>3 DEF CoreInv

\* A call that ends disturbs nothing, if its answer is right and so is the
\* list, should it have cached one.
LEMMA ReturnKeepsCore ==
    ASSUME CoreInv, NEW t \in AllThreads, InCall(t), NEW kind \in Kinds,
           NEW seen \in Seq(Interfaces), Return(t, kind, seen), AnswerOK(kind, seen),
           interfaces' \in InterfaceList \union {NoList},
           interfaces # NoList => interfaces' # NoList,
           CacheComplete', FlagsOK', UNCHANGED calls
    PROVE  CoreInv'
  <1> DEFINE a == [op |-> Top(t).op, kind |-> kind, seen |-> seen]
  <1>1. a \in Answer
    BY TopFrame DEF CoreInv, Answer, Frame
  <1>2. answer' = [answer EXCEPT ![t] = a] /\ answer \in [AllThreads -> Answer]
    BY DEF Return, CoreInv, TypeOK
  <1>3. TypeOK'
    BY <1>1, <1>2, ReturnEffect DEF CoreInv, TypeOK, FlagsOK
  <1>4. FramesOK'
    <2> SUFFICES ASSUME NEW u \in AllThreads, NEW i \in DOMAIN stack'[u]
                 PROVE  FrameOK(stack'[u][i], interfaces' # NoList)
      BY DEF FramesOK
    <2>1. FrameOK(stack'[u][i], interfaces # NoList)
      <3>1. CASE u # t
        BY <3>1, ReturnEffect DEF CoreInv, FramesOK
      <3>2. CASE u = t
        <4>1. i \in 1..(Len(stack[t]) - 1) /\ i \in DOMAIN stack[t]
          BY <3>2, ReturnEffect, LenProperties DEF CoreInv, TypeOK
        <4>2. QED
          BY <3>2, <4>1, ReturnEffect DEF CoreInv, FramesOK
      <3>3. QED
        BY <3>1, <3>2
    <2>2. QED
      BY <2>1 DEF FrameOK
  <1>5. AnswersOK'
    BY <1>2 DEF CoreInv, AnswersOK
  <1>6. QED
    BY <1>3, <1>4, <1>5 DEF CoreInv

LEMMA TopFrameOK ==
    ASSUME CoreInv, NEW t \in AllThreads, InCall(t)
    PROVE  Top(t) \in Frame /\ FrameOK(Top(t), interfaces # NoList)
  BY TopFrame DEF CoreInv, FramesOK, Top

LEMMA CoreInit == Init => CoreInv
  <1> SUFFICES ASSUME Init PROVE CoreInv
    OBVIOUS
  <1>1. << >> \in Seq(Interfaces) /\ << >> \in Seq(Frame) /\ DOMAIN << >> = {}
    BY EmptySeq
  <1>2. [op |-> "close", kind |-> "none", seen |-> << >>] \in Answer
    BY <1>1 DEF Answer, Ops, Kinds
  <1>3. TypeOK
    <2>1. 0 \in 0..MaxCalls
      BY ConstantsAssumption
    <2>2. calls \in [AllThreads -> 0..MaxCalls]
      BY <2>1 DEF Init
    <2>3. stack \in [AllThreads -> Seq(Frame)]
      BY <1>1 DEF Init
    <2>4. answer \in [AllThreads -> Answer]
      BY <1>2 DEF Init
    <2>5. QED
      BY <2>2, <2>3, <2>4 DEF Init, TypeOK
  <1>4. FramesOK
    BY <1>1 DEF Init, FramesOK
  <1>5. CacheComplete /\ AnswersOK
    BY DEF Init, CacheComplete, AnswersOK, AnswerOK
  <1>6. QED
    BY <1>3, <1>4, <1>5 DEF CoreInv

LEMMA CoreStartCall ==
    ASSUME CoreInv, NEW t \in Threads, NEW op \in Ops, StartCall(t, op)
    PROVE  CoreInv'
  <1> DEFINE f == NewFrame(op, IF op = "close" THEN "clean" ELSE "ready")
  <1>1. t \in AllThreads
    BY DEF AllThreads
  <1>2. f \in Frame /\ FrameOK(f, interfaces # NoList)
    BY NewFrameOK
  <1>3. Push(t, f) /\ UNCHANGED <<interfaces, answer>> /\ FlagsOK'
    BY DEF StartCall, CoreInv, TypeOK, FlagsOK
  <1>4. calls' \in [AllThreads -> 0..MaxCalls]
    <2>1. calls[t] + 1 \in 0..MaxCalls
      BY <1>1, ConstantsAssumption DEF StartCall, CoreInv, TypeOK
    <2>2. QED
      BY <2>1 DEF StartCall, CoreInv, TypeOK
  <1> HIDE DEF f
  <1>5. QED
    BY <1>1, <1>2, <1>3, <1>4, PushKeepsCore

LEMMA CoreCleanerRuns == CoreInv /\ CleanerRuns => CoreInv'
  <1> SUFFICES ASSUME CoreInv, CleanerRuns PROVE CoreInv'
    OBVIOUS
  <1> DEFINE f == NewFrame("close", "shut")
  <1>1. CleanerThread \in AllThreads
    BY DEF AllThreads
  <1>2. f \in Frame /\ FrameOK(f, interfaces # NoList)
    BY NewFrameOK DEF Ops
  <1>3. Push(CleanerThread, f) /\ UNCHANGED <<interfaces, answer>> /\ FlagsOK'
        /\ calls' \in [AllThreads -> 0..MaxCalls]
    BY DEF CleanerRuns, CoreInv, TypeOK, FlagsOK
  <1> HIDE DEF f
  <1>4. QED
    BY <1>1, <1>2, <1>3, PushKeepsCore

LEMMA CoreEnterReady ==
    ASSUME CoreInv, NEW t \in AllThreads, EnterReady(t)
    PROVE  CoreInv'
  <1> DEFINE f == [Top(t) EXCEPT !.at = "isClosed"]
  <1>1. InCall(t) /\ Top(t).at = "ready" /\ Replace(t, f)
        /\ UNCHANGED <<interfaces, answer, calls>> /\ FlagsOK'
    BY DEF EnterReady, TopAt, Goto, CoreInv, TypeOK, FlagsOK
  <1>2. f \in Frame /\ FrameOK(f, interfaces # NoList)
    BY <1>1, TopFrameOK DEF Frame, Points, FrameOK
  <1> HIDE DEF f
  <1>3. QED
    BY <1>1, <1>2, ReplaceKeepsCore

LEMMA CoreCheckClosed ==
    ASSUME CoreInv, NEW t \in AllThreads, CheckClosed(t)
    PROVE  CoreInv'
  <1>1. InCall(t) /\ Top(t).at = "isClosed" /\ UNCHANGED <<interfaces, calls>> /\ FlagsOK'
    BY DEF CheckClosed, TopAt, CoreInv, TypeOK, FlagsOK
  <1>2. CASE Return(t, "refused", << >>)
    <2>1. "refused" \in Kinds /\ << >> \in Seq(Interfaces) /\ AnswerOK("refused", << >>)
      BY EmptySeq DEF Kinds, AnswerOK
    <2>2. interfaces' \in InterfaceList \union {NoList} /\ CacheComplete'
      BY <1>1 DEF CoreInv, TypeOK, CacheComplete
    <2>3. QED
      BY <1>1, <1>2, <2>1, <2>2, ReturnKeepsCore
  <1>3. CASE Goto(t, "enter") /\ UNCHANGED answer
    <2> DEFINE f == [Top(t) EXCEPT !.at = "enter"]
    <2>1. Replace(t, f)
      BY <1>3 DEF Goto
    <2>2. f \in Frame /\ FrameOK(f, interfaces # NoList)
      BY <1>1, TopFrameOK DEF Frame, Points, FrameOK
    <2> HIDE DEF f
    <2>3. QED
      BY <1>1, <1>3, <2>1, <2>2, ReplaceKeepsCore
  <1>4. QED
    BY <1>2, <1>3 DEF CheckClosed

\* ENSURE_POPULATED leaves a complete list in the field.
LEMMA PopulatedOK ==
    ASSUME CoreInv, NEW t \in AllThreads
    PROVE  /\ Populated(t) \in InterfaceList
           /\ Populated(t) # NoList
           /\ Populated(t).items = Native
  <1>1. Len(stack[t]) \in Nat /\ Native \in Seq(Interfaces)
    BY ConstantsAssumption, LenProperties DEF CoreInv, TypeOK
  <1>2. CASE interfaces = NoList
    <2>1. <<t, Len(stack[t])>> \in AllThreads \X Nat
      BY <1>1
    <2>2. Populated(t) = [by |-> <<t, Len(stack[t])>>, items |-> Native]
      BY <1>2 DEF Populated
    <2>3. Populated(t) \in InterfaceList /\ Populated(t).items = Native
      BY <1>1, <2>1, <2>2 DEF InterfaceList
    <2>4. QED
      BY <2>3, ConstantsAssumption
  <1>3. CASE interfaces # NoList
    BY <1>3 DEF Populated, CoreInv, TypeOK, CacheComplete
  <1>4. QED
    BY <1>2, <1>3

LEMMA CoreGetInterface ==
    ASSUME CoreInv, NEW t \in AllThreads, GetInterface(t)
    PROVE  CoreInv'
  <1>1. InCall(t) /\ UNCHANGED calls /\ FlagsOK'
    BY DEF GetInterface, EnterMethod, TopAt, CoreInv, TypeOK, FlagsOK
  <1>2. << >> \in Seq(Interfaces) /\ \A k \in Interfaces : <<k>> \in Seq(Interfaces)
    BY EmptySeq
  <1>3. {"failed", "found", "absent"} \subseteq Kinds
    BY DEF Kinds
  <1>4. AnswerOK("failed", << >>) /\ \A k : AnswerOK("found", <<k>>) /\ AnswerOK("absent", <<k>>)
    BY NativeWhole, LenProperties, ConstantsAssumption DEF AnswerOK, Prefix
  <1>5. CASE FailPopulate(t)
    <2>1. interfaces' \in InterfaceList \union {NoList} /\ CacheComplete' /\ interfaces' = interfaces
      BY <1>5 DEF FailPopulate, CoreInv, TypeOK, CacheComplete
    <2>2. Return(t, "failed", << >>)
      BY <1>5 DEF FailPopulate
    <2>3. QED
      BY <1>1, <1>2, <1>3, <1>4, <2>1, <2>2, ReturnKeepsCore
  <1>6. ASSUME NEW k \in Interfaces, interfaces' = Populated(t),
               \/ Return(t, "found", <<k>>)
               \/ Return(t, "failed", << >>)
               \/ Return(t, "absent", <<k>>)
        PROVE  CoreInv'
    <2>1. interfaces' \in InterfaceList \union {NoList} /\ CacheComplete' /\ interfaces' # NoList
      BY <1>6, PopulatedOK DEF CacheComplete
    <2>2. QED
      BY <1>1, <1>2, <1>3, <1>4, <1>6, <2>1, ReturnKeepsCore
  <1>7. QED
    BY <1>5, <1>6 DEF GetInterface

LEMMA CoreGetInterfaces ==
    ASSUME CoreInv, NEW t \in AllThreads, GetInterfaces(t)
    PROVE  CoreInv'
  <1>1. InCall(t) /\ UNCHANGED calls /\ FlagsOK'
    BY DEF GetInterfaces, EnterMethod, TopAt, CoreInv, TypeOK, FlagsOK
  <1>2. << >> \in Seq(Interfaces) /\ Native \in Seq(Interfaces)
    BY EmptySeq, ConstantsAssumption
  <1>3. "failed" \in Kinds /\ "list" \in Kinds
    BY DEF Kinds
  <1>4. AnswerOK("failed", << >>) /\ AnswerOK("list", Native)
    BY NativeWhole, LenProperties, ConstantsAssumption DEF AnswerOK, Prefix
  <1>5. CASE FailPopulate(t)
    <2>1. interfaces' \in InterfaceList \union {NoList} /\ CacheComplete' /\ interfaces' = interfaces
      BY <1>5 DEF FailPopulate, CoreInv, TypeOK, CacheComplete
    <2>2. Return(t, "failed", << >>)
      BY <1>5 DEF FailPopulate
    <2>3. QED
      BY <1>1, <1>2, <1>3, <1>4, <2>1, <2>2, ReturnKeepsCore
  <1>6. CASE interfaces' = Populated(t) /\ Return(t, "list", Populated(t).items)
    <2>1. interfaces' \in InterfaceList \union {NoList} /\ CacheComplete' /\ interfaces' # NoList
      BY <1>6, PopulatedOK DEF CacheComplete
    <2>2. Return(t, "list", Native)
      BY <1>6, PopulatedOK
    <2>3. QED
      BY <1>1, <1>2, <1>3, <1>4, <2>1, <2>2, ReturnKeepsCore
  <1>7. QED
    BY <1>5, <1>6 DEF GetInterfaces

LEMMA CoreBeginForEach ==
    ASSUME CoreInv, NEW t \in AllThreads, BeginForEach(t)
    PROVE  CoreInv'
  <1>1. /\ InCall(t) /\ Top(t).at = "enter" /\ Top(t).op = "forEachInterface"
        /\ UNCHANGED <<interfaces, answer, calls>> /\ FlagsOK'
    BY DEF BeginForEach, EnterMethod, TopAt, CoreInv, TypeOK, FlagsOK
  <1>2. PICK src \in {"list", "native"} :
            /\ Replace(t, [Top(t) EXCEPT !.at = "visit", !.src = src])
            /\ src = "list" <=> interfaces # NoList
    BY DEF BeginForEach
  <1> DEFINE f == [Top(t) EXCEPT !.at = "visit", !.src = src]
  <1>3. f \in Frame
    BY <1>1, TopFrameOK DEF Frame, Points, Sources
  <1>4. FrameOK(f, interfaces # NoList)
    BY <1>1, <1>2, TopFrameOK DEF Frame, FrameOK
  <1>5. Replace(t, f)
    BY <1>2
  <1> HIDE DEF f
  <1>6. QED
    BY <1>1, <1>3, <1>4, <1>5, ReplaceKeepsCore

\* A prefix of the interfaces stays one when the next interface is added.
LEMMA NextApplied ==
    ASSUME NEW f \in Frame, NEW cached, FrameOK(f, cached), f.pos < Len(Native)
    PROVE  /\ f.pos + 1 \in 0..Len(Native)
           /\ f.pos + 1 \in Nat
           /\ Native[f.pos + 1] \in Interfaces
           /\ f.src # "list" => Append(f.built, Native[f.pos + 1]) = SubSeq(Native, 1, f.pos + 1)
           /\ f.going => Append(f.applied, Native[f.pos + 1]) = SubSeq(Native, 1, f.pos + 1)
           /\ Prefix(SubSeq(Native, 1, f.pos + 1))
  <1>1. f.pos \in Nat
    BY DEF Frame
  <1>2. /\ f.pos + 1 \in 0..Len(Native)
        /\ Native[f.pos + 1] \in Interfaces
        /\ Append(SubSeq(Native, 1, f.pos), Native[f.pos + 1]) = SubSeq(Native, 1, f.pos + 1)
    BY <1>1, NativeExtend
  <1>3. /\ f.src # "list" => f.built = SubSeq(Native, 1, f.pos)
        /\ f.going => f.applied = SubSeq(Native, 1, f.pos)
    BY DEF FrameOK
  <1>4. f.pos + 1 \in Nat
    BY <1>1
  <1>5. Prefix(SubSeq(Native, 1, f.pos + 1))
    BY <1>2 DEF Prefix
  <1>6. QED
    BY <1>2, <1>3, <1>4, <1>5

LEMMA CoreVisitList ==
    ASSUME CoreInv, NEW t \in AllThreads, VisitList(t)
    PROVE  CoreInv'
  <1>1. /\ InCall(t) /\ Top(t).at = "visit" /\ Top(t).src = "list"
        /\ UNCHANGED <<interfaces, answer, calls>> /\ FlagsOK'
    BY DEF VisitList, TopAt, CoreInv, TypeOK, FlagsOK
  <1>2. Top(t) \in Frame /\ FrameOK(Top(t), interfaces # NoList)
    BY <1>1, TopFrameOK
  <1>3. interfaces # NoList /\ interfaces.items = Native /\ Top(t).going
    BY <1>1, <1>2 DEF FrameOK, CoreInv, CacheComplete
  <1> DEFINE n == Top(t).pos + 1
             f == [Top(t) EXCEPT !.at = "callback", !.pos = n,
                                 !.applied = Append(@, Native[n])]
  <1>4. Top(t).pos < Len(Native) /\ Replace(t, f)
    BY <1>3 DEF VisitList
  <1>5. /\ n \in 0..Len(Native) /\ n \in Nat /\ Native[n] \in Interfaces
        /\ Append(Top(t).applied, Native[n]) = SubSeq(Native, 1, n)
        /\ Prefix(SubSeq(Native, 1, n))
    BY <1>2, <1>3, <1>4, NextApplied
  <1>6. Append(Top(t).applied, Native[n]) \in Seq(Interfaces)
    BY <1>5, NativePrefix
  <1> HIDE DEF n
  <1>7. f \in Frame
    BY <1>2, <1>5, <1>6 DEF Frame, Points
  <1>8. FrameOK(f, interfaces # NoList)
    BY <1>1, <1>2, <1>3, <1>5 DEF FrameOK, Frame
  <1> HIDE DEF f
  <1>9. QED
    BY <1>1, <1>4, <1>7, <1>8, ReplaceKeepsCore

LEMMA CoreVisitNative ==
    ASSUME CoreInv, NEW t \in AllThreads, VisitNative(t)
    PROVE  CoreInv'
  <1>1. /\ InCall(t) /\ Top(t).at = "visit" /\ Top(t).src = "native"
        /\ Top(t).pos < Len(Native)
        /\ UNCHANGED <<interfaces, answer, calls>> /\ FlagsOK'
    BY DEF VisitNative, TopAt, CoreInv, TypeOK, FlagsOK
  <1>2. Top(t) \in Frame /\ FrameOK(Top(t), interfaces # NoList)
    BY <1>1, TopFrameOK
  <1> DEFINE n     == Top(t).pos + 1
             added == [Top(t) EXCEPT !.pos = n, !.built = Append(@, Native[n])]
             f     == [added EXCEPT !.at = "callback", !.applied = Append(@, Native[n])]
  <1>3. (Top(t).going /\ Replace(t, f)) \/ (~Top(t).going /\ Replace(t, added))
    BY DEF VisitNative
  <1>4. /\ n \in 0..Len(Native) /\ n \in Nat /\ Native[n] \in Interfaces
        /\ Append(Top(t).built, Native[n]) = SubSeq(Native, 1, n)
        /\ Top(t).going => Append(Top(t).applied, Native[n]) = SubSeq(Native, 1, n)
        /\ Prefix(SubSeq(Native, 1, n))
    BY <1>1, <1>2, NextApplied
  <1>5. SubSeq(Native, 1, n) \in Seq(Interfaces)
    BY <1>4, NativePrefix
  <1> HIDE DEF n
  <1>6. CASE Top(t).going /\ Replace(t, f)
    <2>1. f \in Frame
      BY <1>2, <1>4, <1>5, <1>6 DEF Frame, Points
    <2>2. FrameOK(f, interfaces # NoList)
      BY <1>1, <1>2, <1>4, <1>6 DEF FrameOK, Frame
    <2> HIDE DEF f, added
    <2>3. QED
      BY <1>1, <1>6, <2>1, <2>2, ReplaceKeepsCore
  <1>7. CASE ~Top(t).going /\ Replace(t, added)
    <2>1. added \in Frame
      BY <1>2, <1>4, <1>5 DEF Frame
    <2>2. FrameOK(added, interfaces # NoList)
      BY <1>1, <1>2, <1>4, <1>7 DEF FrameOK, Frame
    <2> HIDE DEF f, added
    <2>3. QED
      BY <1>1, <1>7, <2>1, <2>2, ReplaceKeepsCore
  <1>8. QED
    BY <1>3, <1>6, <1>7

\* The ends of a forEachInterface that leave the field alone.
LEMMA CoreEndForEach ==
    ASSUME CoreInv, NEW t \in AllThreads, InCall(t),
           NEW kind \in {"failed", "stopped"}, Return(t, kind, Top(t).applied),
           UNCHANGED <<native, closed, interfaces, registered, reachable, calls, undefined>>
    PROVE  CoreInv'
  <1>1. Top(t).applied \in Seq(Interfaces) /\ AnswerOK(kind, Top(t).applied)
    BY TopFrameOK DEF Frame, FrameOK, AnswerOK
  <1>2. kind \in Kinds
    BY DEF Kinds
  <1>3. /\ interfaces' \in InterfaceList \union {NoList} /\ CacheComplete' /\ FlagsOK'
        /\ interfaces' = interfaces /\ calls' = calls
    BY DEF CoreInv, TypeOK, CacheComplete, FlagsOK
  <1>4. QED
    BY <1>1, <1>2, <1>3, ReturnKeepsCore

LEMMA CoreCallbackReturn ==
    ASSUME CoreInv, NEW t \in AllThreads, CallbackReturn(t)
    PROVE  CoreInv'
  <1>1. /\ InCall(t) /\ Top(t).at = "callback"
        /\ UNCHANGED <<native, closed, interfaces, registered, reachable, calls, undefined>>
        /\ FlagsOK'
    BY DEF CallbackReturn, TopAt, CoreInv, TypeOK, FlagsOK
  <1>2. Top(t) \in Frame /\ FrameOK(Top(t), interfaces # NoList)
    BY <1>1, TopFrameOK
  <1>3. ASSUME NEW kind \in {"failed", "stopped"}, Return(t, kind, Top(t).applied)
        PROVE  CoreInv'
    BY <1>1, <1>3, CoreEndForEach
  <1>4. CASE Goto(t, "visit") /\ UNCHANGED answer
    <2> DEFINE f == [Top(t) EXCEPT !.at = "visit"]
    <2>1. Replace(t, f) /\ f \in Frame /\ FrameOK(f, interfaces # NoList)
      BY <1>1, <1>2, <1>4 DEF Goto, Frame, Points, FrameOK
    <2> HIDE DEF f
    <2>2. QED
      BY <1>1, <1>4, <2>1, ReplaceKeepsCore
  <1>5. CASE /\ Top(t).src = "native"
             /\ Replace(t, [Top(t) EXCEPT !.at = "visit", !.going = FALSE])
             /\ UNCHANGED answer
    <2> DEFINE f == [Top(t) EXCEPT !.at = "visit", !.going = FALSE]
    <2>1. Replace(t, f) /\ f \in Frame /\ FrameOK(f, interfaces # NoList)
      BY <1>1, <1>2, <1>5 DEF Frame, Points, FrameOK
    <2> HIDE DEF f
    <2>2. QED
      BY <1>1, <1>5, <2>1, ReplaceKeepsCore
  <1>6. QED
    BY <1>3, <1>4, <1>5 DEF CallbackReturn

LEMMA CoreFailVisit ==
    ASSUME CoreInv, NEW t \in AllThreads, FailVisit(t)
    PROVE  CoreInv'
  BY CoreEndForEach DEF FailVisit, TopAt

\* A cursor at the end has visited, and a function that never said stop has
\* been applied to, every interface.
LEMMA AtEnd ==
    ASSUME NEW f \in Frame, NEW cached, FrameOK(f, cached), f.pos = Len(Native)
    PROVE  /\ f.src # "list" => f.built = Native
           /\ f.going => f.applied = Native
  BY NativeWhole DEF FrameOK

LEMMA CoreFinishList ==
    ASSUME CoreInv, NEW t \in AllThreads, FinishList(t)
    PROVE  CoreInv'
  <1>1. /\ InCall(t) /\ Top(t).src = "list" /\ Top(t).pos = Len(interfaces.items)
        /\ Return(t, "completed", Top(t).applied)
        /\ UNCHANGED <<interfaces, calls>> /\ FlagsOK'
    BY DEF FinishList, TopAt, CoreInv, TypeOK, FlagsOK
  <1>2. Top(t) \in Frame /\ FrameOK(Top(t), interfaces # NoList)
    BY <1>1, TopFrameOK
  <1>3. interfaces # NoList /\ Top(t).pos = Len(Native) /\ Top(t).going
    BY <1>1, <1>2 DEF FrameOK, CoreInv, CacheComplete
  <1>4. Top(t).applied \in Seq(Interfaces) /\ Top(t).applied = Native
    BY <1>2, <1>3, AtEnd DEF Frame
  <1>5. "completed" \in Kinds /\ AnswerOK("completed", Top(t).applied)
    BY <1>4 DEF Kinds, AnswerOK
  <1>6. interfaces' \in InterfaceList \union {NoList} /\ CacheComplete' /\ interfaces' = interfaces
    BY <1>1 DEF CoreInv, TypeOK, CacheComplete
  <1>7. QED
    BY <1>1, <1>4, <1>5, <1>6, ReturnKeepsCore

LEMMA CoreFinishNative ==
    ASSUME CoreInv, NEW t \in AllThreads, FinishNative(t)
    PROVE  CoreInv'
  <1> DEFINE kind == IF Top(t).going THEN "completed" ELSE "stopped"
             list == [by |-> <<t, Len(stack[t])>>, items |-> Top(t).built]
  <1>1. /\ InCall(t) /\ Top(t).src = "native" /\ Top(t).pos = Len(Native)
        /\ interfaces' = IF interfaces = NoList THEN list ELSE interfaces
        /\ Return(t, kind, Top(t).applied)
        /\ UNCHANGED calls /\ FlagsOK'
    BY DEF FinishNative, TopAt, CoreInv, TypeOK, FlagsOK
  <1>2. Top(t) \in Frame /\ FrameOK(Top(t), interfaces # NoList)
    BY <1>1, TopFrameOK
  <1>3. Top(t).built = Native /\ (Top(t).going => Top(t).applied = Native)
    BY <1>1, <1>2, AtEnd
  <1>4. Top(t).applied \in Seq(Interfaces) /\ kind \in Kinds /\ AnswerOK(kind, Top(t).applied)
    BY <1>2, <1>3 DEF Frame, FrameOK, Kinds, AnswerOK
  <1>5. list \in InterfaceList /\ list # NoList /\ list.items = Native
    <2>1. <<t, Len(stack[t])>> \in AllThreads \X Nat
      BY LenProperties DEF CoreInv, TypeOK
    <2>2. list \in InterfaceList
      BY <2>1, <1>3, ConstantsAssumption DEF InterfaceList
    <2>3. QED
      BY <2>2, <1>3, ConstantsAssumption
  <1> HIDE DEF list, kind
  <1>6. /\ interfaces' \in InterfaceList \union {NoList}
        /\ interfaces # NoList => interfaces' # NoList
        /\ CacheComplete'
    BY <1>1, <1>5 DEF CoreInv, TypeOK, CacheComplete
  <1>7. QED
    BY <1>1, <1>4, <1>6, ReturnKeepsCore

LEMMA CoreClean ==
    ASSUME CoreInv, NEW t \in AllThreads, Clean(t)
    PROVE  CoreInv'
  <1>1. InCall(t) /\ Top(t).at = "clean" /\ UNCHANGED <<interfaces, calls>> /\ FlagsOK'
    BY DEF Clean, TopAt, CoreInv, TypeOK, FlagsOK
  <1>2. CASE Return(t, "closed", << >>)
    <2>1. "closed" \in Kinds /\ << >> \in Seq(Interfaces) /\ AnswerOK("closed", << >>)
      BY EmptySeq DEF Kinds, AnswerOK
    <2>2. interfaces' \in InterfaceList \union {NoList} /\ CacheComplete'
      BY <1>1 DEF CoreInv, TypeOK, CacheComplete
    <2>3. QED
      BY <1>1, <1>2, <2>1, <2>2, ReturnKeepsCore
  <1>3. CASE Goto(t, "shut") /\ UNCHANGED answer
    <2> DEFINE f == [Top(t) EXCEPT !.at = "shut"]
    <2>1. Replace(t, f)
      BY <1>3 DEF Goto
    <2>2. f \in Frame /\ FrameOK(f, interfaces # NoList)
      BY <1>1, TopFrameOK DEF Frame, Points, FrameOK
    <2> HIDE DEF f
    <2>3. QED
      BY <1>1, <1>3, <2>1, <2>2, ReplaceKeepsCore
  <1>4. QED
    BY <1>2, <1>3 DEF Clean

LEMMA CoreShut ==
    ASSUME CoreInv, NEW t \in AllThreads, Shut(t)
    PROVE  CoreInv'
  <1>1. /\ InCall(t) /\ Return(t, "closed", << >>)
        /\ UNCHANGED <<interfaces, calls>> /\ FlagsOK'
    BY DEF Shut, CloseInternal, TopAt, CoreInv, TypeOK, FlagsOK
  <1>2. "closed" \in Kinds /\ << >> \in Seq(Interfaces) /\ AnswerOK("closed", << >>)
    BY EmptySeq DEF Kinds, AnswerOK
  <1>3. interfaces' \in InterfaceList \union {NoList} /\ CacheComplete'
    BY <1>1 DEF CoreInv, TypeOK, CacheComplete
  <1>4. QED
    BY <1>1, <1>2, <1>3, ReturnKeepsCore

\* Every step keeps the core invariant.
LEMMA CoreStep == CoreInv /\ [Next]_vars => CoreInv'
  <1> SUFFICES ASSUME CoreInv, [Next]_vars PROVE CoreInv'
    OBVIOUS
  <1>1. ASSUME UNCHANGED <<interfaces, stack, calls, answer>>, FlagsOK'
        PROVE  CoreInv'
    BY <1>1 DEF CoreInv, TypeOK, FlagsOK, FramesOK, CacheComplete, AnswersOK
  <1>2. CASE Construct
    BY <1>1, <1>2 DEF Construct, InitNative, FlagsOK, CoreInv, TypeOK
  <1>3. ASSUME NEW t \in Threads, NEW op \in Ops, StartCall(t, op)
        PROVE  CoreInv'
    BY <1>3, CoreStartCall
  <1>4. CASE Forget
    BY <1>1, <1>4 DEF Forget, FlagsOK, CoreInv, TypeOK
  <1>5. CASE CleanerRuns
    BY <1>5, CoreCleanerRuns
  <1>6. ASSUME NEW t \in AllThreads, Step(t)
        PROVE  CoreInv'
    <2>1. CASE UseDeleted(t)
      BY <1>1, <2>1 DEF UseDeleted, FlagsOK, CoreInv, TypeOK
    <2>2. QED
      BY <1>6, <2>1, CoreEnterReady, CoreCheckClosed, CoreGetInterface, CoreGetInterfaces,
         CoreBeginForEach, CoreVisitList, CoreVisitNative, CoreFailVisit, CoreCallbackReturn,
         CoreFinishList, CoreFinishNative, CoreClean, CoreShut DEF Step
  <1>7. CASE UNCHANGED vars
    BY <1>1, <1>7 DEF vars, FlagsOK, CoreInv, TypeOK
  <1>8. QED
    BY <1>2, <1>3, <1>4, <1>5, <1>6, <1>7 DEF Next, Rest

LEMMA CoreInvariant == Spec => []CoreInv
  BY CoreInit, CoreStep, PTL DEF Spec

\* The variables always have their types.
THEOREM TypeCorrect == Spec => []TypeOK
  BY CoreInvariant, PTL DEF CoreInv

\* However callbacks, nested calls, failures and closing interleave, the list
\* the browser caches and hands out is the whole list in the native order.
THEOREM CacheAlwaysComplete == Spec => []CacheComplete
  BY CoreInvariant, PTL DEF CoreInv

\* Iterating, enumerating, streaming and for-each-ing see the interfaces in
\* one order, also in calls that were stopped, that failed, or that still run.
THEOREM AlwaysSameOrder == Spec => []SameOrder
  <1>1. CoreInv => SameOrder
    BY DEF CoreInv, FramesOK, FrameOK, AnswersOK, AnswerOK, SameOrder
  <1>2. QED
    BY <1>1, CoreInvariant, PTL

\* What is cached once stays cached, as the same object.
THEOREM CacheNeverReplaced == Spec => SnapshotStable
  <1>1. [Next]_vars => [interfaces # NoList => interfaces' = interfaces]_vars
    <2> SUFFICES ASSUME [Next]_vars, interfaces # NoList
                 PROVE  interfaces' = interfaces
      OBVIOUS
    <2>1. ASSUME NEW t \in AllThreads, Step(t)
          PROVE  interfaces' = interfaces
      BY <2>1 DEF Step, EnterReady, CheckClosed, GetInterface, GetInterfaces, FailPopulate,
           Populated, BeginForEach, VisitList, VisitNative, FailVisit, CallbackReturn,
           FinishList, FinishNative, Clean, Shut, UseDeleted
    <2>2. QED
      BY <2>1 DEF Next, vars, Construct, InitNative, StartCall, Forget, CleanerRuns, Rest
  <1>2. QED
    BY <1>1, PTL DEF Spec, SnapshotStable

-----------------------------------------------------------------------------
(* Every step inside a call either ends it or moves its frame. *)

\* What a step puts in place of a frame is a frame.
LEMMA ReplacedFrame ==
    ASSUME CoreInv, CoreInv', NEW t \in AllThreads, InCall(t), NEW f, Replace(t, f)
    PROVE  f \in Frame
  <1>1. stack' = [stack EXCEPT ![t] = [stack[t] EXCEPT ![Len(stack[t])] = f]]
    BY DEF Replace
  <1>2. stack \in [AllThreads -> Seq(Frame)] /\ stack' \in [AllThreads -> Seq(Frame)]
    BY DEF CoreInv, TypeOK
  <1>3. Len(stack[t]) \in DOMAIN stack[t] /\ DOMAIN stack[t] = 1..Len(stack[t])
    BY TopFrame DEF CoreInv
  <1>4. stack'[t] = [stack[t] EXCEPT ![Len(stack[t])] = f] /\ stack'[t] \in Seq(Frame)
    BY <1>1, <1>2
  <1>5. DOMAIN stack'[t] = DOMAIN stack[t] /\ stack'[t][Len(stack[t])] = f
    BY <1>3, <1>4
  <1>6. QED
    BY <1>3, <1>4, <1>5, ElementOfSeq, LenProperties

LEMMA InsideMoves ==
    ASSUME CoreInv, NEW t \in AllThreads, Step(t), ~UseDeleted(t)
    PROVE  \/ \E kind, seen : Return(t, kind, seen)
           \/ \E f \in Frame : Replace(t, f) /\ f.op = Top(t).op
  <1> USE DEF Step
  <1>1. InCall(t)
    BY DEF EnterReady, CheckClosed, GetInterface, GetInterfaces, EnterMethod, BeginForEach,
         VisitList, VisitNative, FailVisit, CallbackReturn, FinishList, FinishNative, Clean,
         Shut, TopAt
  <1>2. CoreInv'
    BY CoreStep DEF Next
  <1>3. Top(t) \in Frame
    BY <1>1, TopFrame DEF CoreInv
  <1>4. SUFFICES ASSUME \A kind, seen : ~Return(t, kind, seen)
                 PROVE  \E f : Replace(t, f) /\ f.op = Top(t).op
    BY <1>1, <1>2, ReplacedFrame
  <1>5. CASE EnterReady(t) \/ CheckClosed(t) \/ Clean(t)
    <2>1. PICK p : Replace(t, [Top(t) EXCEPT !.at = p])
      BY <1>4, <1>5 DEF EnterReady, CheckClosed, Clean, Goto
    <2>2. [Top(t) EXCEPT !.at = p].op = Top(t).op
      BY <1>3 DEF Frame
    <2>3. QED
      BY <2>1, <2>2
  <1>6. CASE BeginForEach(t)
    <2>1. PICK s : Replace(t, [Top(t) EXCEPT !.at = "visit", !.src = s])
      BY <1>6 DEF BeginForEach
    <2>2. [Top(t) EXCEPT !.at = "visit", !.src = s].op = Top(t).op
      BY <1>3 DEF Frame
    <2>3. QED
      BY <2>1, <2>2
  <1>7. CASE VisitList(t)
    <2> DEFINE n == Top(t).pos + 1
               f == [Top(t) EXCEPT !.at = "callback", !.pos = n,
                                   !.applied = Append(@, interfaces.items[n])]
    <2>1. Replace(t, f)
      BY <1>7 DEF VisitList
    <2>2. f.op = Top(t).op
      BY <1>3 DEF Frame
    <2> HIDE DEF f
    <2>3. QED
      BY <2>1, <2>2
  <1>8. CASE VisitNative(t)
    <2> DEFINE n     == Top(t).pos + 1
               added == [Top(t) EXCEPT !.pos = n, !.built = Append(@, Native[n])]
               f     == [added EXCEPT !.at = "callback", !.applied = Append(@, Native[n])]
    <2>1. Replace(t, f) \/ Replace(t, added)
      BY <1>8 DEF VisitNative
    <2>2. f.op = Top(t).op /\ added.op = Top(t).op
      BY <1>3 DEF Frame
    <2> HIDE DEF f, added
    <2>3. QED
      BY <2>1, <2>2
  <1>9. CASE CallbackReturn(t)
    <2> DEFINE f == [Top(t) EXCEPT !.at = "visit"]
               g == [Top(t) EXCEPT !.at = "visit", !.going = FALSE]
    <2>1. Replace(t, f) \/ Replace(t, g)
      BY <1>4, <1>9 DEF CallbackReturn, Goto
    <2>2. f.op = Top(t).op /\ g.op = Top(t).op
      BY <1>3 DEF Frame
    <2> HIDE DEF f, g
    <2>3. QED
      BY <2>1, <2>2
  <1>10. CASE \/ GetInterface(t) \/ GetInterfaces(t) \/ FailVisit(t)
              \/ FinishList(t) \/ FinishNative(t) \/ Shut(t)
    BY <1>4, <1>10 DEF GetInterface, GetInterfaces, FailPopulate, FailVisit, FinishList,
         FinishNative, Shut
  <1>11. QED
    BY <1>5, <1>6, <1>7, <1>8, <1>9, <1>10

-----------------------------------------------------------------------------
(* The second part of the inductive invariant: what a client that closes    *)
(* the browser only when all its users are done relies on.  A close is the  *)
(* only call in progress, from its first step to its last, so that no call  *)
(* that was let in while the browser was open is still there to be harmed.  *)

InNative(f) == f.at \in {"enter", "visit", "callback"}

\* A close, of a thread or of the Cleaner's, is the only call in progress.
ClosesAlone ==
    \A t, u \in AllThreads : \A i \in DOMAIN stack[t], j \in DOMAIN stack[u] :
        stack[t][i].op = "close" => u = t /\ j = i

CloseInv ==
    /\ closed <=> native = "deleted"
    /\ native = "none" => ~reachable /\ ~registered /\ ~Busy
    /\ ~reachable => \A t \in Threads : stack[t] = << >>
    /\ registered => stack[CleanerThread] = << >>
    /\ ClosesAlone
    /\ \A t \in AllThreads : \A i \in DOMAIN stack[t] : InNative(stack[t][i]) => native = "live"
    /\ ~undefined

LEMMA CloseInit == Init => CloseInv
  <1> SUFFICES ASSUME Init PROVE CloseInv
    OBVIOUS
  <1>1. \A t \in AllThreads : stack[t] = << >> /\ DOMAIN stack[t] = {}
    BY EmptySeq, LenProperties DEF Init
  <1>2. CleanerThread \in AllThreads /\ Threads \subseteq AllThreads
    BY DEF AllThreads
  <1>3. QED
    BY <1>1, <1>2 DEF Init, CloseInv, ClosesAlone, Busy, InCall

\* A step inside a call starts no call, so that a close stays alone.
LEMMA InsideKeepsClose ==
    ASSUME CloseInv, NEW t \in AllThreads, InCall(t),
           \A u \in AllThreads \ {t} : stack'[u] = stack[u],
           \A i \in DOMAIN stack'[t] :
                i \in DOMAIN stack[t] /\ stack'[t][i].op = stack[t][i].op,
           \A i \in DOMAIN stack'[t] : InNative(stack'[t][i]) => native = "live",
           registered' => registered,
           UNCHANGED <<native, closed, reachable, undefined>>
    PROVE  CloseInv'
  <1>1. t \in Threads \/ t = CleanerThread
    BY DEF AllThreads
  <1>2. Threads \subseteq AllThreads /\ CleanerThread \in AllThreads
    BY DEF AllThreads
  <1>3. native # "none"
    BY DEF CloseInv, Busy
  <1>4. \A u \in AllThreads : stack[u] = << >> => stack'[u] = << >>
    BY DEF InCall
  <1>5. \A u \in AllThreads : \A i \in DOMAIN stack'[u] :
            i \in DOMAIN stack[u] /\ stack'[u][i].op = stack[u][i].op
    OBVIOUS
  <1>6. ClosesAlone'
    BY <1>5 DEF CloseInv, ClosesAlone
  <1>7. \A u \in AllThreads : \A i \in DOMAIN stack'[u] : InNative(stack'[u][i]) => native = "live"
    BY DEF CloseInv
  <1>8. /\ ~reachable => \A u \in Threads : stack'[u] = << >>
        /\ registered' => stack'[CleanerThread] = << >>
    BY <1>2, <1>4 DEF CloseInv
  <1>9. QED
    BY <1>3, <1>6, <1>7, <1>8 DEF CloseInv, InNative

LEMMA ReplaceKeepsClose ==
    ASSUME CoreInv, CloseInv, NEW t \in AllThreads, InCall(t), NEW f \in Frame,
           Replace(t, f), f.op = Top(t).op, InNative(f) => native = "live",
           registered' => registered,
           UNCHANGED <<native, closed, reachable, undefined>>
    PROVE  CloseInv'
  <1>1. \A i \in DOMAIN stack'[t] :
            /\ i \in DOMAIN stack[t] /\ stack'[t][i].op = stack[t][i].op
            /\ InNative(stack'[t][i]) => native = "live"
    <2> SUFFICES ASSUME NEW i \in DOMAIN stack'[t]
                 PROVE  /\ i \in DOMAIN stack[t] /\ stack'[t][i].op = stack[t][i].op
                        /\ InNative(stack'[t][i]) => native = "live"
      OBVIOUS
    <2>1. i \in DOMAIN stack[t]
      BY ReplaceEffect DEF CoreInv
    <2>2. CASE i = Len(stack[t])
      BY <2>1, <2>2, ReplaceEffect DEF CoreInv, Top
    <2>3. CASE i # Len(stack[t])
      <3>1. i \in 1..(Len(stack[t]) - 1)
        BY <2>1, <2>3, ReplaceEffect, LenProperties DEF CoreInv, TypeOK
      <3>2. stack'[t][i] = stack[t][i]
        BY <3>1, ReplaceEffect DEF CoreInv
      <3>3. QED
        BY <2>1, <3>2 DEF CloseInv
    <2>4. QED
      BY <2>2, <2>3
  <1>2. \A u \in AllThreads \ {t} : stack'[u] = stack[u]
    BY ReplaceEffect DEF CoreInv
  <1>3. QED
    BY <1>1, <1>2, InsideKeepsClose

LEMMA ReturnKeepsClose ==
    ASSUME CoreInv, CloseInv, NEW t \in AllThreads, InCall(t), NEW kind, NEW seen,
           Return(t, kind, seen), registered' => registered,
           UNCHANGED <<native, closed, reachable, undefined>>
    PROVE  CloseInv'
  <1>1. \A i \in DOMAIN stack'[t] : i \in DOMAIN stack[t] /\ stack'[t][i] = stack[t][i]
    <2> SUFFICES ASSUME NEW i \in 1..(Len(stack[t]) - 1)
                 PROVE  i \in DOMAIN stack[t] /\ stack'[t][i] = stack[t][i]
      BY ReturnEffect DEF CoreInv
    <2>1. i \in 1..Len(stack[t])
      BY LenProperties DEF CoreInv, TypeOK
    <2>2. QED
      BY <2>1, ReturnEffect DEF CoreInv
  <1>2. \A u \in AllThreads \ {t} : stack'[u] = stack[u]
    BY ReturnEffect DEF CoreInv
  <1>3. \A i \in DOMAIN stack'[t] : InNative(stack'[t][i]) => native = "live"
    BY <1>1 DEF CloseInv
  <1>4. QED
    BY <1>1, <1>2, <1>3, InsideKeepsClose

\* The innermost call of a thread: it is past ready() only in a live browser.
LEMMA TopInNative ==
    ASSUME CoreInv, CloseInv, NEW t \in AllThreads, InCall(t)
    PROVE  /\ Top(t) \in Frame
           /\ native # "none"
           /\ InNative(Top(t)) => native = "live"
  BY TopFrame DEF CoreInv, CloseInv, Busy, Top

\* A call starts in a browser that is not being closed; a close, in one that
\* nobody uses.
LEMMA CloseStartCall ==
    ASSUME ~CloseOverlaps, CoreInv, CloseInv, NEW t \in Threads, NEW op \in Ops,
           StartCall(t, op)
    PROVE  CloseInv'
  <1> DEFINE f == NewFrame(op, IF op = "close" THEN "clean" ELSE "ready")
  <1>1. /\ reachable /\ Push(t, f) /\ ~Closing /\ (op = "close" => ~Busy)
        /\ UNCHANGED <<native, closed, registered, reachable, undefined>>
    BY DEF StartCall, CloseDiscipline
  <1>2. f \in Frame /\ f.op = op /\ ~InNative(f)
    BY NewFrameOK DEF NewFrame, InNative
  <1>3. t \in AllThreads /\ CleanerThread \in AllThreads \ {t}
    BY ConstantsAssumption DEF AllThreads
  <1> HIDE DEF f
  <1>4. /\ \A u \in AllThreads \ {t} : stack'[u] = stack[u]
        /\ DOMAIN stack[t] = 1..Len(stack[t])
        /\ DOMAIN stack'[t] = 1..(Len(stack[t]) + 1)
        /\ \A i \in 1..Len(stack[t]) : stack'[t][i] = stack[t][i]
        /\ stack'[t][Len(stack[t]) + 1] = f
        /\ Len(stack[t]) \in Nat
    BY <1>1, <1>2, <1>3, PushEffect, LenProperties DEF CoreInv, TypeOK
  <1>5. \A i \in DOMAIN stack'[t] : i \in DOMAIN stack[t] \/ i = Len(stack[t]) + 1
    BY <1>4
  <1>6. \A u \in AllThreads : \A i \in DOMAIN stack'[u] :
            \/ i \in DOMAIN stack[u] /\ stack'[u][i] = stack[u][i]
            \/ u = t /\ i = Len(stack[t]) + 1 /\ stack'[u][i] = f
    BY <1>4, <1>5
  <1>7. ClosesAlone'
    <2> SUFFICES ASSUME NEW u \in AllThreads, NEW v \in AllThreads,
                        NEW i \in DOMAIN stack'[u], NEW j \in DOMAIN stack'[v],
                        stack'[u][i].op = "close"
                 PROVE  v = u /\ j = i
      BY DEF ClosesAlone
    <2>1. u = t /\ i = Len(stack[t]) + 1 /\ op = "close"
      BY <1>1, <1>2, <1>6 DEF Closing
    <2>2. \A w \in AllThreads : stack[w] = << >> /\ DOMAIN stack[w] = {}
      BY <1>1, <2>1, EmptySeq, LenProperties DEF Busy, InCall
    <2>3. QED
      BY <1>6, <2>1, <2>2
  <1>8. \A u \in AllThreads : \A i \in DOMAIN stack'[u] : InNative(stack'[u][i]) => native = "live"
    BY <1>2, <1>6 DEF CloseInv
  <1>9. native # "none"
    BY <1>1 DEF CloseInv
  <1>10. registered => stack'[CleanerThread] = << >>
    BY <1>3, <1>4 DEF CloseInv
  <1>11. QED
    BY <1>1, <1>7, <1>8, <1>9, <1>10 DEF CloseInv, InNative

\* The Cleaner's thread closes a browser that no thread can reach any more.
LEMMA CloseCleanerRuns ==
    ASSUME CoreInv, CloseInv, CleanerRuns
    PROVE  CloseInv'
  <1> DEFINE f == NewFrame("close", "shut")
  <1>1. /\ ~reachable /\ registered /\ ~registered' /\ Push(CleanerThread, f)
        /\ UNCHANGED <<native, closed, reachable, undefined>>
    BY DEF CleanerRuns
  <1>2. f \in Frame /\ ~InNative(f)
    BY NewFrameOK DEF NewFrame, InNative, Ops
  <1>3. CleanerThread \in AllThreads /\ Threads = AllThreads \ {CleanerThread}
    BY ConstantsAssumption DEF AllThreads
  <1> HIDE DEF f
  <1>4. \A u \in AllThreads : stack[u] = << >> /\ Len(stack[u]) = 0 /\ DOMAIN stack[u] = {}
    BY <1>1, <1>3, EmptySeq, LenProperties DEF CloseInv
  <1>5. /\ \A u \in AllThreads \ {CleanerThread} : stack'[u] = stack[u]
        /\ DOMAIN stack'[CleanerThread] = 1..(Len(stack[CleanerThread]) + 1)
        /\ stack'[CleanerThread][Len(stack[CleanerThread]) + 1] = f
    BY <1>1, <1>2, <1>3, PushEffect DEF CoreInv
  <1>6. DOMAIN stack'[CleanerThread] = {1} /\ stack'[CleanerThread][1] = f
    BY <1>3, <1>4, <1>5
  <1>7. \A u \in AllThreads : \A i \in DOMAIN stack'[u] :
            u = CleanerThread /\ i = 1 /\ stack'[u][i] = f
    BY <1>3, <1>4, <1>5, <1>6
  <1>8. ClosesAlone'
    BY <1>7 DEF ClosesAlone
  <1>9. \A u \in AllThreads : \A i \in DOMAIN stack'[u] : InNative(stack'[u][i]) => native = "live"
    BY <1>2, <1>7
  <1>10. \A u \in Threads : stack'[u] = << >>
    BY <1>3, <1>4, <1>5
  <1>11. native # "none"
    BY <1>1 DEF CloseInv
  <1>12. QED
    BY <1>1, <1>8, <1>9, <1>10, <1>11 DEF CloseInv, InNative

\* The browser is deleted when no other call is in progress, and none is left.
LEMMA CloseShut ==
    ASSUME CoreInv, CloseInv, NEW t \in AllThreads, Shut(t)
    PROVE  CloseInv'
  <1>1. /\ InCall(t) /\ Top(t).at = "shut" /\ Return(t, "closed", << >>)
        /\ closed' /\ (closed => native' = native) /\ (~closed => native' = "deleted")
        /\ UNCHANGED <<registered, reachable, undefined>>
    BY DEF Shut, CloseInternal, TopAt
  <1>2. Top(t).op = "close" /\ Len(stack[t]) \in DOMAIN stack[t] /\ Len(stack[t]) \in Nat \ {0}
    BY <1>1, TopFrame DEF CoreInv, FramesOK, FrameOK, Top
  <1>3. \A u \in AllThreads : \A j \in DOMAIN stack[u] : u = t /\ j = Len(stack[t])
    BY <1>2 DEF CloseInv, ClosesAlone, Top
  <1>4. Len(stack[t]) = 1
    <2>1. 1 \in DOMAIN stack[t]
      BY <1>1, <1>2, TopFrame DEF CoreInv
    <2>2. QED
      BY <1>3, <2>1
  <1>5. stack' \in [AllThreads -> Seq(Frame)] /\ Len(stack'[t]) = 0
    <2>1. Len(stack'[t]) = Len(stack[t]) - 1
      BY <1>1, ReturnEffect DEF CoreInv
    <2>2. stack' \in [AllThreads -> Seq(Frame)]
      BY <1>1, ReturnEffect DEF CoreInv
    <2>3. QED
      BY <1>4, <2>1, <2>2
  <1>6. \A u \in AllThreads \ {t} : stack'[u] = << >>
    <2> SUFFICES ASSUME NEW u \in AllThreads \ {t} PROVE stack'[u] = << >>
      OBVIOUS
    <2>1. stack'[u] = stack[u] /\ stack[u] \in Seq(Frame)
      BY <1>1, ReturnEffect DEF CoreInv, TypeOK
    <2>2. stack[u] # << >> => Len(stack[u]) \in DOMAIN stack[u]
      BY TopFrame DEF CoreInv, InCall
    <2>3. QED
      BY <1>3, <2>1, <2>2
  <1>7. \A u \in AllThreads : stack'[u] = << >> /\ DOMAIN stack'[u] = {}
    BY <1>5, <1>6, EmptySeq, LenProperties
  <1>8. Threads \subseteq AllThreads /\ CleanerThread \in AllThreads
    BY DEF AllThreads
  <1>9. closed' <=> native' = "deleted"
    BY <1>1 DEF CloseInv
  <1>10. native' # "none"
    BY <1>9, <1>1
  <1>11. QED
    BY <1>1, <1>7, <1>8, <1>9, <1>10 DEF CloseInv, ClosesAlone

\* A step inside any other call.
LEMMA CloseInside ==
    ASSUME CoreInv, CloseInv, NEW t \in AllThreads,
           \/ EnterReady(t) \/ CheckClosed(t) \/ GetInterface(t) \/ GetInterfaces(t)
           \/ BeginForEach(t) \/ VisitList(t) \/ VisitNative(t) \/ FailVisit(t)
           \/ CallbackReturn(t) \/ FinishList(t) \/ FinishNative(t) \/ Clean(t)
    PROVE  CloseInv'
  <1>1. /\ InCall(t) /\ (registered' => registered)
        /\ UNCHANGED <<native, closed, reachable, undefined>>
    BY DEF EnterReady, CheckClosed, GetInterface, GetInterfaces, EnterMethod, BeginForEach,
         VisitList, VisitNative, FailVisit, CallbackReturn, FinishList, FinishNative, Clean, TopAt
  <1>2. Top(t) \in Frame /\ native # "none" /\ (InNative(Top(t)) => native = "live")
    BY <1>1, TopInNative
  <1>3. ASSUME NEW kind, NEW seen, Return(t, kind, seen)
        PROVE  CloseInv'
    BY <1>1, <1>3, ReturnKeepsClose
  <1>4. ASSUME NEW f \in Frame, Replace(t, f), f.op = Top(t).op, InNative(f) => native = "live"
        PROVE  CloseInv'
    BY <1>1, <1>4, ReplaceKeepsClose
  <1>5. CASE EnterReady(t)
    <2>1. Replace(t, [Top(t) EXCEPT !.at = "isClosed"])
      BY <1>5 DEF EnterReady, Goto
    <2>2. QED
      BY <1>2, <1>4, <2>1 DEF Frame, Points, InNative
  <1>6. CASE CheckClosed(t)
    <2>1. CASE ~closed /\ Goto(t, "enter")
      <3>1. native = "live"
        BY <1>2, <2>1 DEF CloseInv, CoreInv, TypeOK
      <3>2. QED
        BY <1>2, <1>4, <2>1, <3>1 DEF Goto, Frame, Points
    <2>2. QED
      BY <1>3, <1>6, <2>1 DEF CheckClosed
  <1>7. CASE GetInterface(t) \/ GetInterfaces(t) \/ FailVisit(t) \/ FinishList(t) \/ FinishNative(t)
    BY <1>3, <1>7 DEF GetInterface, GetInterfaces, FailPopulate, FailVisit, FinishList, FinishNative
  <1>8. CASE BeginForEach(t)
    <2>1. native = "live"
      BY <1>2, <1>8 DEF BeginForEach, EnterMethod, TopAt, InNative
    <2>2. PICK src \in Sources : Replace(t, [Top(t) EXCEPT !.at = "visit", !.src = src])
      BY <1>8 DEF BeginForEach, Sources
    <2>3. QED
      BY <1>2, <1>4, <2>1, <2>2 DEF Frame, Points
  <1>9. CASE VisitList(t) \/ VisitNative(t) \/ CallbackReturn(t)
    <2>1. native = "live" /\ (Top(t).at = "visit" \/ Top(t).at = "callback")
      BY <1>2, <1>9 DEF VisitList, VisitNative, CallbackReturn, TopAt, InNative
    <2>2. \/ \E kind, seen : Return(t, kind, seen)
          \/ \E f \in Frame : Replace(t, f) /\ f.op = Top(t).op
      BY <1>9, <2>1, InsideMoves DEF Step, UseDeleted
    <2>3. QED
      BY <1>3, <1>4, <2>1, <2>2
  <1>10. CASE Clean(t)
    <2>1. CASE Goto(t, "shut")
      BY <1>2, <1>4, <2>1 DEF Goto, Frame, Points, InNative
    <2>2. QED
      BY <1>3, <1>10, <2>1 DEF Clean
  <1>11. QED
    BY <1>5, <1>6, <1>7, <1>8, <1>9, <1>10

\* Every step of a program that closes the browser last keeps the invariant.
LEMMA CloseStep ==
    ASSUME ~CloseOverlaps, CoreInv, CloseInv, [Next]_vars
    PROVE  CloseInv'
  <1>1. ASSUME UNCHANGED <<native, closed, registered, reachable, stack, undefined>>
        PROVE  CloseInv'
    BY <1>1 DEF CloseInv, ClosesAlone, Busy, InCall
  <1>2. CASE Construct
    <2>1. /\ native = "none" /\ native' = "live" /\ ~Busy /\ reachable'
          /\ UNCHANGED <<closed, stack, undefined>>
      BY <1>2 DEF Construct, InitNative, CloseInv
    <2>2. CleanerThread \in AllThreads
      BY DEF AllThreads
    <2>3. QED
      BY <2>1, <2>2 DEF CloseInv, ClosesAlone, Busy, InCall
  <1>3. ASSUME NEW t \in Threads, NEW op \in Ops, StartCall(t, op)
        PROVE  CloseInv'
    BY <1>3, CloseStartCall
  <1>4. CASE Forget
    <2>1. ~Busy /\ ~reachable' /\ UNCHANGED <<native, closed, registered, stack, undefined>>
      BY <1>4 DEF Forget
    <2>2. Threads \subseteq AllThreads
      BY DEF AllThreads
    <2>3. QED
      BY <2>1, <2>2 DEF CloseInv, ClosesAlone, Busy, InCall
  <1>5. CASE CleanerRuns
    BY <1>5, CloseCleanerRuns
  <1>6. ASSUME NEW t \in AllThreads, Step(t)
        PROVE  CloseInv'
    <2>1. CASE UseDeleted(t)
      <3>1. InCall(t) /\ InNative(Top(t)) /\ native = "deleted"
        BY <2>1 DEF UseDeleted, UsesNative, EnterMethod, TopAt, InNative
      <3>2. QED
        BY <3>1, TopInNative
    <2>2. QED
      BY <1>6, <2>1, CloseInside, CloseShut DEF Step
  <1>7. CASE UNCHANGED vars
    BY <1>1, <1>7 DEF vars
  <1>8. QED
    BY <1>2, <1>3, <1>4, <1>5, <1>6, <1>7 DEF Next, Rest

\* When the browser is closed only after every call has ended, and forgotten
\* only then, no call ever touches the deleted C++ browser, whichever of
\* close() and the Cleaner's thread deletes it.
THEOREM NoUseWhenClosedLast ==
    ASSUME ~CloseOverlaps
    PROVE  Spec => []NoUseAfterDelete
  <1>1. Init => CoreInv /\ CloseInv
    BY CoreInit, CloseInit
  <1>2. CoreInv /\ CloseInv /\ [Next]_vars => (CoreInv /\ CloseInv)'
    BY CoreStep, CloseStep
  <1>3. CoreInv /\ CloseInv => NoUseAfterDelete
    BY DEF CloseInv, NoUseAfterDelete
  <1>4. QED
    BY <1>1, <1>2, <1>3, PTL DEF Spec

-----------------------------------------------------------------------------
(* The monitors. *)

\* Only a construction and the close that owns the monitor touch the C++ browser.
LEMMA NativeChanges ==
    ASSUME [Next]_vars, native' # native, native = "live"
    PROVE  \E t \in AllThreads : Shut(t)
  <1>1. ASSUME NEW t \in AllThreads, Step(t), ~Shut(t)
        PROVE  native' = native
    BY <1>1 DEF Step, EnterReady, CheckClosed, GetInterface, GetInterfaces, BeginForEach,
         VisitList, VisitNative, FailVisit, CallbackReturn, FinishList, FinishNative, Clean,
         UseDeleted
  <1>2. QED
    BY <1>1 DEF Next, vars, Construct, InitNative, StartCall, Forget, CleanerRuns, Rest

\* Whoever closes the browser, whenever, it is not deleted under an iteration
\* of another thread, which keeps the monitor through all of its callbacks.
THEOREM NoDeleteUnderIteration == Spec => DeleteExcludesIteration
  <1> DEFINE A == native' # native /\ native = "live" =>
                    \A u \in AllThreads : HoldsNative(u) => stack'[u] # stack[u]
  <1>1. CoreInv /\ [Next]_vars => [A]_vars
    <2> SUFFICES ASSUME CoreInv, [Next]_vars, native' # native, native = "live",
                        NEW u \in AllThreads, HoldsNative(u), stack'[u] = stack[u]
                 PROVE  FALSE
      OBVIOUS
    <2>1. PICK t \in AllThreads : Shut(t)
      BY NativeChanges
    <2>2. InCall(t) /\ Return(t, "closed", << >>) /\ CanEnterNative(t)
      BY <2>1 DEF Shut, TopAt
    <2>3. u = t
      BY <2>2 DEF CanEnterNative
    <2>4. Len(stack'[t]) = Len(stack[t]) - 1 /\ Len(stack[t]) \in Nat
      BY <2>2, ReturnEffect, TopFrame DEF CoreInv
    <2>5. Len(stack[t]) # Len(stack[t]) - 1
      BY <2>4
    <2>6. QED
      BY <2>3, <2>4, <2>5
  <1>2. QED
    BY <1>1, CoreInvariant, PTL DEF Spec, DeleteExcludesIteration

=============================================================================
