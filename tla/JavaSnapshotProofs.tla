------------------------- MODULE JavaSnapshotProofs -------------------------
(***************************************************************************)
(* JavaBrowser, closed when its users are done with it, implements         *)
(* BrowserSnapshot: each answer is the snapshot's, and is given in one     *)
(* step.                                                                   *)
(***************************************************************************)
EXTENDS JavaBrowserProofs

-----------------------------------------------------------------------------
(* The third part of the inductive invariant.  Until the C++ browser is     *)
(* deleted, whoever ended the registration is still about to delete it, so  *)
(* that a close that finds nothing to do comes after the deletion.  A       *)
(* function has been applied to something when it runs, and when it has     *)
(* said stop.                                                               *)

Shutting == \E t \in AllThreads : \E i \in DOMAIN stack[t] : stack[t][i].at = "shut"

AppliedOK(f) == f.at = "callback" \/ ~f.going => f.applied # << >>

SnapshotInv ==
    /\ native = "live" /\ ~registered => Shutting
    /\ \A t \in AllThreads : \A i \in DOMAIN stack[t] : AppliedOK(stack[t][i])

LEMMA SnapshotInit == Init => SnapshotInv
  <1> SUFFICES ASSUME Init
               PROVE  SnapshotInv
    OBVIOUS
  <1>1. \A t \in AllThreads : DOMAIN stack[t] = {}
    BY EmptySeq, LenProperties DEF Init
  <1>2. QED
    BY <1>1 DEF Init, SnapshotInv

\* A call that begins has applied the function to nothing, and goes on.
LEMMA PushApplied ==
    ASSUME CoreInv, SnapshotInv, NEW t \in AllThreads, NEW f \in Frame, Push(t, f), AppliedOK(f)
    PROVE  /\ \A u \in AllThreads : \A i \in DOMAIN stack'[u] : AppliedOK(stack'[u][i])
           /\ Shutting => Shutting'
           /\ f.at = "shut" => Shutting'
  <1>1. /\ \A u \in AllThreads \ {t} : stack'[u] = stack[u]
        /\ DOMAIN stack[t] = 1..Len(stack[t])
        /\ DOMAIN stack'[t] = 1..(Len(stack[t]) + 1)
        /\ \A i \in 1..Len(stack[t]) : stack'[t][i] = stack[t][i]
        /\ stack'[t][Len(stack[t]) + 1] = f
        /\ Len(stack[t]) \in Nat
    BY PushEffect, LenProperties DEF CoreInv, TypeOK
  <1>2. \A i \in DOMAIN stack'[t] : i \in DOMAIN stack[t] \/ i = Len(stack[t]) + 1
    BY <1>1
  <1>3. Len(stack[t]) + 1 \in DOMAIN stack'[t] /\ DOMAIN stack[t] \subseteq DOMAIN stack'[t]
    BY <1>1
  <1>4. \A u \in AllThreads : \A i \in DOMAIN stack'[u] : AppliedOK(stack'[u][i])
    BY <1>1, <1>2 DEF SnapshotInv
  <1>5. Shutting => Shutting'
    BY <1>1, <1>3 DEF Shutting
  <1>6. f.at = "shut" => Shutting'
    BY <1>1, <1>3 DEF Shutting
  <1>7. QED
    BY <1>4, <1>5, <1>6

\* A step inside a call that is not the one about to delete the C++ browser.
LEMMA ReplaceApplied ==
    ASSUME CoreInv, SnapshotInv, NEW t \in AllThreads, InCall(t), NEW f \in Frame,
           Replace(t, f), AppliedOK(f), Top(t).at # "shut"
    PROVE  /\ \A u \in AllThreads : \A i \in DOMAIN stack'[u] : AppliedOK(stack'[u][i])
           /\ Shutting => Shutting'
           /\ f.at = "shut" => Shutting'
  <1>1. /\ \A u \in AllThreads \ {t} : stack'[u] = stack[u]
        /\ DOMAIN stack[t] = 1..Len(stack[t])
        /\ DOMAIN stack'[t] = 1..Len(stack[t])
        /\ \A i \in 1..(Len(stack[t]) - 1) : stack'[t][i] = stack[t][i]
        /\ stack'[t][Len(stack[t])] = f
        /\ Len(stack[t]) \in Nat /\ Len(stack[t]) \in DOMAIN stack[t]
    BY ReplaceEffect, TopFrame, LenProperties DEF CoreInv, TypeOK
  <1>2. \A i \in DOMAIN stack[t] : i \in 1..(Len(stack[t]) - 1) \/ i = Len(stack[t])
    BY <1>1
  <1>3. \A u \in AllThreads : \A i \in DOMAIN stack'[u] : AppliedOK(stack'[u][i])
    BY <1>1, <1>2 DEF SnapshotInv
  <1>4. ASSUME NEW u \in AllThreads, NEW i \in DOMAIN stack[u], stack[u][i].at = "shut"
        PROVE  Shutting'
    <2>1. i \in DOMAIN stack'[u] /\ stack'[u][i] = stack[u][i]
      BY <1>1, <1>2, <1>4 DEF Top
    <2>2. QED
      BY <1>4, <2>1 DEF Shutting
  <1>5. Shutting => Shutting'
    BY <1>4 DEF Shutting
  <1>6. f.at = "shut" => Shutting'
    BY <1>1 DEF Shutting
  <1>7. QED
    BY <1>3, <1>5, <1>6

LEMMA ReturnApplied ==
    ASSUME CoreInv, SnapshotInv, NEW t \in AllThreads, InCall(t), NEW kind, NEW seen,
           Return(t, kind, seen)
    PROVE  /\ \A u \in AllThreads : \A i \in DOMAIN stack'[u] : AppliedOK(stack'[u][i])
           /\ Shutting /\ Top(t).at # "shut" => Shutting'
  <1>1. /\ \A u \in AllThreads \ {t} : stack'[u] = stack[u]
        /\ DOMAIN stack[t] = 1..Len(stack[t])
        /\ DOMAIN stack'[t] = 1..(Len(stack[t]) - 1)
        /\ \A i \in 1..(Len(stack[t]) - 1) : stack'[t][i] = stack[t][i]
        /\ Len(stack[t]) \in Nat
    BY ReturnEffect, LenProperties DEF CoreInv, TypeOK
  <1>2. \A i \in DOMAIN stack[t] : i \in DOMAIN stack'[t] \/ i = Len(stack[t])
    BY <1>1
  <1>3. DOMAIN stack'[t] \subseteq DOMAIN stack[t]
    BY <1>1
  <1>4. \A u \in AllThreads : \A i \in DOMAIN stack'[u] : AppliedOK(stack'[u][i])
    BY <1>1, <1>3 DEF SnapshotInv
  <1>5. ASSUME NEW u \in AllThreads, NEW i \in DOMAIN stack[u], stack[u][i].at = "shut",
               Top(t).at # "shut"
        PROVE  Shutting'
    <2>1. i \in DOMAIN stack'[u] /\ stack'[u][i] = stack[u][i]
      BY <1>1, <1>2, <1>5 DEF Top
    <2>2. QED
      BY <1>5, <2>1 DEF Shutting
  <1>6. QED
    BY <1>4, <1>5 DEF Shutting


\* Every step inside a call ends it, or moves its frame to where it may be; only
\* a close that ends the registration goes on to delete the C++ browser.
Moves(t) ==
    \/ \E kind, seen : Return(t, kind, seen)
    \/ \E f \in Frame : /\ Replace(t, f) /\ AppliedOK(f) /\ Top(t).at # "shut"
                        /\ registered /\ ~registered' => f.at = "shut"

LEMMA MovesApplied ==
    ASSUME CoreInv, CoreInv', SnapshotInv, NEW t \in AllThreads, Step(t), ~UseDeleted(t)
    PROVE  Moves(t)
  <1>1. InCall(t)
    BY DEF Step, EnterReady, CheckClosed, GetInterface, GetInterfaces, EnterMethod, BeginForEach,
         VisitList, VisitNative, FailVisit, CallbackReturn, FinishList, FinishNative, Clean,
         Shut, TopAt
  <1>2. PICK f \in Frame : f = Top(t) /\ AppliedOK(f)
    BY <1>1, TopFrame DEF CoreInv, SnapshotInv, Top
  <1>3. ASSUME NEW g, Replace(t, g)
        PROVE  g \in Frame
    BY <1>1, <1>3, ReplacedFrame
  <1>4. ASSUME NEW g, Replace(t, g), AppliedOK(g), f.at # "shut",
               registered /\ ~registered' => g.at = "shut"
        PROVE  Moves(t)
    BY <1>2, <1>3, <1>4 DEF Moves
  <1>5. ASSUME NEW kind, NEW seen, Return(t, kind, seen)
        PROVE  Moves(t)
    BY <1>5 DEF Moves
  <1>6. ASSUME NEW p \in Points, Goto(t, p), p # "callback", f.at # "shut",
               registered /\ ~registered' => p = "shut"
        PROVE  Moves(t)
    <2>1. PICK g : g = [f EXCEPT !.at = p]
      OBVIOUS
    <2>2. g.at = p /\ g.going = f.going /\ g.applied = f.applied
      BY <2>1 DEF Frame
    <2>3. Replace(t, g) /\ AppliedOK(g)
      BY <1>2, <1>6, <2>1, <2>2 DEF Goto, AppliedOK
    <2>4. QED
      BY <1>4, <1>6, <2>2, <2>3
  <1>7. CASE EnterReady(t) \/ CheckClosed(t)
    <2>1. f.at # "shut" /\ registered' = registered
      BY <1>2, <1>7 DEF EnterReady, CheckClosed, TopAt
    <2>2. QED
      BY <1>5, <1>6, <1>7, <2>1 DEF EnterReady, CheckClosed, Points
  <1>8. CASE \/ GetInterface(t) \/ GetInterfaces(t) \/ FailVisit(t) \/ FinishList(t)
             \/ FinishNative(t) \/ Shut(t)
    BY <1>5, <1>8 DEF GetInterface, GetInterfaces, FailPopulate, FailVisit, FinishList,
         FinishNative, Shut
  <1>9. CASE BeginForEach(t)
    <2>1. PICK src : Replace(t, [f EXCEPT !.at = "visit", !.src = src])
      BY <1>2, <1>9 DEF BeginForEach
    <2>2. PICK g : g = [f EXCEPT !.at = "visit", !.src = src]
      OBVIOUS
    <2>3. g.at = "visit" /\ g.going = f.going /\ g.applied = f.applied
      BY <2>2 DEF Frame
    <2>4. f.at # "shut" /\ registered' = registered
      BY <1>2, <1>9 DEF BeginForEach, EnterMethod, TopAt
    <2>5. AppliedOK(g)
      BY <1>2, <2>3 DEF AppliedOK
    <2>6. QED
      BY <1>4, <2>1, <2>2, <2>4, <2>5
  <1>10. ASSUME NEW item, NEW g, Replace(t, g), g.applied = Append(f.applied, item),
                f.at # "shut", registered' = registered
         PROVE  Moves(t)
    <2>1. g \in Frame
      BY <1>3, <1>10
    <2>2. g.applied \in Seq(Interfaces) /\ f.applied \in Seq(Interfaces)
      BY <2>1 DEF Frame
    <2>3. Append(f.applied, item) # << >>
      BY <2>2
    <2>4. AppliedOK(g)
      BY <1>10, <2>3 DEF AppliedOK
    <2>5. QED
      BY <1>4, <1>10, <2>4
  <1>11. CASE VisitList(t)
    <2>1. PICK n, item : Replace(t, [f EXCEPT !.at = "callback", !.pos = n,
                                              !.applied = Append(@, item)])
      BY <1>2, <1>11 DEF VisitList
    <2>2. PICK g : g = [f EXCEPT !.at = "callback", !.pos = n, !.applied = Append(@, item)]
      OBVIOUS
    <2>3. g.applied = Append(f.applied, item)
      BY <2>2 DEF Frame
    <2>4. f.at # "shut" /\ registered' = registered
      BY <1>2, <1>11 DEF VisitList, TopAt
    <2>5. QED
      BY <1>10, <2>1, <2>2, <2>3, <2>4
  <1>12. CASE VisitNative(t)
    <2>1. f.at = "visit" /\ registered' = registered
      BY <1>2, <1>12, SMTT(60) DEF VisitNative, TopAt
    <2>2. PICK n, item : LET added == [f EXCEPT !.pos = n, !.built = Append(@, item)]
                         IN \/ Replace(t, [added EXCEPT !.at = "callback", !.applied = Append(@, item)])
                            \/ Replace(t, added)
      BY <1>2, <1>12 DEF VisitNative
    <2>3. PICK added : added = [f EXCEPT !.pos = n, !.built = Append(@, item)]
      OBVIOUS
    <2>4. /\ added.at = "visit" /\ added.going = f.going /\ added.applied = f.applied
          /\ DOMAIN added = DOMAIN f
      BY <2>1, <2>3 DEF Frame
    <2>5. CASE Replace(t, added)
      BY <1>2, <1>4, <2>1, <2>4, <2>5 DEF AppliedOK
    <2>6. CASE Replace(t, [added EXCEPT !.at = "callback", !.applied = Append(@, item)])
      <3>1. PICK g : g = [added EXCEPT !.at = "callback", !.applied = Append(@, item)]
        OBVIOUS
      <3>2. g.applied = Append(f.applied, item)
        BY <2>4, <3>1 DEF Frame
      <3>3. QED
        BY <1>10, <2>1, <2>6, <3>1, <3>2
    <2>7. QED
      BY <2>2, <2>3, <2>5, <2>6
  <1>13. CASE CallbackReturn(t)
    <2>1. f.at = "callback" /\ registered' = registered /\ f.applied # << >>
      BY <1>2, <1>13 DEF CallbackReturn, TopAt, AppliedOK
    <2>2. CASE Goto(t, "visit")
      BY <1>6, <2>1, <2>2 DEF Points
    <2>3. CASE Replace(t, [f EXCEPT !.at = "visit", !.going = FALSE])
      <3>1. PICK g : g = [f EXCEPT !.at = "visit", !.going = FALSE]
        OBVIOUS
      <3>2. g.applied = f.applied
        BY <3>1 DEF Frame
      <3>3. QED
        BY <1>4, <2>1, <2>3, <3>1, <3>2 DEF AppliedOK
    <2>4. QED
      BY <1>2, <1>5, <1>13, <2>2, <2>3 DEF CallbackReturn
  <1>14. CASE Clean(t)
    <2>1. f.at = "clean"
      BY <1>2, <1>14 DEF Clean, TopAt
    <2>2. QED
      BY <1>5, <1>6, <1>14, <2>1 DEF Clean, Points
  <1>15. QED
    BY <1>7, <1>8, <1>9, <1>11, <1>12, <1>13, <1>14 DEF Step

\* Every step of a program that closes the browser last keeps it.
LEMMA SnapshotStep ==
    ASSUME ~CloseOverlaps, CoreInv, CoreInv', CloseInv, SnapshotInv, [Next]_vars
    PROVE  SnapshotInv'
  <1>1. ASSUME UNCHANGED <<native, registered, stack>>
        PROVE  SnapshotInv'
    BY <1>1 DEF SnapshotInv, Shutting
  <1>2. CASE Construct
    BY <1>2 DEF Construct, InitNative, SnapshotInv
  <1>3. ASSUME NEW t \in Threads, NEW op \in Ops, StartCall(t, op)
        PROVE  SnapshotInv'
    <2>1. PICK p \in {"clean", "ready"} : /\ Push(t, NewFrame(op, p))
                                          /\ NewFrame(op, p) \in Frame
      BY <1>3, NewFrameOK DEF StartCall
    <2>2. t \in AllThreads /\ AppliedOK(NewFrame(op, p))
      BY <2>1 DEF AllThreads, AppliedOK, NewFrame
    <2>3. UNCHANGED <<native, registered>>
      BY <1>3 DEF StartCall
    <2>4. QED
      BY <2>1, <2>2, <2>3, PushApplied DEF SnapshotInv
  <1>4. CASE CleanerRuns
    <2>1. Push(CleanerThread, NewFrame("close", "shut")) /\ UNCHANGED native
      BY <1>4 DEF CleanerRuns
    <2>2. /\ NewFrame("close", "shut") \in Frame /\ AppliedOK(NewFrame("close", "shut"))
          /\ NewFrame("close", "shut").at = "shut" /\ CleanerThread \in AllThreads
      BY NewFrameOK DEF Ops, AppliedOK, NewFrame, AllThreads
    <2>3. QED
      BY <2>1, <2>2, PushApplied DEF SnapshotInv
  <1>5. ASSUME NEW t \in AllThreads, Step(t)
        PROVE  SnapshotInv'
    <2>1. CASE UseDeleted(t)
      BY <1>1, <2>1 DEF UseDeleted
    <2>2. CASE ~UseDeleted(t)
      <3>1. /\ InCall(t) /\ (native' = native \/ Shut(t)) /\ (registered' => registered)
            /\ registered /\ ~registered' => Clean(t)
        BY <1>5, <2>2 DEF Step, EnterReady, CheckClosed, GetInterface, GetInterfaces, EnterMethod,
             BeginForEach, VisitList, VisitNative, FailVisit, CallbackReturn, FinishList,
             FinishNative, Clean, Shut, TopAt
      <3>2. CASE Shut(t)
        <4>1. native' = "deleted" \/ (native' = native /\ closed)
          BY <3>2 DEF Shut, CloseInternal
        <4>2. native' # "live"
          BY <4>1 DEF CloseInv
        <4>3. Return(t, "closed", << >>)
          BY <3>2 DEF Shut
        <4>4. QED
          BY <3>1, <4>2, <4>3, ReturnApplied DEF SnapshotInv
      <3>3. ASSUME NEW f \in Frame, Replace(t, f), AppliedOK(f), Top(t).at # "shut",
                   registered /\ ~registered' => f.at = "shut", ~Shut(t)
            PROVE  SnapshotInv'
        BY <3>1, <3>3, ReplaceApplied DEF SnapshotInv
      <3>4. ASSUME NEW kind, NEW seen, Return(t, kind, seen), ~Shut(t)
            PROVE  SnapshotInv'
        <4>1. Top(t).at # "shut"
          BY <1>5, <2>2, <3>4 DEF Step, EnterReady, CheckClosed, GetInterface, GetInterfaces,
               EnterMethod, BeginForEach, VisitList, VisitNative, FailVisit, CallbackReturn,
               FinishList, FinishNative, Clean, TopAt
        <4>2. ~(registered /\ ~registered')
          <5>1. ASSUME registered, ~registered'
                PROVE  FALSE
            <6>1. Clean(t) /\ Goto(t, "shut")
              BY <3>1, <5>1 DEF Clean
            <6>2. Len(stack'[t]) = Len(stack[t]) - 1 /\ Len(stack[t]) \in Nat
              BY <3>1, <3>4, ReturnEffect, TopFrame DEF CoreInv
            <6>3. Len(stack'[t]) = Len(stack[t])
              <7>1. [Top(t) EXCEPT !.at = "shut"] \in Frame
                BY <3>1, TopFrame DEF CoreInv, Frame, Points
              <7>2. QED
                BY <3>1, <6>1, <7>1, ReplaceEffect DEF CoreInv, Goto
            <6>4. QED
              BY <6>2, <6>3
          <5>2. QED
            BY <5>1
        <4>3. QED
          BY <3>1, <3>4, <4>1, <4>2, ReturnApplied DEF SnapshotInv
      <3>5. QED
        BY <1>5, <2>2, <3>2, <3>3, <3>4, MovesApplied DEF Moves
    <2>3. QED
      BY <2>1, <2>2
  <1>6. CASE Forget \/ Rest \/ UNCHANGED vars
    BY <1>1, <1>6 DEF Forget, Rest, vars
  <1>7. QED
    BY <1>2, <1>3, <1>4, <1>5, <1>6 DEF Next

-----------------------------------------------------------------------------
(* The refinement: each step gives the answer of a step of BrowserSnapshot,  *)
(* or gives none.                                                            *)

\* The two ways to say which lists begin the snapshot.
LEMMA SamePrefixes ==
    ASSUME NEW s
    PROVE  /\ Prefix(s) <=> s \in Snapshot!Prefixes
           /\ << >> \in Snapshot!Prefixes /\ Native \in Snapshot!Prefixes
           /\ \A k : Configured(k) <=> k \in Snapshot!Known
  <1>1. Prefix(s) <=> s \in Snapshot!Prefixes
    BY DEF Prefix, Snapshot!Prefixes
  <1>2. Len(Native) \in 0..Len(Native) /\ 0 \in 0..Len(Native)
    BY NativeWhole, LenProperties, ConstantsAssumption
  <1>3. << >> \in Snapshot!Prefixes /\ Native \in Snapshot!Prefixes
    BY <1>2, NativeWhole DEF Snapshot!Prefixes
  <1>4. \A k : Configured(k) <=> k \in Snapshot!Known
    BY DEF Configured, Snapshot!Known
  <1>5. QED
    BY <1>1, <1>3, <1>4

\* An open browser that answers.
LEMMA ServesSnapshot ==
    ASSUME NEW t \in AllThreads, native = "live", native' = native, NEW kind \in Kinds, NEW seen,
           Top(t).op \in Ops, Return(t, kind, seen),
           seen \in {<<k>> : k \in Interfaces} \union Snapshot!Prefixes,
           LET a == [op |-> Top(t).op, kind |-> kind, seen |-> seen]
           IN \/ Snapshot!FromSnapshot(a) /\ interfaces' # NoList
              \/ Snapshot!Failed(a) /\ (interfaces # NoList => interfaces' # NoList)
    PROVE  Snapshot!Next
  <1> DEFINE a == [op |-> Top(t).op, kind |-> kind, seen |-> seen]
  <1>1. Status = "open" /\ Status' = Status
    BY DEF Status
  <1>2. answer' = [answer EXCEPT ![t] = a]
    BY DEF Return
  <1>3. Top(t).op \in Snapshot!Ops /\ kind \in Snapshot!Kinds
    BY DEF Ops, Kinds, Snapshot!Ops, Snapshot!Kinds
  <1>4. \/ Snapshot!FromSnapshot(a) /\ (interfaces' # NoList) = TRUE
        \/ Snapshot!Failed(a) /\ (interfaces' # NoList) \in {interfaces # NoList, TRUE}
    OBVIOUS
  <1>5. Snapshot!Serve(t)
    BY <1>1, <1>2, <1>3, <1>4 DEF Snapshot!Serve
  <1>6. QED
    BY <1>5 DEF Snapshot!Next

LEMMA RefusesSnapshot ==
    ASSUME NEW t \in AllThreads, native = "deleted", native' = native, interfaces' = interfaces,
           Top(t).op \in Ops \ {"close"}, Return(t, "refused", << >>)
    PROVE  Snapshot!Next
  <1>1. Status = "closed" /\ Status' = Status
    BY DEF Status
  <1>2. Top(t).op \in Snapshot!Ops \ {"close"}
    BY DEF Ops, Snapshot!Ops
  <1>3. Snapshot!Refuse(t)
    BY <1>1, <1>2 DEF Snapshot!Refuse, Return
  <1>4. QED
    BY <1>3 DEF Snapshot!Next

LEMMA ClosesSnapshot ==
    ASSUME NEW t \in AllThreads, native # "none", native' = "deleted", interfaces' = interfaces,
           native \in {"none", "live", "deleted"},
           Top(t).op = "close", Return(t, "closed", << >>)
    PROVE  Snapshot!Next
  <1>1. Status # "unbuilt" /\ Status' = "closed"
    BY DEF Status
  <1>2. Snapshot!Close(t)
    BY <1>1 DEF Snapshot!Close, Return
  <1>3. QED
    BY <1>2 DEF Snapshot!Next

\* getInterface and getInterfaces, let in by ready(), find the browser open.
LEMMA GettersServe ==
    ASSUME CoreInv, CloseInv, NEW t \in AllThreads, GetInterface(t) \/ GetInterfaces(t)
    PROVE  Snapshot!Next
  <1>1. InCall(t) /\ Top(t).at = "enter" /\ native' = native
    BY DEF GetInterface, GetInterfaces, EnterMethod, TopAt
  <1>2. Top(t) \in Frame /\ Top(t).op \in Ops /\ native = "live"
    BY <1>1, TopInNative DEF Frame, InNative
  <1>3. << >> \in Snapshot!Prefixes /\ Native \in Snapshot!Prefixes
    BY SamePrefixes
  <1>4. {"failed", "found", "absent", "list"} \subseteq Kinds
    BY DEF Kinds
  <1>5. ASSUME Top(t).op \in {"getInterface", "getInterfaces"}, Return(t, "failed", << >>),
               interfaces # NoList => interfaces' # NoList
        PROVE  Snapshot!Next
    <2>1. Snapshot!Failed([op |-> Top(t).op, kind |-> "failed", seen |-> << >>])
      BY <1>3, <1>5 DEF Snapshot!Failed
    <2>2. QED
      BY <1>1, <1>2, <1>3, <1>4, <1>5, <2>1, ServesSnapshot
  <1>6. Populated(t) # NoList /\ Populated(t).items = Native
    BY PopulatedOK
  <1>7. CASE GetInterface(t)
    <2>1. Top(t).op = "getInterface"
      BY <1>7 DEF GetInterface, EnterMethod
    <2>2. CASE FailPopulate(t)
      BY <1>5, <2>1, <2>2 DEF FailPopulate
    <2>3. ASSUME NEW k \in Interfaces, interfaces' = Populated(t),
                 \/ Configured(k) /\ Return(t, "found", <<k>>)
                 \/ ~Configured(k) /\ Return(t, "absent", <<k>>)
          PROVE  Snapshot!Next
      <3>1. PICK kind \in {"found", "absent"} :
                Return(t, kind, <<k>>) /\ kind = IF k \in Snapshot!Known THEN "found" ELSE "absent"
        BY <2>3, SamePrefixes
      <3>2. Snapshot!FromSnapshot([op |-> Top(t).op, kind |-> kind, seen |-> <<k>>])
        BY <2>1, <3>1 DEF Snapshot!FromSnapshot
      <3>3. kind \in Kinds /\ <<k>> \in {<<j>> : j \in Interfaces}
        BY <1>4, <3>1
      <3>4. QED
        BY <1>1, <1>2, <1>6, <2>3, <3>1, <3>2, <3>3, ServesSnapshot
    <2>4. QED
      BY <1>5, <1>6, <1>7, <2>1, <2>2, <2>3 DEF GetInterface
  <1>8. CASE GetInterfaces(t)
    <2>1. Top(t).op = "getInterfaces"
      BY <1>8 DEF GetInterfaces, EnterMethod
    <2>2. CASE FailPopulate(t)
      BY <1>5, <2>1, <2>2 DEF FailPopulate
    <2>3. CASE interfaces' = Populated(t) /\ Return(t, "list", Populated(t).items)
      <3>1. Snapshot!FromSnapshot([op |-> Top(t).op, kind |-> "list", seen |-> Native])
        BY <2>1 DEF Snapshot!FromSnapshot
      <3>2. Return(t, "list", Native)
        BY <1>6, <2>3
      <3>3. QED
        BY <1>1, <1>2, <1>3, <1>4, <1>6, <2>3, <3>1, <3>2, ServesSnapshot
    <2>4. QED
      BY <1>8, <2>2, <2>3 DEF GetInterfaces
  <1>9. QED
    BY <1>7, <1>8

\* forEachInterface, let in by ready(), finds the browser open to its end: its
\* function has been applied to a beginning of the snapshot when it ends early,
\* and to all of it when it does not.
LEMMA ForEachServes ==
    ASSUME CoreInv, CloseInv, SnapshotInv, NEW t \in AllThreads,
           FailVisit(t) \/ CallbackReturn(t) \/ FinishList(t) \/ FinishNative(t)
    PROVE  Snapshot!Next \/ UNCHANGED <<native, interfaces, answer>>
  <1>1. InCall(t) /\ Top(t).at \in {"visit", "callback"} /\ native' = native
    BY DEF FailVisit, CallbackReturn, FinishList, FinishNative, TopAt
  <1>2. PICK f \in Frame : f = Top(t) /\ AppliedOK(f) /\ FrameOK(f, interfaces # NoList)
    BY <1>1, TopFrame, TopFrameOK DEF CoreInv, SnapshotInv, Top
  <1>3. /\ f.op = "forEachInterface" /\ f.op \in Ops /\ native = "live"
        /\ f.applied \in Snapshot!Prefixes
        /\ f.src = "list" => interfaces # NoList /\ f.going
    BY <1>1, <1>2, TopInNative, SamePrefixes DEF FrameOK, InNative, Ops
  <1>4. {"failed", "completed", "stopped"} \subseteq Kinds
    BY DEF Kinds
  <1>5. ASSUME Return(t, "failed", f.applied), interfaces' = interfaces
        PROVE  Snapshot!Next
    <2>1. Snapshot!Failed([op |-> f.op, kind |-> "failed", seen |-> f.applied])
      BY <1>3 DEF Snapshot!Failed
    <2>2. QED
      BY <1>1, <1>2, <1>3, <1>4, <1>5, <2>1, ServesSnapshot
  <1>6. ASSUME Return(t, "stopped", f.applied), f.applied # << >>, interfaces' # NoList
        PROVE  Snapshot!Next
    <2>1. Snapshot!FromSnapshot([op |-> f.op, kind |-> "stopped", seen |-> f.applied])
      BY <1>3, <1>6 DEF Snapshot!FromSnapshot
    <2>2. QED
      BY <1>1, <1>2, <1>3, <1>4, <1>6, <2>1, ServesSnapshot
  <1>7. ASSUME Return(t, "completed", f.applied), f.applied = Native, interfaces' # NoList
        PROVE  Snapshot!Next
    <2>1. Snapshot!FromSnapshot([op |-> f.op, kind |-> "completed", seen |-> f.applied])
      BY <1>3, <1>7 DEF Snapshot!FromSnapshot
    <2>2. QED
      BY <1>1, <1>2, <1>3, <1>4, <1>7, <2>1, ServesSnapshot
  <1>8. CASE FailVisit(t)
    BY <1>2, <1>5, <1>8 DEF FailVisit
  <1>9. CASE CallbackReturn(t)
    <2>1. f.applied # << >>
      BY <1>2, <1>9 DEF CallbackReturn, TopAt, AppliedOK
    <2>2. UNCHANGED <<native, interfaces>>
      BY <1>9 DEF CallbackReturn
    <2>3. QED
      BY <1>2, <1>3, <1>5, <1>6, <1>9, <2>1, <2>2 DEF CallbackReturn
  <1>10. CASE FinishList(t)
    <2>1. f.src = "list" /\ f.pos = Len(interfaces.items) /\ interfaces' = interfaces
      BY <1>2, <1>10 DEF FinishList
    <2>2. f.pos = Len(Native)
      BY <1>3, <2>1 DEF CoreInv, CacheComplete
    <2>3. f.applied = Native
      BY <1>2, <1>3, <2>1, <2>2, AtEnd
    <2>4. QED
      BY <1>2, <1>3, <1>7, <1>10, <2>1, <2>3 DEF FinishList
  <1>11. CASE FinishNative(t)
    <2>1. f.pos = Len(Native) /\ f.src = "native"
      BY <1>2, <1>11 DEF FinishNative
    <2>2. f.built = Native /\ (f.going => f.applied = Native)
      BY <1>2, <2>1, AtEnd
    <2>3. interfaces' # NoList
      <3>1. <<t, Len(stack[t])>> \in AllThreads \X Nat
        BY LenProperties DEF CoreInv, TypeOK
      <3>2. [by |-> <<t, Len(stack[t])>>, items |-> Native] \in InterfaceList
        BY <3>1, ConstantsAssumption DEF InterfaceList
      <3>3. [by |-> <<t, Len(stack[t])>>, items |-> Native] # NoList
        BY <3>2, ConstantsAssumption
      <3>4. QED
        BY <1>2, <1>11, <2>2, <3>3 DEF FinishNative
    <2>4. CASE f.going
      BY <1>2, <1>7, <1>11, <2>2, <2>3, <2>4 DEF FinishNative
    <2>5. CASE ~f.going
      BY <1>2, <1>6, <1>11, <2>3, <2>5 DEF FinishNative, AppliedOK
    <2>6. QED
      BY <2>4, <2>5
  <1>12. QED
    BY <1>8, <1>9, <1>10, <1>11

\* A close that finds nothing to do comes after the deletion.
LEMMA CleanCloses ==
    ASSUME CoreInv, CloseInv, SnapshotInv, NEW t \in AllThreads, Clean(t)
    PROVE  Snapshot!Next \/ UNCHANGED <<native, interfaces, answer>>
  <1>1. InCall(t) /\ Top(t).at = "clean" /\ UNCHANGED <<native, interfaces>>
    BY DEF Clean, TopAt
  <1>2. Top(t).op = "close" /\ native # "none" /\ native \in {"none", "live", "deleted"}
    BY <1>1, TopFrameOK, TopInNative DEF FrameOK, CoreInv, TypeOK
  <1>3. CASE ~registered /\ Return(t, "closed", << >>)
    <2>1. ~Shutting
      <3>1. ASSUME NEW u \in AllThreads, NEW i \in DOMAIN stack[u], stack[u][i].at = "shut"
            PROVE  FALSE
        <4>1. Len(stack[t]) \in DOMAIN stack[t]
          BY <1>1, TopFrame DEF CoreInv
        <4>2. u = t /\ i = Len(stack[t])
          BY <1>2, <4>1 DEF CloseInv, ClosesAlone, Top
        <4>3. QED
          BY <1>1, <3>1, <4>2 DEF Top
      <3>2. QED
        BY <3>1 DEF Shutting
    <2>2. native = "deleted"
      BY <1>2, <1>3, <2>1 DEF SnapshotInv
    <2>3. QED
      BY <1>1, <1>2, <1>3, <2>2, ClosesSnapshot
  <1>4. QED
    BY <1>1, <1>3 DEF Clean

LEMMA RefinesStep ==
    ASSUME CoreInv, CloseInv, SnapshotInv, [Next]_vars
    PROVE  [Snapshot!Next]_Snapshot!snapshotVars
  <1>1. ASSUME UNCHANGED <<native, interfaces, answer>>
        PROVE  UNCHANGED Snapshot!snapshotVars
    BY <1>1 DEF Snapshot!snapshotVars, Status
  <1>2. CASE Construct
    <2>1. Status = "unbuilt" /\ Status' = "open" /\ UNCHANGED <<interfaces, answer>>
      BY <1>2 DEF Construct, InitNative, Status
    <2>2. Snapshot!Build
      BY <2>1 DEF Snapshot!Build
    <2>3. QED
      BY <2>2 DEF Snapshot!Next
  <1>3. ASSUME NEW t \in AllThreads, Step(t)
        PROVE  Snapshot!Next \/ UNCHANGED <<native, interfaces, answer>>
    <2>1. CASE EnterReady(t) \/ BeginForEach(t) \/ VisitList(t) \/ VisitNative(t) \/ UseDeleted(t)
      BY <2>1 DEF EnterReady, BeginForEach, VisitList, VisitNative, UseDeleted
    <2>2. CASE CheckClosed(t)
      <3>1. InCall(t) /\ Top(t).at = "isClosed" /\ UNCHANGED <<native, interfaces>>
        BY <2>2 DEF CheckClosed, TopAt
      <3>2. Top(t).op \in Ops \ {"close"}
        BY <3>1, TopFrameOK DEF FrameOK, Frame
      <3>3. CASE closed /\ Return(t, "refused", << >>)
        BY <3>1, <3>2, <3>3, RefusesSnapshot DEF CloseInv
      <3>4. QED
        BY <2>2, <3>1, <3>3 DEF CheckClosed
    <2>3. CASE GetInterface(t) \/ GetInterfaces(t)
      BY <2>3, GettersServe
    <2>4. CASE FailVisit(t) \/ CallbackReturn(t) \/ FinishList(t) \/ FinishNative(t)
      BY <2>4, ForEachServes
    <2>5. CASE Clean(t)
      BY <2>5, CleanCloses
    <2>6. CASE Shut(t)
      <3>1. /\ InCall(t) /\ Top(t).at = "shut" /\ interfaces' = interfaces
            /\ Return(t, "closed", << >>)
            /\ native' = IF closed THEN native ELSE "deleted"
        BY <2>6 DEF Shut, CloseInternal, TopAt
      <3>2. /\ Top(t).op = "close" /\ native # "none" /\ native \in {"none", "live", "deleted"}
            /\ native' = "deleted"
        BY <3>1, TopFrameOK, TopInNative DEF FrameOK, CoreInv, TypeOK, CloseInv
      <3>3. QED
        BY <3>1, <3>2, ClosesSnapshot
    <2>7. QED
      BY <1>3, <2>1, <2>2, <2>3, <2>4, <2>5, <2>6 DEF Step
  <1>4. ASSUME NEW t \in Threads, NEW op \in Ops, StartCall(t, op)
        PROVE  UNCHANGED <<native, interfaces, answer>>
    BY <1>4 DEF StartCall
  <1>5. CASE Forget \/ CleanerRuns \/ Rest \/ UNCHANGED vars
    BY <1>1, <1>5 DEF Forget, CleanerRuns, Rest, vars
  <1>6. QED
    BY <1>1, <1>2, <1>3, <1>4, <1>5 DEF Next

LEMMA RefinesInit == Init => Snapshot!Init
  BY DEF Init, Snapshot!Init, Status

\* When the browser is closed only after every call has ended, and forgotten only
\* then, whatever clients and callbacks do on however many threads, the answers
\* are those of a snapshot that answers in single steps until it is closed and
\* refuses from then on.
THEOREM BrowserIsSnapshot ==
    ASSUME ~CloseOverlaps
    PROVE  Spec => ImplementsSnapshot
  <1>1. Init => CoreInv /\ CloseInv /\ SnapshotInv
    BY CoreInit, CloseInit, SnapshotInit
  <1>2. CoreInv /\ CloseInv /\ SnapshotInv /\ [Next]_vars => (CoreInv /\ CloseInv /\ SnapshotInv)'
    BY CoreStep, CloseStep, SnapshotStep
  <1>3. CoreInv /\ CloseInv /\ SnapshotInv /\ [Next]_vars => [Snapshot!Next]_Snapshot!snapshotVars
    BY RefinesStep
  <1>4. Spec => Snapshot!Spec
    BY <1>1, <1>2, <1>3, RefinesInit, PTL DEF Spec, Snapshot!Spec
  <1>5. QED
    BY <1>4 DEF ImplementsSnapshot
=============================================================================
