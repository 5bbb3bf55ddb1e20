---------------------------- MODULE StackLemmas -----------------------------
(***************************************************************************)
(* Facts about sequences that the proofs about the browsers share: what    *)
(* the operations on a stack of calls do to its frames, and the prefixes   *)
(* of a list that is visited from its first element on; and that a loop    *)
(* over positions has a state at each of them.                             *)
(***************************************************************************)
EXTENDS Naturals, Integers, Sequences, SequenceTheorems, WellFoundedInduction, TLAPS

-----------------------------------------------------------------------------
(* What the three operations on a stack of calls do to its frames. *)

\* Append keeps every frame and adds one on top.
LEMMA PushLemma ==
    ASSUME NEW S, NEW s \in Seq(S), NEW f \in S
    PROVE  /\ Append(s, f) \in Seq(S)
           /\ Len(Append(s, f)) = Len(s) + 1
           /\ DOMAIN Append(s, f) = 1..(Len(s) + 1)
           /\ \A i \in 1..Len(s) : Append(s, f)[i] = s[i]
           /\ Append(s, f)[Len(s) + 1] = f
  BY AppendProperties, SMTT(60)

\* EXCEPT at the top keeps every other frame.
LEMMA ReplaceLemma ==
    ASSUME NEW S, NEW s \in Seq(S), s # << >>, NEW f \in S
    PROVE  /\ [s EXCEPT ![Len(s)] = f] \in Seq(S)
           /\ Len([s EXCEPT ![Len(s)] = f]) = Len(s)
           /\ DOMAIN [s EXCEPT ![Len(s)] = f] = 1..Len(s)
           /\ \A i \in 1..(Len(s) - 1) : [s EXCEPT ![Len(s)] = f][i] = s[i]
           /\ [s EXCEPT ![Len(s)] = f][Len(s)] = f
  <1>1. Len(s) \in Nat \ {0} /\ Len(s) \in 1..Len(s)
    BY EmptySeq
  <1>2. /\ [s EXCEPT ![Len(s)] = f] \in Seq(S)
        /\ Len([s EXCEPT ![Len(s)] = f]) = Len(s)
        /\ \A i \in 1..Len(s) : [s EXCEPT ![Len(s)] = f][i] = IF i = Len(s) THEN f ELSE s[i]
    BY <1>1, ExceptSeq
  <1>3. DOMAIN [s EXCEPT ![Len(s)] = f] = 1..Len(s)
    BY <1>2, LenProperties
  <1>4. \A i \in 1..(Len(s) - 1) : i \in 1..Len(s) /\ i # Len(s)
    BY <1>1
  <1>5. QED
    BY <1>1, <1>2, <1>3, <1>4

\* A pop keeps every frame but the top one.
LEMMA PopLemma ==
    ASSUME NEW S, NEW s \in Seq(S), s # << >>
    PROVE  /\ SubSeq(s, 1, Len(s) - 1) \in Seq(S)
           /\ Len(SubSeq(s, 1, Len(s) - 1)) = Len(s) - 1
           /\ DOMAIN SubSeq(s, 1, Len(s) - 1) = 1..(Len(s) - 1)
           /\ \A i \in 1..(Len(s) - 1) : SubSeq(s, 1, Len(s) - 1)[i] = s[i]
  <1>1. Len(s) \in Nat \ {0}
    BY EmptySeq
  <1>2. \A i \in 1..(Len(s) - 1) : s[i] \in S
    BY <1>1, ElementOfSeq
  <1>3. /\ SubSeq(s, 1, Len(s) - 1) \in Seq(S)
        /\ Len(SubSeq(s, 1, Len(s) - 1)) = Len(s) - 1
        /\ \A i \in 1..(Len(s) - 1) : SubSeq(s, 1, Len(s) - 1)[i] = s[i]
    <2>1. 1 \in Int /\ Len(s) - 1 \in Int
      BY <1>1
    <2>2. /\ SubSeq(s, 1, Len(s) - 1) \in Seq(S)
          /\ Len(SubSeq(s, 1, Len(s) - 1)) = IF 1 <= Len(s) - 1 THEN (Len(s) - 1) - 1 + 1 ELSE 0
          /\ \A i \in 1..((Len(s) - 1) - 1 + 1) : SubSeq(s, 1, Len(s) - 1)[i] = s[1 + i - 1]
      BY <1>2, <2>1, SubSeqProperties
    <2>3. /\ (IF 1 <= Len(s) - 1 THEN (Len(s) - 1) - 1 + 1 ELSE 0) = Len(s) - 1
          /\ (Len(s) - 1) - 1 + 1 = Len(s) - 1
          /\ \A i \in 1..(Len(s) - 1) : 1 + i - 1 = i
      BY <1>1
    <2>4. QED
      BY <2>2, <2>3, Zenon
  <1>4. QED
    BY <1>3, LenProperties

\* A function on 1..n is a sequence of n elements.
LEMMA FunctionIsSeq ==
    ASSUME NEW S, NEW n \in Nat, NEW f \in [1..n -> S]
    PROVE  f \in Seq(S) /\ Len(f) = n /\ DOMAIN f = 1..n
  <1>1. f \in Seq(S)
    BY SeqDef
  <1>2. Len(f) \in Nat /\ DOMAIN f = 1..Len(f)
    BY <1>1, LenProperties
  <1>3. QED
    BY <1>1, <1>2, SMT

-----------------------------------------------------------------------------
(* Prefixes of a list. *)

LEMMA PrefixElements ==
    ASSUME NEW S, NEW s \in Seq(S), NEW n \in 0..Len(s)
    PROVE  /\ SubSeq(s, 1, n) \in Seq(S)
           /\ Len(SubSeq(s, 1, n)) = n
           /\ \A i \in 1..n : SubSeq(s, 1, n)[i] = s[i]
  <1>1. n \in Int /\ n >= 0 /\ \A i \in 1..n : s[i] \in S
    BY ElementOfSeq, LenProperties
  <1>2. /\ SubSeq(s, 1, n) \in Seq(S)
        /\ Len(SubSeq(s, 1, n)) = IF 1 <= n THEN n - 1 + 1 ELSE 0
        /\ \A i \in 1..(n - 1 + 1) : SubSeq(s, 1, n)[i] = s[1 + i - 1]
    BY <1>1, SubSeqProperties
  <1>3. /\ (IF 1 <= n THEN n - 1 + 1 ELSE 0) = n
        /\ n - 1 + 1 = n
        /\ \A i \in 1..n : 1 + i - 1 = i
    BY <1>1
  <1>4. QED
    BY <1>2, <1>3, Zenon

\* The shortest prefix and the longest.
LEMMA PrefixEnds ==
    ASSUME NEW S, NEW s \in Seq(S)
    PROVE  /\ Len(s) \in 0..Len(s)
           /\ SubSeq(s, 1, Len(s)) = s
           /\ SubSeq(s, 1, 0) = << >>
  <1>1. Len(s) \in Nat
    BY LenProperties
  <1>2. QED
    BY <1>1, SubSeqFull, SubSeqEmpty

\* One more element makes the next prefix.
LEMMA PrefixExtend ==
    ASSUME NEW S, NEW s \in Seq(S), NEW n \in Nat, n < Len(s)
    PROVE  /\ n + 1 \in 1..Len(s)
           /\ s[n + 1] \in S
           /\ Append(SubSeq(s, 1, n), s[n + 1]) = SubSeq(s, 1, n + 1)
  <1>1. Len(s) \in Nat
    BY LenProperties
  <1>2. n \in 0..Len(s) /\ n + 1 \in 0..Len(s) /\ n + 1 \in 1..Len(s)
    BY <1>1
  <1>3. s[n + 1] \in S
    BY <1>1, <1>2, ElementOfSeq
  <1> DEFINE p == SubSeq(s, 1, n)
             e == Append(p, s[n + 1])
             r == SubSeq(s, 1, n + 1)
  <1>4. p \in Seq(S) /\ Len(p) = n /\ \A i \in 1..n : p[i] = s[i]
    BY <1>2, PrefixElements
  <1>5. r \in Seq(S) /\ Len(r) = n + 1 /\ \A i \in 1..(n + 1) : r[i] = s[i]
    BY <1>2, PrefixElements
  <1> HIDE DEF p, r
  <1>6. /\ e \in Seq(S) /\ Len(e) = n + 1
        /\ \A i \in 1..n : e[i] = p[i]
        /\ e[n + 1] = s[n + 1]
    BY <1>3, <1>4, PushLemma
  <1>7. \A i \in 1..(n + 1) : e[i] = r[i]
    BY <1>4, <1>5, <1>6
  <1> HIDE DEF e
  <1>8. e = r
    BY <1>5, <1>6, <1>7, SeqEqual
  <1>9. QED
    BY <1>2, <1>3, <1>8 DEF e, r, p

-----------------------------------------------------------------------------
(* The first of some places. *)

\* Among some natural numbers one is the least.
LEMMA LeastElement ==
    ASSUME NEW T, T \subseteq Nat, T # {}
    PROVE  \E k \in T : \A j \in T : k <= j
  <1> DEFINE Less == OpToRel(<, Nat)
  <1>1. \A x, y \in Nat : y < x => <<y, x>> \in Less
    BY SMT DEF OpToRel
  <1>2. IsWellFoundedOn(Less, Nat)
    BY NatLessThanWellFounded
  <1> HIDE DEF Less
  <1>3. \E x \in T : \A y \in T : ~ (<<y, x>> \in Less)
    BY <1>2, WFMin, Zenon
  <1>4. PICK k \in T : \A y \in T : ~ (<<y, k>> \in Less)
    BY <1>3
  <1>5. \A j \in T : k <= j
    <2> SUFFICES ASSUME NEW j \in T PROVE k <= j
      OBVIOUS
    <2>1. k \in Nat /\ j \in Nat
      OBVIOUS
    <2>2. ~ (j < k)
      BY <1>1, <1>4, <2>1, Zenon
    <2>3. QED
      BY <2>1, <2>2
  <1>6. QED
    BY <1>5

\* A function of the positions 0 to n, each value of which g gives from the one before.
GoesOn(f, n, start, g) == f[0] = start /\ \A i \in 1..n : f[i] = g[<<f[i - 1], i>>]

\* There is one from every value on.
LEMMA StepByStep ==
    ASSUME NEW n \in Nat, NEW S, NEW start \in S, NEW g \in [S \X (1..n) -> S]
    PROVE  \E f \in [0..n -> S] : GoesOn(f, n, start, g)
  <1> DEFINE Upto(m) == \E f \in [0..m -> S] :
                            f[0] = start /\ \A i \in 1..m : f[i] = g[<<f[i - 1], i>>]
             Missing == {m \in 0..n : ~Upto(m)}
  <1>1. Upto(0)
    <2>1. [i \in 0..0 |-> start] \in [0..0 -> S]
      OBVIOUS
    <2>2. [i \in 0..0 |-> start][0] = start /\ 1..0 = {}
      OBVIOUS
    <2>3. QED
      BY <2>1, <2>2
  <1>2. ASSUME NEW m \in 1..n, Upto(m - 1)
        PROVE  Upto(m)
    <2>1. PICK f \in [0..(m - 1) -> S] :
                  f[0] = start /\ \A i \in 1..(m - 1) : f[i] = g[<<f[i - 1], i>>]
      BY <1>2
    <2> DEFINE h == [i \in 0..m |-> IF i = m THEN g[<<f[m - 1], m>>] ELSE f[i]]
    <2>2. f[m - 1] \in S /\ <<f[m - 1], m>> \in S \X (1..n)
      OBVIOUS
    <2>3. h \in [0..m -> S]
      BY <2>2
    <2>4. h[0] = start
      BY <2>1
    <2>5. ASSUME NEW i \in 1..m
          PROVE  h[i] = g[<<h[i - 1], i>>]
      <3>1. i - 1 \in 0..m /\ i \in 0..m /\ h[i - 1] = f[i - 1]
        OBVIOUS
      <3>2. CASE i = m
        BY <3>1, <3>2
      <3>3. CASE i # m
        BY <2>1, <3>1, <3>3
      <3>4. QED
        BY <3>2, <3>3
    <2> HIDE DEF h
    <2>6. QED
      BY <2>3, <2>4, <2>5
  <1> HIDE DEF Upto
  <1>3. ASSUME Missing # {}
        PROVE  FALSE
    <2>1. Missing \subseteq Nat
      OBVIOUS
    <2> HIDE DEF Missing
    <2>2. PICK k \in Missing : \A j \in Missing : k <= j
      BY <1>3, <2>1, LeastElement
    <2> USE DEF Missing
    <2>3. k # 0 /\ k \in 1..n /\ k - 1 \in 0..n /\ k - 1 \notin Missing
      BY <1>1, <2>2
    <2>4. QED
      BY <1>2, <2>2, <2>3
  <1>4. Upto(n)
    BY <1>3
  <1>5. QED
    BY <1>4 DEF Upto, GoesOn
=============================================================================
