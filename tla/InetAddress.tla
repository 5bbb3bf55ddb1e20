----------------------------- MODULE InetAddress -----------------------------
(***************************************************************************)
(* IPv6 addresses after they have left C++: the text that                  *)
(* InetAddressHelper.java makes of one, and what is left of the scope in   *)
(* the objects of Java (InetAddressHelper.java) and of Python              *)
(* (ip_address.py).                                                        *)
(***************************************************************************)
EXTENDS IpAddress

-----------------------------------------------------------------------------
(* The text.  A text is a sequence of words and of colons. *)

Colon == -1

None == [start |-> 0, end |-> 0]

Longer(run, best) == best = None \/ run.end - run.start > best.end - best.start

\* A fault in Keep: of two runs of the same length the last is taken.
KeepLast(best, run) ==
    IF run # None /\ (best = None \/ run.end - run.start >= best.end - best.start)
    THEN run ELSE best

\* The run of zeros that ends here is taken if it is the longest so far.
Keep(best, run) == IF run # None /\ Longer(run, best) THEN run ELSE best

ZeroWord(s, i) ==
    [best |-> s.best,
     run  |-> [start |-> IF s.run = None THEN i ELSE s.run.start, end |-> i]]
OtherWord(s) == [best |-> Keep(s.best, s.run), run |-> None]

\* The first of the longest runs of zero words, of one word even.
Zeroes(w) ==
    LET s[i \in 0..8] ==
            IF i = 0 THEN [best |-> None, run |-> None]
            ELSE IF w[i] = 0 THEN ZeroWord(s[i - 1], i) ELSE OtherWord(s[i - 1])
    IN Keep(s[8].best, s[8].run)

\* endWithColon
EndsInZeroes(w) == Zeroes(w).end = 8

\* What is appended for the word at i.
Part(w, z, i) ==
    IF z # None /\ i \in z.start..z.end
    THEN IF i = z.end THEN <<Colon>> ELSE << >>
    ELSE IF i > 1 THEN <<Colon, w[i]>> ELSE <<w[i]>>

HostText(w) ==
    LET builder[i \in 0..8] ==
            IF i = 0 THEN << >> ELSE builder[i - 1] \o Part(w, Zeroes(w), i)
    IN builder[8] \o (IF EndsInZeroes(w) THEN <<Colon>> ELSE << >>)

-----------------------------------------------------------------------------
(* Scopes.  scope is a C++ scope, as in IpAddress. *)

\* Inet6Address: the numeric scope only, 0 if there is none.
JavaScope(scope) == scope.id

\* What toString() prints after '%'; ids that are negative as an int are not.
JavaScopeText(scope) ==
    IF scope.id \in 1..(IdModulus \div 2 - 1) THEN Digits(scope.id) ELSE NoText

\* A fault in PythonScope: the constructor is not given the number.
PythonScopeByName(scope) ==
    [id |-> scope.name, throws |-> FALSE,
     number |-> IF scope.name.digits THEN scope.name.value ELSE NoId]

\* IPv6Address.__init__() of ip_address.py, with the address as bytes.  A name
\* of digits is taken for the number and must not contradict it.
PythonScope(scope) ==
    LET number == IF scope.name.digits THEN scope.name.value ELSE scope.id
    IN [id |-> IF scope.name = NoText /\ scope.id # NoId THEN Digits(scope.id) ELSE scope.name,
        number |-> IF number = NoId THEN scope.id ELSE number,
        throws |-> scope.id # NoId /\ number # NoId /\ number # scope.id]
=============================================================================
