--------------------------- MODULE BrowserSnapshot ---------------------------
(***************************************************************************)
(* What the Java documentation promises of an interface browser, with each *)
(* call reduced to the moment it gives its answer: a snapshot of the       *)
(* system's interfaces, taken once, that answers every accessor the same   *)
(* way and in the same order until it is closed, and refuses them all from *)
(* then on.                                                                *)
(***************************************************************************)
EXTENDS Sequences, Naturals

CONSTANTS Threads, Interfaces, Native

VARIABLES
    status,     \* unbuilt, open or closed
    published,  \* the Java list exists
    answer      \* each thread's latest answer: [op, kind, seen]

snapshotVars == <<status, published, answer>>

Ops   == {"getInterface", "getInterfaces", "forEachInterface", "close"}
Kinds == {"none", "refused", "failed", "found", "absent", "list",
          "completed", "stopped", "closed"}

Prefixes == {SubSeq(Native, 1, n) : n \in 0..Len(Native)}
Known    == {Native[i] : i \in DOMAIN Native}

\* An answer taken from the snapshot says what the snapshot says.
FromSnapshot(a) ==
    \/ /\ a.op = "getInterface"
       /\ \E k \in Interfaces :
             /\ a.seen = <<k>>
             /\ a.kind = IF k \in Known THEN "found" ELSE "absent"
    \/ a.op = "getInterfaces" /\ a.kind = "list" /\ a.seen = Native
    \/ a.op = "forEachInterface" /\ a.kind = "completed" /\ a.seen = Native
    \/ a.op = "forEachInterface" /\ a.kind = "stopped" /\ a.seen \in Prefixes \ {<< >>}

\* An accessor or its callback failed: what was seen before that is still right.
Failed(a) ==
    /\ a.op # "close"
    /\ a.kind = "failed"
    /\ a.seen \in Prefixes
    /\ a.op # "forEachInterface" => a.seen = << >>

Init ==
    /\ status = "unbuilt"
    /\ published = FALSE
    /\ answer = [t \in Threads |-> [op |-> "close", kind |-> "none", seen |-> << >>]]

Build ==
    /\ status = "unbuilt"
    /\ status' = "open"
    /\ UNCHANGED <<published, answer>>

\* An open browser answers from its snapshot, which is published by then.
Serve(t) ==
    /\ status = "open"
    /\ \E op \in Ops, kind \in Kinds, seen \in {<<k>> : k \in Interfaces} \union Prefixes :
          LET a == [op |-> op, kind |-> kind, seen |-> seen]
          IN /\ \/ FromSnapshot(a) /\ published' = TRUE
                \/ Failed(a) /\ published' \in {published, TRUE}
             /\ answer' = [answer EXCEPT ![t] = a]
    /\ UNCHANGED status

\* A closed browser refuses every accessor.
Refuse(t) ==
    /\ status = "closed"
    /\ \E op \in Ops \ {"close"} :
          answer' = [answer EXCEPT ![t] = [op |-> op, kind |-> "refused", seen |-> << >>]]
    /\ UNCHANGED <<status, published>>

\* close() may be called again and again.
Close(t) ==
    /\ status # "unbuilt"
    /\ status' = "closed"
    /\ answer' = [answer EXCEPT ![t] = [op |-> "close", kind |-> "closed", seen |-> << >>]]
    /\ UNCHANGED published

Next ==
    \/ Build
    \/ \E t \in Threads : Serve(t) \/ Refuse(t) \/ Close(t)

Spec == Init /\ [][Next]_snapshotVars
=============================================================================
