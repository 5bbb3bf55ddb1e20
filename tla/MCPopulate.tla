----------------------------- MODULE MCPopulate -----------------------------
(***************************************************************************)
(* Populate for TLC: a system with a loopback interface lo and an Ethernet *)
(* interface eth, to which an interface with the third index may be added. *)
(* The list is in the order of the Linux C libraries: link items first.    *)
(***************************************************************************)
EXTENDS Populate

CONSTANTS lo, eth, lan

MCNames == {lo, eth, lan}
MCKernel == <<lo, eth, NoName>>

Item0 == [origin |-> 1, family |-> "link", flags |-> "plain", other |-> FALSE,
          hardware |-> "none", scope |-> 0]

MCSlots == <<
    [Item0 EXCEPT !.hardware = "foreign"],
    [Item0 EXCEPT !.origin = 2, !.flags = "broadcast", !.hardware = "ether"],
    [Item0 EXCEPT !.origin = 3, !.flags = "pointtopoint", !.family = "null"],
    [Item0 EXCEPT !.family = "inet"],
    [Item0 EXCEPT !.origin = 2, !.flags = "broadcast", !.family = "inet", !.other = TRUE],
    [Item0 EXCEPT !.origin = 2, !.flags = "broadcast", !.family = "inet"],
    [Item0 EXCEPT !.origin = 3, !.flags = "pointtopoint", !.family = "inet", !.other = TRUE],
    [Item0 EXCEPT !.origin = 2, !.flags = "broadcast", !.family = "inet6", !.scope = 2],
    [Item0 EXCEPT !.origin = 3, !.flags = "pointtopoint", !.family = "inet6", !.scope = 3],
    [Item0 EXCEPT !.origin = 3, !.flags = "pointtopoint", !.family = "other"]>>

\* The list is one that Linux makes.
ASSUME ListAssumption == OneLinkItemEach
=============================================================================
