---------------------------- MODULE MCJniLibrary ----------------------------
(***************************************************************************)
(* JniLibrary for TLC: a library inside a JAR, which may or may not be     *)
(* copied, and one system without any; an interface that has everything.   *)
(***************************************************************************)
EXTENDS JniLibrary

Debian == [os |-> {"linux"}, arch |-> {"amd64"}, release |-> <<"debian">>]
Full   == <<"linux-deb", "x64", "so">>

MCSystems ==
    {[platform |-> Debian, installed |-> [jar |-> TRUE, resources |-> r, path |-> << >>]] :
        r \in {{Full}, {}}}

MCShapes ==
    {[mtu |-> TRUE, mac |-> TRUE, ipv4 |-> TRUE, ipv6 |-> TRUE, scoped |-> TRUE]}
=============================================================================
